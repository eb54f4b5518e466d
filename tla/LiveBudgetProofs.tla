---------------------------- MODULE LiveBudgetProofs ----------------------------
(***************************************************************************)
(* Theorems about the ledger of live answers, for every value of its       *)
(* constants: calls are paid for before they are made, calls in flight     *)
(* belong to the holder of the lock, the file never forgets, and the       *)
(* spending caps hold.  The sums stay opaque until their section.          *)
(***************************************************************************)
EXTENDS LiveBudget, SequenceTheorems, FiniteSetTheorems, TLAPS

(* Executions.                                                             *)

\* The idle states are well typed.
LEMMA IdleType == IdleExecution \in Executions /\ AbsentWriter \in WriterStates
<1>1. 0 \in 0..WorkLimit
  BY BudgetAssumption
<1> QED BY <1>1 DEF IdleExecution, Executions, AbsentWriter, WriterStates, Purposes

\* An execution that goes on has the same owner and waits for a slot, or is to finish.
LEMMA ProceedingType ==
  ASSUME NEW r \in Executions, NEW n \in Purposes \cup {"finish"}, NEW b \in BOOLEAN,
         n = "work" => r.works < WorkLimit
  PROVE  /\ Proceeding(r, n, b) \in Executions
         /\ Proceeding(r, n, b).owner = r.owner
         /\ Proceeding(r, n, b).pc \in {"acquire", "finish"}
<1>1. CASE n = "finish"
  <2>1. IdleExecution \in Executions
    BY IdleType
  <2> QED BY <1>1, <2>1 DEF Proceeding, Executions
<1>2. CASE n # "finish"
  <2> DEFINE works == IF n = "work" THEN r.works + 1 ELSE r.works
             session == b /\ n = "work"
             stopped == r.limit = "late" \/ (r.limit = "cancelled" /\ n = "work")
  <2>1. works \in 0..WorkLimit
    BY BudgetAssumption DEF Executions
  <2>2. session \in BOOLEAN /\ stopped \in BOOLEAN
    OBVIOUS
  <2>3. Proceeding(r, n, b) =
          [r EXCEPT !.pc = "acquire", !.next = n, !.outcome = "ok", !.works = works,
                    !.session = session, !.stopped = stopped]
    BY <1>2 DEF Proceeding, Executions
  <2>4. n \in Purposes
    BY <1>2
  <2> HIDE DEF works, session, stopped
  <2> QED BY <2>1, <2>2, <2>3, <2>4 DEF Executions, Dispatching
<1> QED BY <1>1, <1>2

\* So is what a dispatch leaves behind when it returns or throws.
LEMMA ReturnedType ==
  ASSUME NEW r \in Executions, NEW ok \in BOOLEAN, NEW s \in Returned(r, ok)
  PROVE  s \in Executions /\ s.owner = r.owner /\ s.pc \in {"acquire", "finish"}
<1>1. PICK b \in Sessions(r, ok) : \E n \in Following(r, ok, b) : s = Proceeding(r, n, b)
  BY DEF Returned
<1>2. PICK n \in Following(r, ok, b) : s = Proceeding(r, n, b)
  BY <1>1
<1>3. b \in BOOLEAN
  BY DEF Sessions, Executions
<1>4. n \in Purposes \cup {"finish"} /\ (n = "work" => r.works < WorkLimit)
  <2>1. r.next \in {"work", "cancel", "delete"}
    BY DEF Executions, Purposes, Cleanups
  <2>2. CASE r.next = "work"
    BY <2>2 DEF Following, Purposes, Cleanups
  <2>3. CASE r.next = "cancel"
    BY <2>3 DEF Following, Purposes, Cleanups
  <2>4. CASE r.next = "delete"
    BY <2>4 DEF Following, Purposes, Cleanups
  <2> QED BY <2>1, <2>2, <2>3, <2>4
<1> QED BY <1>2, <1>3, <1>4, ProceedingType

\* And what a settle leaves behind that throws.
LEMMA SettleThrowsType ==
  ASSUME NEW r \in Executions, NEW s \in SettleThrows(r)
  PROVE  /\ s \in Executions /\ s.owner = r.owner
         /\ \/ s.pc \in {"acquire", "finish"}
            \/ s = [r EXCEPT !.pc = "settle", !.outcome = "failed"]
<1>1. [r EXCEPT !.pc = "settle", !.outcome = "failed"] \in Executions
  BY DEF Executions
<1>2. [r EXCEPT !.pc = "settle", !.outcome = "failed"].owner = r.owner
  BY DEF Executions
<1>3. FALSE \in BOOLEAN
  OBVIOUS
<1> QED BY <1>1, <1>2, <1>3, ReturnedType DEF SettleThrows

(* Ledger entries.                                                         *)

\* What a later entry of a task keeps of an earlier one.
Grows(new, old) ==
  old # NoRun =>
    /\ new # NoRun
    /\ old.closed => new.closed
    /\ Len(old.attempts) <= Len(new.attempts)
    /\ \A i \in DOMAIN old.attempts : new.attempts[i].purpose = old.attempts[i].purpose

\* A ledger extends another one entry by entry.
LEMMA ExtendsGrows ==
  ASSUME NEW new, NEW old
  PROVE  Extends(new, old) <=> \A t \in Known : Grows(new[t], old[t])
BY DEF Extends, Grows, Entered

\* Growing is reflexive ...
LEMMA GrowsReflexive ==
  ASSUME NEW e \in Entries \cup {NoRun}
  PROVE  Grows(e, e)
<1>1. CASE e = NoRun
  BY <1>1 DEF Grows
<1>2. CASE e # NoRun
  <2>1. Len(e.attempts) \in Nat
    BY <1>2 DEF Entries
  <2> QED BY <2>1 DEF Grows
<1> QED BY <1>1, <1>2

\* ... and transitive.
LEMMA GrowsTransitive ==
  ASSUME NEW c \in Entries \cup {NoRun}, NEW b \in Entries \cup {NoRun},
         NEW a \in Entries \cup {NoRun}, Grows(c, b), Grows(b, a)
  PROVE  Grows(c, a)
<1>1. CASE a = NoRun
  BY <1>1 DEF Grows
<1>2. CASE a # NoRun
  <2>1. b # NoRun /\ c # NoRun
    BY <1>2 DEF Grows
  <2>2. /\ a.attempts \in Seq([purpose : Purposes, outcome : {"reserved", "settled"}])
        /\ b.attempts \in Seq([purpose : Purposes, outcome : {"reserved", "settled"}])
        /\ c.attempts \in Seq([purpose : Purposes, outcome : {"reserved", "settled"}])
    BY <1>2, <2>1 DEF Entries
  <2>3. /\ DOMAIN a.attempts = 1..Len(a.attempts)
        /\ DOMAIN b.attempts = 1..Len(b.attempts)
        /\ Len(a.attempts) \in Nat /\ Len(b.attempts) \in Nat /\ Len(c.attempts) \in Nat
    BY <2>2
  <2>4. DOMAIN a.attempts \subseteq DOMAIN b.attempts
    BY <1>2, <2>1, <2>3 DEF Grows
  <2> QED BY <1>2, <2>1, <2>3, <2>4 DEF Grows
<1> QED BY <1>1, <1>2

\* The first entry of a task.
Opened == [closed |-> FALSE, attempts |-> <<>>]

\* It is an entry, and grows out of none.
LEMMA OpenedEntry == Opened \in Entries /\ Opened # NoRun /\ Grows(Opened, NoRun)
<1>1. Opened \in Entries
  BY DEF Opened, Entries
<1> QED BY <1>1, NoRunAssumption DEF Grows

\* An entry with one more attempt, reserved for purpose p.
Charged(e, p) == [e EXCEPT !.attempts = Append(@, [purpose |-> p, outcome |-> "reserved"])]

\* It ends with the reservation.
LEMMA ChargedEntry ==
  ASSUME NEW e \in Entries, NEW p \in Purposes
  PROVE  /\ Charged(e, p) \in Entries /\ Charged(e, p) # NoRun
         /\ Grows(Charged(e, p), e)
         /\ Charged(e, p).attempts # <<>>
         /\ Len(Charged(e, p).attempts) = Len(e.attempts) + 1
         /\ Charged(e, p).attempts[Len(Charged(e, p).attempts)] =
              [purpose |-> p, outcome |-> "reserved"]
<1> DEFINE S == [purpose : Purposes, outcome : {"reserved", "settled"}]
           a == [purpose |-> p, outcome |-> "reserved"]
           s == Append(e.attempts, a)
<1>1. e.attempts \in Seq(S) /\ a \in S
  BY DEF Entries
<1> HIDE DEF S, a
<1>2. /\ s \in Seq(S) /\ Len(s) = Len(e.attempts) + 1 /\ s[Len(s)] = a
      /\ \A i \in 1..Len(e.attempts) : s[i] = e.attempts[i]
      /\ Len(e.attempts) \in Nat /\ DOMAIN e.attempts = 1..Len(e.attempts)
  BY <1>1, AppendProperties
<1>3. s # <<>>
  BY <1>2, EmptySeq
<1> HIDE DEF s
<1>4. Charged(e, p) = [e EXCEPT !.attempts = s]
  BY DEF Charged, s, a, Entries
<1>5. Charged(e, p) \in Entries /\ Charged(e, p).attempts = s /\ Charged(e, p).closed = e.closed
  BY <1>2, <1>4 DEF Entries, S
<1>6. Charged(e, p) # NoRun
  BY <1>5, NoRunAssumption
<1>7. Grows(Charged(e, p), e)
  BY <1>2, <1>5, <1>6 DEF Grows
<1> QED BY <1>2, <1>3, <1>5, <1>6, <1>7 DEF a

\* An entry whose last attempt is settled.
Settled(e) == [e EXCEPT !.attempts[Len(e.attempts)].outcome = "settled"]

\* It has the same attempts.
LEMMA SettledEntry ==
  ASSUME NEW e \in Entries, e.attempts # <<>>
  PROVE  /\ Settled(e) \in Entries /\ Settled(e) # NoRun
         /\ Grows(Settled(e), e)
         /\ Settled(e).attempts # <<>>
         /\ Len(Settled(e).attempts) = Len(e.attempts)
<1> DEFINE S == [purpose : Purposes, outcome : {"reserved", "settled"}]
           n == Len(e.attempts)
           a == [e.attempts[n] EXCEPT !.outcome = "settled"]
           s == [e.attempts EXCEPT ![n] = a]
<1>1. e.attempts \in Seq(S)
  BY DEF Entries
<1>2. n \in 1..n /\ n \in Nat /\ DOMAIN e.attempts = 1..n /\ e.attempts[n] \in S
  <2> HIDE DEF S
  <2>1. n \in Nat /\ DOMAIN e.attempts = 1..n /\ n # 0
    BY <1>1, EmptySeq
  <2>2. n \in 1..n
    BY <2>1
  <2> QED BY <1>1, <2>1, <2>2
<1>3. a \in S /\ a.purpose = e.attempts[n].purpose
  BY <1>2
<1> HIDE DEF S, a
<1>4. s \in Seq(S) /\ Len(s) = n /\ s[n] = a
      /\ \A i \in 1..n : i # n => s[i] = e.attempts[i]
  BY <1>1, <1>2, <1>3, ExceptSeq
<1>5. s # <<>>
  BY <1>2, <1>4
<1>6. Settled(e) = [e EXCEPT !.attempts = s]
  BY <1>2 DEF Settled, a, Entries
<1> HIDE DEF s, n
<1>7. Settled(e) \in Entries /\ Settled(e).attempts = s /\ Settled(e).closed = e.closed
  BY <1>4, <1>6 DEF Entries, S
<1>8. Settled(e) # NoRun
  BY <1>7, NoRunAssumption
<1>9. \A i \in 1..n : s[i].purpose = e.attempts[i].purpose
  BY <1>3, <1>4
<1>10. Grows(Settled(e), e)
  BY <1>2, <1>4, <1>7, <1>8, <1>9 DEF Grows, n
<1> QED BY <1>4, <1>5, <1>7, <1>8, <1>10 DEF n

\* An entry that has been closed keeps its attempts.
LEMMA ClosedEntry ==
  ASSUME NEW e \in Entries
  PROVE  /\ [e EXCEPT !.closed = TRUE] \in Entries /\ [e EXCEPT !.closed = TRUE] # NoRun
         /\ Grows([e EXCEPT !.closed = TRUE], e)
         /\ [e EXCEPT !.closed = TRUE].attempts = e.attempts
<1> DEFINE x == [e EXCEPT !.closed = TRUE]
<1>1. x \in Entries /\ x.attempts = e.attempts /\ x.closed = TRUE
  BY DEF Entries
<1>2. Len(e.attempts) \in Nat
  BY DEF Entries
<1> HIDE DEF x
<1>3. x # NoRun
  BY <1>1, NoRunAssumption
<1>4. Grows(x, e)
  BY <1>1, <1>2, <1>3 DEF Grows
<1> QED BY <1>1, <1>3, <1>4 DEF x

--------------------------------------------------------------------------------
(* The inductive invariant.                                                *)

\* An execution that owns a slot before its provider call, and one whose call is awaited.
HasSlot(r, w) == r.owner = w /\ r.pc \in {"reserve", "reserveSave", "invoke"}
Awaits(r, w) == r.owner = w /\ r.pc = "working"
SlotHolders(w) == {t \in Tasks : HasSlot(run[t], w)}
Awaiting(w) == {t \in Tasks : Awaits(run[t], w)}

\* A writer that may still change its ledger holds the lock; nothing is in flight and
\* nothing is admitted once the lock release has begun.
Lifecycle(w) ==
  /\ writer[w].pc \in {"opening", "open"} => lock = w
  /\ writer[w].pc # "open" => writer[w].active = 0 /\ writer[w].closing = "no"
  /\ writer[w].pc = "closed" => writer[w].released
  /\ writer[w].released => writer[w].closed /\ writer[w].active = 0
  /\ writer[w].closing = "releasing" => writer[w].released
  /\ writer[w].closing = "queued" => writer[w].closed

\* Memory is never behind the file.
Ahead(w) == writer[w].pc = "open" => Extends(mem[w], disk)

\* A slot is held by a dispatch that has not called yet, or by a call in flight; a call
\* in flight is awaited or abandoned.
Counted(w) ==
  /\ IsFiniteSet(SlotHolders(w)) /\ IsFiniteSet(Awaiting(w))
  /\ writer[w].active = physical[w] + Cardinality(SlotHolders(w))
  /\ Cardinality(Awaiting(w)) <= physical[w]
  /\ writer[w].active <= Concurrency

\* An execution has an open or closed writer, and is in a save of one that is open.
Owned(t) ==
  /\ run[t].pc = "idle" => run[t].owner = NoWriter
  /\ run[t].pc # "idle" => /\ run[t].owner \in Writers
                           /\ writer[run[t].owner].pc \in {"open", "closed"}
  /\ run[t].pc \in Saving => ~writer[run[t].owner].released
  /\ run[t].pc \in {"begin", "beginSave"} => run[t].works = 0

\* An execution r of a task, its entry e in memory, the entry f on file and the number d
\* of calls ever made for it: the call that is about to be made is reserved on file.
PaidFor(r, e, f, d) ==
  /\ r.pc \notin {"idle", "begin"} => e # NoRun
  /\ r.pc \in {"reserveSave", "invoke", "working", "settle", "settleSave"} =>
       e.attempts # <<>>
  /\ r.pc \in {"reserveSave", "invoke", "working"} =>
       e.attempts[Len(e.attempts)] = [purpose |-> r.next, outcome |-> "reserved"]
  /\ r.pc \in {"reserveSave", "invoke"} => d < Len(e.attempts)
  /\ r.pc \in {"invoke", "working"} => f = e
  /\ d > 0 => f # NoRun /\ d <= Len(f.attempts)

Paid(t) == PaidFor(run[t], mem[run[t].owner][t], disk[t], dispatched[t])

IInv ==
  /\ \A w \in Writers : Lifecycle(w) /\ Ahead(w) /\ Counted(w)
  /\ \A t \in Tasks : Owned(t) /\ Paid(t)

(* Counting slots.                                                         *)

\* One element of a finite set may leave it or enter it.
LEMMA OneMoves ==
  ASSUME NEW S, IsFiniteSet(S), NEW t, NEW b \in BOOLEAN,
         NEW T, T = (S \ {t}) \cup (IF b THEN {t} ELSE {})
  PROVE  /\ IsFiniteSet(T)
         /\ Cardinality(S) \in Nat /\ Cardinality(T) \in Nat
         /\ Cardinality(T) = Cardinality(S) - (IF t \in S THEN 1 ELSE 0)
                                            + (IF b THEN 1 ELSE 0)
         /\ t \in S => Cardinality(S) >= 1
<1> DEFINE R == S \ {t}
<1>1. IsFiniteSet(R) /\ Cardinality(R) = IF t \in S THEN Cardinality(S) - 1
                                                    ELSE Cardinality(S)
  BY FS_RemoveElement
<1>2. Cardinality(S) \in Nat /\ Cardinality(R) \in Nat /\ t \notin R
  BY <1>1, FS_CardinalityType
<1> HIDE DEF R
<1>3. CASE b
  <2>1. T = R \cup {t}
    BY <1>3 DEF R
  <2>2. IsFiniteSet(T) /\ Cardinality(T) = Cardinality(R) + 1
    BY <1>1, <1>2, <2>1, FS_AddElement
  <2> QED BY <1>1, <1>2, <1>3, <2>2
<1>4. CASE ~b
  <2>1. T = R
    BY <1>4 DEF R
  <2> QED BY <1>1, <1>2, <1>4, <2>1
<1> QED BY <1>3, <1>4

\* A step of one execution moves it alone between the counted states of its writer.
LEMMA CountMoves ==
  ASSUME TypeOK, NEW t \in Tasks, NEW w \in Writers, NEW x, Counted(w),
         run' = [run EXCEPT ![t] = x]
  PROVE  LET n == Cardinality(SlotHolders(w))
             m == Cardinality(Awaiting(w))
         IN /\ IsFiniteSet(SlotHolders(w)') /\ IsFiniteSet(Awaiting(w)')
            /\ n \in Nat /\ m \in Nat
            /\ Cardinality(SlotHolders(w)') = n - (IF HasSlot(run[t], w) THEN 1 ELSE 0)
                                                + (IF HasSlot(x, w) THEN 1 ELSE 0)
            /\ Cardinality(Awaiting(w)') = m - (IF Awaits(run[t], w) THEN 1 ELSE 0)
                                             + (IF Awaits(x, w) THEN 1 ELSE 0)
            /\ HasSlot(run[t], w) => n >= 1
            /\ Awaits(run[t], w) => m >= 1
<1>1. run'[t] = x /\ \A u \in Tasks \ {t} : run'[u] = run[u]
  BY DEF TypeOK
<1>2. SlotHolders(w)' = (SlotHolders(w) \ {t}) \cup (IF HasSlot(x, w) THEN {t} ELSE {})
  <2>1. SlotHolders(w)' = {u \in Tasks : HasSlot(run'[u], w)}
    BY DEF SlotHolders, HasSlot
  <2> QED BY <1>1, <2>1 DEF SlotHolders
<1>3. Awaiting(w)' = (Awaiting(w) \ {t}) \cup (IF Awaits(x, w) THEN {t} ELSE {})
  <2>1. Awaiting(w)' = {u \in Tasks : Awaits(run'[u], w)}
    BY DEF Awaiting, Awaits
  <2> QED BY <1>1, <2>1 DEF Awaiting
<1>4. /\ IsFiniteSet(SlotHolders(w)) /\ IsFiniteSet(Awaiting(w))
      /\ t \in SlotHolders(w) <=> HasSlot(run[t], w)
      /\ t \in Awaiting(w) <=> Awaits(run[t], w)
      /\ HasSlot(x, w) \in BOOLEAN /\ Awaits(x, w) \in BOOLEAN
  BY DEF Counted, SlotHolders, Awaiting, HasSlot, Awaits
<1> HIDE DEF SlotHolders, Awaiting, HasSlot, Awaits
<1>5. /\ IsFiniteSet(SlotHolders(w)')
      /\ Cardinality(SlotHolders(w)) \in Nat
      /\ Cardinality(SlotHolders(w)') =
           Cardinality(SlotHolders(w)) - (IF HasSlot(run[t], w) THEN 1 ELSE 0)
                                       + (IF HasSlot(x, w) THEN 1 ELSE 0)
      /\ HasSlot(run[t], w) => Cardinality(SlotHolders(w)) >= 1
  BY <1>2, <1>4, OneMoves
<1>6. /\ IsFiniteSet(Awaiting(w)')
      /\ Cardinality(Awaiting(w)) \in Nat
      /\ Cardinality(Awaiting(w)') =
           Cardinality(Awaiting(w)) - (IF Awaits(run[t], w) THEN 1 ELSE 0)
                                    + (IF Awaits(x, w) THEN 1 ELSE 0)
      /\ Awaits(run[t], w) => Cardinality(Awaiting(w)) >= 1
  BY <1>3, <1>4, OneMoves
<1> QED BY <1>5, <1>6

\* Whoever holds a slot holds the lock through its writer.
LEMMA SlotHoldsLock ==
  ASSUME TypeOK, IInv, NEW t \in Tasks,
         run[t].pc \in {"reserve", "reserveSave", "invoke", "working"}
  PROVE  /\ run[t].owner \in Writers /\ lock = run[t].owner
         /\ writer[run[t].owner].pc = "open"
         /\ writer[run[t].owner].active >= 1
         /\ run[t].pc = "working" => physical[run[t].owner] >= 1
         /\ ~writer[run[t].owner].released
<1> DEFINE w == run[t].owner
<1>1. w \in Writers /\ Lifecycle(w) /\ Counted(w)
  BY DEF TypeOK, IInv
<1>2. physical[w] \in Nat /\ writer[w].active \in Nat
  BY <1>1 DEF TypeOK, WriterStates
<1>3. run = [run EXCEPT ![t] = run[t]]
  BY DEF TypeOK
<1> HIDE DEF w
<1>4. /\ Cardinality(SlotHolders(w)) \in Nat /\ Cardinality(Awaiting(w)) \in Nat
      /\ HasSlot(run[t], w) => Cardinality(SlotHolders(w)) >= 1
      /\ Awaits(run[t], w) => Cardinality(Awaiting(w)) >= 1
  <2>1. /\ IsFiniteSet(SlotHolders(w)) /\ IsFiniteSet(Awaiting(w))
    BY <1>1 DEF Counted
  <2>2. SlotHolders(w) = (SlotHolders(w) \ {t}) \cup (IF t \in SlotHolders(w) THEN {t} ELSE {})
    OBVIOUS
  <2>3. Awaiting(w) = (Awaiting(w) \ {t}) \cup (IF t \in Awaiting(w) THEN {t} ELSE {})
    OBVIOUS
  <2>4. (t \in SlotHolders(w)) \in BOOLEAN /\ (t \in Awaiting(w)) \in BOOLEAN
    OBVIOUS
  <2>5. /\ Cardinality(SlotHolders(w)) \in Nat
        /\ t \in SlotHolders(w) => Cardinality(SlotHolders(w)) >= 1
    BY <2>1, <2>2, <2>4, OneMoves
  <2>6. /\ Cardinality(Awaiting(w)) \in Nat
        /\ t \in Awaiting(w) => Cardinality(Awaiting(w)) >= 1
    BY <2>1, <2>3, <2>4, OneMoves
  <2> QED BY <2>5, <2>6 DEF SlotHolders, Awaiting
<1>5. HasSlot(run[t], w) \/ Awaits(run[t], w)
  BY DEF HasSlot, Awaits, w
<1>6. writer[w].active >= 1 /\ (Awaits(run[t], w) => physical[w] >= 1)
  BY <1>1, <1>2, <1>4, <1>5 DEF Counted
<1>7. writer[w].pc = "open" /\ ~writer[w].released
  BY <1>1, <1>6 DEF Lifecycle
<1>8. lock = w
  BY <1>1, <1>7 DEF Lifecycle
<1>9. run[t].pc = "working" => Awaits(run[t], w)
  BY DEF Awaits, w
<1> QED BY <1>1, <1>6, <1>7, <1>8, <1>9 DEF w

(* A step of one execution over its writer.                                *)

\* Memory changes in the entry of t alone, and that entry grows.
LedgerMoves(w, t) ==
  /\ mem' \in [Writers -> Ledgers]
  /\ \A v \in Writers \ {w} : mem'[v] = mem[v]
  /\ \A u \in Known \ {t} : mem'[w][u] = mem[w][u]
  /\ Grows(mem'[w][t], mem[w][t])

\* The writer changes in the number of its slots alone.
SlotsMove(w) ==
  /\ writer' \in [Writers -> WriterStates]
  /\ \A v \in Writers \ {w} : writer'[v] = writer[v]
  /\ writer'[w].pc = writer[w].pc /\ writer'[w].closed = writer[w].closed
  /\ writer'[w].closing = writer[w].closing /\ writer'[w].released = writer[w].released
  /\ writer[w].pc # "open" \/ writer[w].released => writer'[w].active = 0

\* The calls in flight of one writer change, and the calls made for one task.
CallsMove(w, t) ==
  /\ physical' \in [Writers -> Nat] /\ \A v \in Writers \ {w} : physical'[v] = physical[v]
  /\ dispatched' \in [Tasks -> Nat]
  /\ \A u \in Tasks \ {t} : dispatched'[u] = dispatched[u]

\* The file stays, or becomes what the memory of an open writer is.
FileMoves(w) == disk' = disk \/ (disk' = mem[w] /\ mem' = mem /\ writer[w].pc = "open")

\* The entry of any task in the memory of an open writer grows out of that on file.
LEMMA AheadOf ==
  ASSUME TypeOK, NEW w \in Writers, Ahead(w), writer[w].pc = "open", NEW u \in Known
  PROVE  Grows(mem[w][u], disk[u])
BY ExtendsGrows DEF Ahead

\* What is paid for stays so when only the file moves, and not below the execution.
LEMMA PaidKept ==
  ASSUME NEW r \in Executions, NEW e, NEW f \in Entries \cup {NoRun},
         NEW g \in Entries \cup {NoRun}, NEW d \in Nat,
         PaidFor(r, e, f, d), Grows(g, f), r.pc \in {"invoke", "working"} => g = e
  PROVE  PaidFor(r, e, g, d)
<1>1. d > 0 => g # NoRun /\ d <= Len(g.attempts)
  <2>1. SUFFICES ASSUME d > 0 PROVE g # NoRun /\ d <= Len(g.attempts)
    OBVIOUS
  <2>2. f # NoRun /\ d <= Len(f.attempts) /\ g # NoRun /\ Len(f.attempts) <= Len(g.attempts)
    BY <2>1 DEF PaidFor, Grows
  <2>3. Len(f.attempts) \in Nat /\ Len(g.attempts) \in Nat
    BY <2>2 DEF Entries
  <2> QED BY <2>2, <2>3
<1> QED BY <1>1 DEF PaidFor

\* The other executions and the other writers do not notice the step.
LEMMA TaskStep ==
  ASSUME TypeOK, IInv, NEW t \in Tasks, NEW w \in Writers,
         run[t].owner \in {w, NoWriter}, NEW x \in Executions, x.owner \in {w, NoWriter},
         x.pc # "idle" => x.owner = w,
         run' = [run EXCEPT ![t] = x],
         LedgerMoves(w, t), SlotsMove(w), CallsMove(w, t), FileMoves(w),
         UNCHANGED <<lock, priced>>, faults' \in Nat,
         Owned(t)', Paid(t)', Counted(w)'
  PROVE  TypeOK' /\ IInv'
<1>0. run'[t] = x /\ (\A u \in Tasks \ {t} : run'[u] = run[u]) /\ NoWriter \notin Writers
      /\ Tasks \subseteq Known
  BY BudgetAssumption DEF TypeOK, Known
<1>1. TypeOK'
  <2>1. run' \in [Tasks -> Executions]
    BY DEF TypeOK
  <2>2. \A u \in Tasks : run'[u].pc # "idle" => run'[u].owner \in Writers
    BY <1>0 DEF TypeOK
  <2>3. disk' \in Ledgers
    BY DEF FileMoves, TypeOK
  <2> QED BY <2>1, <2>2, <2>3 DEF TypeOK, LedgerMoves, SlotsMove, CallsMove
<1>2. \A v \in Writers : /\ writer'[v].pc = writer[v].pc
                         /\ writer'[v].released = writer[v].released
                         /\ writer'[v].closed = writer[v].closed
                         /\ writer'[v].closing = writer[v].closing
  BY DEF SlotsMove
<1>3. ASSUME NEW v \in Writers PROVE Lifecycle(v)'
  <2>1. Lifecycle(v) /\ lock' = lock
    BY DEF IInv
  <2>2. writer'[v].pc # "open" \/ writer'[v].released => writer'[v].active = 0
    <3>1. CASE v = w
      BY <3>1 DEF SlotsMove
    <3>2. CASE v # w
      BY <2>1, <3>2 DEF SlotsMove, Lifecycle
    <3> QED BY <3>1, <3>2
  <2> QED BY <1>2, <2>1, <2>2 DEF Lifecycle
<1>4. ASSUME NEW v \in Writers, v # w PROVE disk' = disk \/ writer[v].pc # "open"
  BY <1>4 DEF FileMoves, IInv, Lifecycle
<1>5. ASSUME NEW v \in Writers PROVE Ahead(v)'
  <2>1. CASE v # w
    <3>1. mem'[v] = mem[v] /\ Ahead(v)
      BY <2>1 DEF LedgerMoves, IInv
    <3>2. CASE writer[v].pc # "open"
      BY <1>2, <3>2 DEF Ahead
    <3>3. CASE disk' = disk
      BY <1>2, <3>1, <3>3 DEF Ahead
    <3> QED BY <1>4, <2>1, <3>2, <3>3
  <2>2. CASE v = w
    <3>1. SUFFICES ASSUME writer[w].pc = "open", NEW u \in Known
                   PROVE  Grows(mem'[w][u], disk'[u])
      BY <1>2, <2>2, ExtendsGrows DEF Ahead
    <3>2. /\ mem[w][u] \in Entries \cup {NoRun} /\ mem'[w][u] \in Entries \cup {NoRun}
          /\ disk[u] \in Entries \cup {NoRun}
      BY DEF TypeOK, Ledgers, LedgerMoves
    <3>3. Grows(mem'[w][u], mem[w][u])
      <4>1. CASE u = t
        BY <4>1 DEF LedgerMoves
      <4>2. CASE u # t
        <5>1. mem'[w][u] = mem[w][u]
          BY <4>2 DEF LedgerMoves
        <5> QED BY <3>2, <5>1, GrowsReflexive
      <4> QED BY <4>1, <4>2
    <3>4. Grows(mem[w][u], disk[u])
      BY <3>1, AheadOf DEF IInv
    <3>5. CASE disk' = disk
      BY <3>2, <3>3, <3>4, <3>5, GrowsTransitive
    <3>6. CASE disk' = mem[w] /\ mem' = mem
      BY <3>2, <3>6, GrowsReflexive
    <3> QED BY <3>5, <3>6 DEF FileMoves
  <2> QED BY <2>1, <2>2
<1>6. ASSUME NEW v \in Writers PROVE Counted(v)'
  <2>1. CASE v # w
    <3>1. SlotHolders(v)' = SlotHolders(v) /\ Awaiting(v)' = Awaiting(v)
      <4>1. \A u \in Tasks : /\ HasSlot(run'[u], v) <=> HasSlot(run[u], v)
                             /\ Awaits(run'[u], v) <=> Awaits(run[u], v)
        BY <1>0, <2>1 DEF HasSlot, Awaits
      <4> QED BY <4>1 DEF SlotHolders, Awaiting, HasSlot, Awaits
    <3>2. writer'[v] = writer[v] /\ physical'[v] = physical[v] /\ Counted(v)
      BY <2>1 DEF SlotsMove, CallsMove, IInv
    <3> QED BY <3>1, <3>2 DEF Counted
  <2> QED BY <2>1
<1>7. ASSUME NEW u \in Tasks PROVE Owned(u)' /\ Paid(u)'
  <2>1. CASE u = t
    BY <2>1
  <2>2. CASE u # t
    <3>1. run'[u] = run[u] /\ dispatched'[u] = dispatched[u] /\ Owned(u) /\ Paid(u)
          /\ run[u] \in Executions /\ dispatched[u] \in Nat /\ u \in Known
      BY <1>0, <2>2 DEF CallsMove, IInv, TypeOK
    <3>2. Owned(u)'
      <4>1. run[u].pc # "idle" => /\ run[u].owner \in Writers
                                  /\ writer'[run[u].owner].pc = writer[run[u].owner].pc
                                  /\ writer'[run[u].owner].released =
                                       writer[run[u].owner].released
        BY <1>2, <3>1 DEF Owned
      <4>2. run[u].pc \in Saving => run[u].pc # "idle"
        BY DEF Saving
      <4> QED BY <3>1, <4>1, <4>2 DEF Owned
    <3>3. CASE run[u].pc = "idle"
      <4>1. /\ disk[u] \in Entries \cup {NoRun} /\ disk'[u] \in Entries \cup {NoRun}
            /\ Grows(disk'[u], disk[u])
        <5>1. /\ disk[u] \in Entries \cup {NoRun} /\ mem[w][u] \in Entries \cup {NoRun}
          BY <3>1 DEF TypeOK, Ledgers
        <5>2. CASE disk' = disk
          BY <5>1, <5>2, GrowsReflexive
        <5>3. CASE disk' = mem[w] /\ writer[w].pc = "open"
          BY <3>1, <5>1, <5>3, AheadOf DEF IInv
        <5> QED BY <5>2, <5>3 DEF FileMoves
      <4>2. PaidFor(run[u], mem'[run[u].owner][u], disk[u], dispatched[u])
        BY <3>1, <3>3 DEF Paid, PaidFor
      <4>3. PaidFor(run[u], mem'[run[u].owner][u], disk'[u], dispatched[u])
        BY <3>1, <3>3, <4>1, <4>2, PaidKept
      <4> QED BY <3>1, <3>2, <4>3 DEF Paid
    <3>4. CASE run[u].pc # "idle"
      <4> DEFINE v == run[u].owner
      <4>0. v \in Writers /\ mem'[v][u] = mem[v][u]
        BY <2>2, <3>1, <3>4 DEF TypeOK, LedgerMoves
      <4>1. /\ disk[u] \in Entries \cup {NoRun} /\ mem[w][u] \in Entries \cup {NoRun}
        BY <3>1 DEF TypeOK, Ledgers
      <4>2. CASE disk' = disk
        BY <3>1, <3>2, <4>0, <4>2 DEF Paid
      <4>3. CASE disk' = mem[w] /\ writer[w].pc = "open"
        <5>1. Grows(mem[w][u], disk[u])
          BY <3>1, <4>3, AheadOf DEF IInv
        <5>2. run[u].pc \in {"invoke", "working"} => v = w
          <6>1. lock = w
            BY <4>3 DEF IInv, Lifecycle
          <6> QED BY <6>1, SlotHoldsLock
        <5>3. PaidFor(run[u], mem[v][u], mem[w][u], dispatched[u])
          <6>1. PaidFor(run[u], mem[v][u], disk[u], dispatched[u])
            BY <3>1 DEF Paid
          <6> HIDE DEF v
          <6> QED BY <3>1, <4>1, <5>1, <5>2, <6>1, PaidKept
        <5> QED BY <3>1, <3>2, <4>0, <4>3, <5>3 DEF Paid
      <4> QED BY <4>2, <4>3 DEF FileMoves
    <3> QED BY <3>3, <3>4
  <2> QED BY <2>1, <2>2
<1> QED BY <1>1, <1>3, <1>5, <1>6, <1>7 DEF IInv

\* What a step leaves alone.
LEMMA Unmoved ==
  ASSUME TypeOK, IInv, NEW w \in Writers, NEW t \in Tasks
  PROVE  /\ mem' = mem => LedgerMoves(w, t)
         /\ writer' = writer => SlotsMove(w)
         /\ UNCHANGED <<physical, dispatched>> => CallsMove(w, t)
         /\ disk' = disk => FileMoves(w)
<1>1. t \in Known /\ mem[w][t] \in Entries \cup {NoRun}
  BY DEF Known, TypeOK, Ledgers
<1>2. mem' = mem => LedgerMoves(w, t)
  BY <1>1, GrowsReflexive DEF LedgerMoves, TypeOK
<1>3. writer' = writer => SlotsMove(w)
  BY DEF SlotsMove, IInv, Lifecycle, TypeOK
<1> QED BY <1>2, <1>3 DEF CallsMove, FileMoves, TypeOK

\* An entry that grows in the memory of its writer.
LEMMA EntryMoves ==
  ASSUME TypeOK, NEW w \in Writers, NEW t \in Tasks, NEW e \in Entries,
         mem' = [mem EXCEPT ![w] = [mem[w] EXCEPT ![t] = e]], Grows(e, mem[w][t])
  PROVE  LedgerMoves(w, t) /\ mem'[w][t] = e
<1>1. t \in Known /\ mem[w] \in Ledgers
  BY DEF Known, TypeOK
<1>2. [mem[w] EXCEPT ![t] = e] \in Ledgers
  BY <1>1 DEF Ledgers
<1>3. mem'[w] = [mem[w] EXCEPT ![t] = e] /\ \A v \in Writers \ {w} : mem'[v] = mem[v]
  BY DEF TypeOK
<1>4. mem' \in [Writers -> Ledgers]
  BY <1>2 DEF TypeOK
<1>5. mem'[w][t] = e /\ \A u \in Known \ {t} : mem'[w][u] = mem[w][u]
  BY <1>1, <1>3 DEF Ledgers
<1> QED BY <1>3, <1>4, <1>5 DEF LedgerMoves

\* A slot is given back by a dispatch that holds one.
LEMMA SlotFreed ==
  ASSUME TypeOK, IInv, NEW w \in Writers, writer' = Freed(w),
         writer[w].active >= 1
  PROVE  SlotsMove(w) /\ writer'[w].active = writer[w].active - 1
<1> DEFINE a == writer[w].active - 1
           y == [writer[w] EXCEPT !.active = a]
<1>1. writer[w] \in WriterStates /\ writer[w].active \in Nat /\ Lifecycle(w)
  BY DEF TypeOK, WriterStates, IInv
<1>2. a \in Nat
  BY <1>1
<1>3. writer' = [writer EXCEPT ![w] = y]
  BY <1>1 DEF Freed, TypeOK, WriterStates
<1> HIDE DEF a
<1>4. /\ y \in WriterStates /\ y.pc = writer[w].pc /\ y.closed = writer[w].closed
      /\ y.closing = writer[w].closing /\ y.released = writer[w].released /\ y.active = a
  BY <1>1, <1>2 DEF WriterStates
<1> HIDE DEF y
<1>5. /\ writer' \in [Writers -> WriterStates] /\ writer'[w] = y
      /\ \A v \in Writers \ {w} : writer'[v] = writer[v]
  BY <1>3, <1>4 DEF TypeOK
<1>6. ~(writer[w].pc # "open" \/ writer[w].released)
  BY <1>1 DEF Lifecycle
<1> QED BY <1>4, <1>5, <1>6 DEF SlotsMove, a

\* The count of a writer holds over a step that moves nothing it counts, or ends the wait
\* for a call ...
LEMMA CountKept ==
  ASSUME TypeOK, NEW t \in Tasks, NEW w \in Writers, NEW x, Counted(w),
         run' = [run EXCEPT ![t] = x],
         HasSlot(x, w) <=> HasSlot(run[t], w), Awaits(x, w) => Awaits(run[t], w),
         writer'[w].active = writer[w].active, physical'[w] = physical[w]
  PROVE  Counted(w)'
<1> DEFINE n == Cardinality(SlotHolders(w))
           m == Cardinality(Awaiting(w))
<1>1. /\ IsFiniteSet(SlotHolders(w)') /\ IsFiniteSet(Awaiting(w)')
      /\ n \in Nat /\ m \in Nat
      /\ Cardinality(SlotHolders(w)') = n - (IF HasSlot(run[t], w) THEN 1 ELSE 0)
                                          + (IF HasSlot(x, w) THEN 1 ELSE 0)
      /\ Cardinality(Awaiting(w)') = m - (IF Awaits(run[t], w) THEN 1 ELSE 0)
                                       + (IF Awaits(x, w) THEN 1 ELSE 0)
  BY CountMoves
<1>2. physical[w] \in Nat
  BY DEF TypeOK
<1>3. Cardinality(SlotHolders(w)') = n /\ Cardinality(Awaiting(w)') <= m
  BY <1>1
<1>4. Counted(w)
  OBVIOUS
<1>5. /\ writer[w].active = physical[w] + n /\ m <= physical[w]
      /\ writer[w].active <= Concurrency
  BY <1>4 DEF Counted
<1>6. Cardinality(Awaiting(w)') \in Nat
  BY <1>1, FS_CardinalityType
<1> HIDE DEF n, m
<1>7. Cardinality(Awaiting(w)') <= physical[w]
  BY <1>1, <1>2, <1>3, <1>5, <1>6
<1> QED BY <1>1, <1>3, <1>5, <1>7 DEF Counted

\* ... and over one that gives a slot back before the call is made.
LEMMA CountFreed ==
  ASSUME TypeOK, NEW t \in Tasks, NEW w \in Writers, NEW x, Counted(w),
         run' = [run EXCEPT ![t] = x],
         HasSlot(run[t], w), ~HasSlot(x, w), ~Awaits(x, w),
         writer'[w].active = writer[w].active - 1, physical'[w] = physical[w]
  PROVE  Counted(w)'
<1> DEFINE n == Cardinality(SlotHolders(w))
           m == Cardinality(Awaiting(w))
<1>1. /\ IsFiniteSet(SlotHolders(w)') /\ IsFiniteSet(Awaiting(w)')
      /\ n \in Nat /\ m \in Nat
      /\ Cardinality(SlotHolders(w)') = n - 1
      /\ Cardinality(Awaiting(w)') = m
  <2>1. ~Awaits(run[t], w)
    BY DEF HasSlot, Awaits
  <2>2. /\ IsFiniteSet(SlotHolders(w)') /\ IsFiniteSet(Awaiting(w)')
        /\ n \in Nat /\ m \in Nat
        /\ Cardinality(SlotHolders(w)') = n - (IF HasSlot(run[t], w) THEN 1 ELSE 0)
                                            + (IF HasSlot(x, w) THEN 1 ELSE 0)
        /\ Cardinality(Awaiting(w)') = m - (IF Awaits(run[t], w) THEN 1 ELSE 0)
                                         + (IF Awaits(x, w) THEN 1 ELSE 0)
    BY CountMoves
  <2> HIDE DEF n, m
  <2> QED BY <2>1, <2>2
<1>2. physical[w] \in Nat /\ writer[w].active \in Nat
  BY DEF TypeOK, WriterStates
<1>3. Counted(w)
  OBVIOUS
<1>4. /\ writer[w].active = physical[w] + n /\ m <= physical[w]
      /\ writer[w].active <= Concurrency
  BY <1>3 DEF Counted
<1> HIDE DEF n, m
<1>5. Concurrency \in Nat
  BY BudgetAssumption
<1>6. /\ writer'[w].active = physical'[w] + (n - 1) /\ writer'[w].active <= Concurrency
  BY <1>1, <1>2, <1>4, <1>5
<1> QED BY <1>1, <1>4, <1>6 DEF Counted

\* A step that changes the execution of t alone.
LEMMA QuietStep ==
  ASSUME TypeOK, IInv, NEW t \in Tasks, NEW w \in Writers,
         run[t].owner \in {w, NoWriter}, NEW x \in Executions, x.owner \in {w, NoWriter},
         run' = [run EXCEPT ![t] = x],
         x.pc # "idle" => x.owner = w /\ writer[w].pc \in {"open", "closed"},
         x.pc = "idle" => x.owner = NoWriter,
         x.pc \in Saving => ~writer[w].released,
         x.pc \in {"begin", "beginSave"} => x.works = 0,
         HasSlot(x, w) <=> HasSlot(run[t], w), Awaits(x, w) => Awaits(run[t], w),
         PaidFor(x, mem[w][t], disk[t], dispatched[t]),
         UNCHANGED <<disk, lock, mem, writer, priced, physical, dispatched, faults>>
  PROVE  TypeOK' /\ IInv'
<1>1. LedgerMoves(w, t) /\ SlotsMove(w) /\ CallsMove(w, t) /\ FileMoves(w)
  BY Unmoved
<1>2. run'[t] = x
  BY DEF TypeOK
<1>3. Owned(t)'
  BY <1>2 DEF Owned, Saving
<1>4. Paid(t)'
  <2>1. x.pc = "idle" => PaidFor(x, mem[x.owner][t], disk[t], dispatched[t])
    BY DEF PaidFor
  <2> QED BY <1>2, <2>1 DEF Paid
<1>5. Counted(w)'
  BY CountKept DEF IInv
<1>6. faults' \in Nat
  BY DEF TypeOK
<1> QED BY <1>1, <1>3, <1>4, <1>5, <1>6, TaskStep

(* The steps of an execution.                                              *)

\* What is known of an execution that is under way.
LEMMA UnderWay ==
  ASSUME TypeOK, IInv, NEW t \in Tasks, run[t].pc # "idle"
  PROVE  /\ run[t] \in Executions /\ run[t].owner \in Writers
         /\ writer[run[t].owner].pc \in {"open", "closed"}
         /\ PaidFor(run[t], mem[run[t].owner][t], disk[t], dispatched[t])
         /\ Lifecycle(run[t].owner) /\ Ahead(run[t].owner) /\ Counted(run[t].owner)
         /\ t \in Known /\ mem[run[t].owner] \in Ledgers
         /\ disk[t] \in Entries \cup {NoRun} /\ mem[run[t].owner][t] \in Entries \cup {NoRun}
         /\ dispatched[t] \in Nat
<1>1. run[t].owner \in Writers /\ run[t] \in Executions /\ t \in Known
  BY DEF TypeOK, Known
<1>2. mem[run[t].owner] \in Ledgers
  BY <1>1 DEF TypeOK
<1> QED BY <1>1, <1>2 DEF TypeOK, IInv, Owned, Paid, Ledgers

\* A dispatch that returned or threw leaves nothing unpaid.
LEMMA DispatchOver ==
  ASSUME NEW r, NEW x, NEW e, NEW f, NEW d, PaidFor(r, e, f, d),
         r.pc \notin {"idle", "begin"}, x.pc \in {"acquire", "finish", "idle"}
  PROVE  PaidFor(x, e, f, d)
BY DEF PaidFor

\* Execute.
LEMMA ExecuteStep ==
  ASSUME TypeOK, IInv, NEW t \in Tasks, NEW w \in Writers, Execute(t, w)
  PROVE  TypeOK' /\ IInv'
<1> DEFINE x == [IdleExecution EXCEPT !.pc = "begin", !.owner = w]
<1>1. x \in Executions /\ x.pc = "begin" /\ x.owner = w /\ x.works = 0
  BY IdleType DEF IdleExecution, Executions
<1>2. /\ run[t].pc = "idle" /\ writer[w].pc \in {"open", "closed"}
      /\ run' = [run EXCEPT ![t] = x]
      /\ UNCHANGED <<disk, lock, mem, writer, priced, physical, dispatched, faults>>
  BY DEF Execute
<1> HIDE DEF x
<1>3. Owned(t) /\ Paid(t)
  BY DEF IInv
<1>4. run[t].owner = NoWriter
  BY <1>2, <1>3 DEF Owned
<1>5. PaidFor(x, mem[w][t], disk[t], dispatched[t])
  BY <1>1, <1>3 DEF Paid, PaidFor
<1>6. /\ ~HasSlot(x, w) /\ ~HasSlot(run[t], w) /\ ~Awaits(x, w)
      /\ x.pc \notin Saving
  BY <1>1, <1>2 DEF HasSlot, Awaits, Saving
<1> QED BY <1>1, <1>2, <1>4, <1>5, <1>6, QuietStep

\* Begin: the task enters the ledger, or the execution is over.
LEMMA BeginStep ==
  ASSUME TypeOK, IInv, NEW t \in Tasks, NEW w \in Writers, run[t].owner = w, Begin(t)
  PROVE  TypeOK' /\ IInv'
<1> DEFINE x == [run[t] EXCEPT !.pc = "beginSave"]
<1>1. run[t].pc = "begin" /\ run[t].works = 0 /\ ~HasSlot(run[t], w)
  BY DEF Begin, IInv, Owned, HasSlot
<1>2. /\ run[t] \in Executions /\ w \in Writers
      /\ writer[w].pc \in {"open", "closed"}
      /\ PaidFor(run[t], mem[w][t], disk[t], dispatched[t])
      /\ Lifecycle(w) /\ Ahead(w) /\ Counted(w) /\ t \in Known /\ mem[w] \in Ledgers
      /\ dispatched[t] \in Nat
  BY <1>1, UnderWay
<1>3. UNCHANGED <<disk, lock, writer, priced, physical, dispatched, faults>>
  BY DEF Begin
<1>4. CASE MayBegin(t, w)
  <2>1. mem' = [mem EXCEPT ![w][t] = [closed |-> FALSE, attempts |-> <<>>]]
        /\ run' = [run EXCEPT ![t].pc = "beginSave"]
    BY <1>4 DEF Begin
  <2>2. mem' = [mem EXCEPT ![w] = [mem[w] EXCEPT ![t] = Opened]] /\ run' = [run EXCEPT ![t] = x]
    BY <2>1, <1>2 DEF Opened, TypeOK
  <2>3. mem[w][t] = NoRun /\ ~writer[w].closed
    BY <1>4 DEF MayBegin
  <2>4. /\ x \in Executions /\ x.pc = "beginSave" /\ x.owner = w /\ x.works = 0
    BY <1>1, <1>2 DEF Executions, Saving
  <2> HIDE DEF x
  <2>5. LedgerMoves(w, t) /\ mem'[w][t] = Opened
    BY <1>2, <2>2, <2>3, OpenedEntry, EntryMoves
  <2>6. SlotsMove(w) /\ CallsMove(w, t) /\ FileMoves(w) /\ faults' \in Nat
    BY <1>2, <1>3, Unmoved DEF TypeOK
  <2>7. run'[t] = x /\ writer'[w] = writer[w]
    BY <1>3, <2>2 DEF TypeOK
  <2>8. Owned(t)'
    BY <1>2, <2>3, <2>4, <2>7 DEF Owned, Lifecycle
  <2>9. Paid(t)'
    BY <1>2, <1>3, <2>4, <2>5, <2>7, OpenedEntry DEF Paid, PaidFor
  <2>10. Counted(w)'
    <3>1. ~HasSlot(x, w) /\ ~Awaits(x, w)
      BY <2>4 DEF HasSlot, Awaits
    <3>2. writer'[w].active = writer[w].active /\ physical'[w] = physical[w]
      BY <1>3
    <3> QED BY <1>1, <1>2, <2>2, <3>1, <3>2, CountKept
  <2> QED BY <1>2, <1>3, <2>2, <2>4, <2>5, <2>6, <2>8, <2>9, <2>10, TaskStep
<1>5. CASE ~MayBegin(t, w)
  <2>1. run' = [run EXCEPT ![t] = IdleExecution] /\ UNCHANGED mem
    BY <1>5 DEF Begin
  <2>2. /\ IdleExecution \in Executions /\ IdleExecution.pc = "idle"
        /\ IdleExecution.owner = NoWriter
    BY IdleType DEF IdleExecution
  <2>3. PaidFor(IdleExecution, mem[w][t], disk[t], dispatched[t])
    BY <1>2, <2>2 DEF PaidFor
  <2>4. /\ ~HasSlot(IdleExecution, w) /\ ~Awaits(IdleExecution, w)
        /\ IdleExecution.pc \notin Saving
    BY <2>2 DEF HasSlot, Awaits, Saving
  <2> QED BY <1>1, <1>2, <1>3, <2>1, <2>2, <2>3, <2>4, QuietStep
<1> QED BY <1>4, <1>5

\* Acquire: one more slot of an open writer.
LEMMA AcquireStep ==
  ASSUME TypeOK, IInv, NEW t \in Tasks, NEW w \in Writers, run[t].owner = w, Acquire(t)
  PROVE  TypeOK' /\ IInv'
<1> DEFINE x == [run[t] EXCEPT !.pc = "reserve"]
           y == [writer[w] EXCEPT !.active = writer[w].active + 1]
           n == Cardinality(SlotHolders(w))
           m == Cardinality(Awaiting(w))
<1>1. /\ run[t].pc = "acquire" /\ writer[w].active < Concurrency /\ ~writer[w].closed
      /\ writer' = [writer EXCEPT ![w].active = @ + 1]
      /\ run' = [run EXCEPT ![t].pc = "reserve"]
      /\ UNCHANGED <<disk, lock, mem, priced, physical, dispatched, faults>>
  BY DEF Acquire
<1>2. /\ run[t] \in Executions /\ w \in Writers
      /\ writer[w].pc \in {"open", "closed"}
      /\ PaidFor(run[t], mem[w][t], disk[t], dispatched[t])
      /\ Lifecycle(w) /\ Counted(w)
  BY <1>1, UnderWay
<1>3. /\ writer[w] \in WriterStates /\ writer[w].active \in Nat /\ physical[w] \in Nat
      /\ Concurrency \in Nat
  BY <1>2, BudgetAssumption DEF TypeOK, WriterStates
<1>4. writer[w].pc = "open" /\ ~writer[w].released
  BY <1>1, <1>2 DEF Lifecycle
<1>5. /\ run' = [run EXCEPT ![t] = x]
      /\ writer' = [writer EXCEPT ![w] = y]
  BY <1>1, <1>2 DEF TypeOK
<1>6. x \in Executions /\ x.pc = "reserve" /\ x.owner = w
  BY <1>2 DEF Executions, Dispatching
<1>7. /\ y \in WriterStates /\ y.pc = "open" /\ y.closed = writer[w].closed
      /\ y.closing = writer[w].closing /\ y.released = writer[w].released
      /\ y.active = writer[w].active + 1
  BY <1>3, <1>4 DEF WriterStates
<1>8. run'[t] = x /\ writer'[w] = y /\ (\A v \in Writers \ {w} : writer'[v] = writer[v])
      /\ writer' \in [Writers -> WriterStates]
  BY <1>2, <1>5, <1>7 DEF TypeOK
<1>9. run[t].owner \in {w, NoWriter} /\ ~Awaits(run[t], w) /\ ~HasSlot(run[t], w)
  BY <1>1 DEF HasSlot, Awaits
<1> HIDE DEF x, y
<1>10. SlotsMove(w)
  BY <1>4, <1>7, <1>8 DEF SlotsMove
<1>11. LedgerMoves(w, t) /\ CallsMove(w, t) /\ FileMoves(w) /\ faults' \in Nat
  BY <1>1, <1>2, Unmoved DEF TypeOK
<1>12. Owned(t)'
  BY <1>2, <1>6, <1>7, <1>8, <1>4 DEF Owned, Saving
<1>13. Paid(t)'
  BY <1>1, <1>2, <1>6, <1>8 DEF Paid, PaidFor
<1>14. HasSlot(x, w) /\ ~Awaits(x, w)
  BY <1>6 DEF HasSlot, Awaits
<1>15. /\ IsFiniteSet(SlotHolders(w)') /\ IsFiniteSet(Awaiting(w)')
       /\ n \in Nat /\ m \in Nat
       /\ Cardinality(SlotHolders(w)') = n + 1 /\ Cardinality(Awaiting(w)') = m
  <2>1. /\ IsFiniteSet(SlotHolders(w)') /\ IsFiniteSet(Awaiting(w)')
        /\ n \in Nat /\ m \in Nat
        /\ Cardinality(SlotHolders(w)') = n - (IF HasSlot(run[t], w) THEN 1 ELSE 0)
                                            + (IF HasSlot(x, w) THEN 1 ELSE 0)
        /\ Cardinality(Awaiting(w)') = m - (IF Awaits(run[t], w) THEN 1 ELSE 0)
                                         + (IF Awaits(x, w) THEN 1 ELSE 0)
    BY <1>2, <1>5, CountMoves
  <2> HIDE DEF n, m
  <2> QED BY <1>9, <1>14, <2>1
<1>16. /\ writer[w].active = physical[w] + n /\ m <= physical[w]
  BY <1>2 DEF Counted
<1> HIDE DEF n, m
<1>17. Counted(w)'
  <2>1. writer'[w].active = physical'[w] + (n + 1) /\ writer'[w].active <= Concurrency
    BY <1>1, <1>3, <1>7, <1>8, <1>15, <1>16
  <2> QED BY <1>1, <1>15, <1>16, <2>1 DEF Counted
<1> QED
  BY <1>1, <1>2, <1>5, <1>6, <1>9, <1>10, <1>11, <1>12, <1>13, <1>17, TaskStep

\* A dispatch that is refused a slot returns.
LEMMA AcquireRefusedStep ==
  ASSUME TypeOK, IInv, NEW t \in Tasks, NEW w \in Writers, run[t].owner = w,
         AcquireRefused(t)
  PROVE  TypeOK' /\ IInv'
<1>1. /\ run[t].pc = "acquire"
      /\ UNCHANGED <<disk, lock, mem, writer, priced, physical, dispatched, faults>>
  BY DEF AcquireRefused
<1>2. PICK x \in Returned(run[t], FALSE) : run' = [run EXCEPT ![t] = x]
  BY DEF AcquireRefused
<1>3. /\ run[t] \in Executions /\ writer[w].pc \in {"open", "closed"}
      /\ PaidFor(run[t], mem[w][t], disk[t], dispatched[t])
  BY <1>1, UnderWay
<1>4. x \in Executions /\ x.owner = w /\ x.pc \in {"acquire", "finish"}
  BY <1>3, ReturnedType
<1>5. PaidFor(x, mem[w][t], disk[t], dispatched[t])
  BY <1>1, <1>3, <1>4, DispatchOver
<1>6. ~HasSlot(x, w) /\ ~HasSlot(run[t], w) /\ ~Awaits(x, w) /\ x.pc \notin Saving
  BY <1>1, <1>4 DEF HasSlot, Awaits, Saving
<1> QED BY <1>1, <1>2, <1>3, <1>4, <1>5, <1>6, QuietStep

\* A step that gives the slot back: the dispatch goes on to x without a call.
LEMMA FreeStep ==
  ASSUME TypeOK, IInv, NEW t \in Tasks, NEW w \in Writers, run[t].owner = w,
         HasSlot(run[t], w), NEW x \in Executions, x.owner = w,
         x.pc \in {"acquire", "finish", "settle"},
         run' = [run EXCEPT ![t] = x], writer' = Freed(w), FileMoves(w),
         PaidFor(x, mem[w][t], disk'[t], dispatched[t]),
         UNCHANGED <<lock, mem, priced, physical, dispatched>>, faults' \in Nat
  PROVE  TypeOK' /\ IInv'
<1>1. run[t].pc \in {"reserve", "reserveSave", "invoke"}
  BY DEF HasSlot
<1>2. writer[w].active >= 1 /\ writer[w].pc = "open"
  BY <1>1, SlotHoldsLock
<1>3. SlotsMove(w) /\ writer'[w].active = writer[w].active - 1
  BY <1>2, SlotFreed
<1>4. LedgerMoves(w, t) /\ CallsMove(w, t)
  BY Unmoved
<1>5. run'[t] = x
  BY DEF TypeOK
<1>6. Owned(t)'
  BY <1>2, <1>3, <1>5 DEF Owned, Saving, SlotsMove
<1>7. Paid(t)'
  BY <1>5 DEF Paid
<1>8. ~HasSlot(x, w) /\ ~Awaits(x, w)
  BY DEF HasSlot, Awaits
<1>9. Counted(w)'
  BY <1>3, <1>8, CountFreed DEF IInv
<1> QED BY <1>3, <1>4, <1>6, <1>7, <1>9, TaskStep

\* Reserve: the attempt enters the ledger and is saved, or the slot is given back.
LEMMA ReserveStep ==
  ASSUME TypeOK, IInv, NEW t \in Tasks, NEW w \in Writers, run[t].owner = w, Reserve(t)
  PROVE  TypeOK' /\ IInv'
<1> DEFINE e == mem[w][t]
           x == [run[t] EXCEPT !.pc = "reserveSave"]
<1>1. /\ run[t].pc = "reserve"
      /\ UNCHANGED <<disk, lock, priced, physical, dispatched, faults>>
  BY DEF Reserve, Charge
<1>2. /\ run[t] \in Executions
      /\ PaidFor(run[t], e, disk[t], dispatched[t])
      /\ Lifecycle(w) /\ Ahead(w) /\ Counted(w) /\ t \in Known /\ mem[w] \in Ledgers
      /\ disk[t] \in Entries \cup {NoRun} /\ e \in Entries \cup {NoRun}
      /\ dispatched[t] \in Nat
  BY <1>1, UnderWay
<1>3. writer[w].pc = "open" /\ ~writer[w].released
  BY <1>1, SlotHoldsLock
<1>4. e \in Entries /\ e # NoRun
  BY <1>1, <1>2 DEF PaidFor
<1>5. FileMoves(w) /\ CallsMove(w, t) /\ faults' \in Nat
  BY <1>1, Unmoved DEF TypeOK
<1>6. HasSlot(run[t], w)
  BY <1>1 DEF HasSlot
<1>7. CASE MayReserve(t, w)
  <2> DEFINE c == Charged(e, run[t].next)
  <2>1. mem' = [mem EXCEPT ![w] = [mem[w] EXCEPT ![t] = c]]
        /\ run' = [run EXCEPT ![t] = x] /\ writer' = writer
    <3>1. /\ mem' = [mem EXCEPT ![w][t].attempts =
                       Append(@, [purpose |-> run[t].next, outcome |-> "reserved"])]
          /\ run' = [run EXCEPT ![t].pc = "reserveSave"] /\ writer' = writer
      BY <1>7 DEF Reserve, Charge
    <3> QED BY <1>2, <3>1 DEF Charged, TypeOK
  <2>2. /\ c \in Entries /\ c # NoRun /\ Grows(c, e) /\ c.attempts # <<>>
        /\ Len(c.attempts) = Len(e.attempts) + 1
        /\ c.attempts[Len(c.attempts)] = [purpose |-> run[t].next, outcome |-> "reserved"]
    <3>1. run[t].next \in Purposes
      BY <1>2 DEF Executions
    <3> QED BY <1>4, <3>1, ChargedEntry
  <2>3. x \in Executions /\ x.pc = "reserveSave" /\ x.owner = w /\ x.next = run[t].next
    BY <1>2 DEF Executions, Saving
  <2> HIDE DEF c, x
  <2>4. LedgerMoves(w, t) /\ mem'[w][t] = c
    BY <2>1, <2>2, EntryMoves
  <2>5. SlotsMove(w) /\ run'[t] = x /\ writer'[w] = writer[w]
    BY <2>1, Unmoved DEF TypeOK
  <2>6. Owned(t)'
    BY <1>3, <2>3, <2>5 DEF Owned
  <2>7. dispatched[t] < Len(c.attempts)
    <3>1. Grows(e, disk[t])
      BY <1>2, <1>3, AheadOf
    <3>2. Len(e.attempts) \in Nat
      BY <1>4 DEF Entries
    <3>3. dispatched[t] > 0 =>
            /\ disk[t] # NoRun /\ dispatched[t] <= Len(disk[t].attempts)
            /\ Len(disk[t].attempts) <= Len(e.attempts)
      BY <1>2, <3>1 DEF PaidFor, Grows
    <3>4. disk[t] # NoRun => Len(disk[t].attempts) \in Nat
      BY <1>2 DEF Entries
    <3> HIDE DEF e
    <3> QED BY <1>2, <2>2, <3>2, <3>3, <3>4
  <2>8. PaidFor(x, c, disk[t], dispatched[t])
    BY <1>2, <2>2, <2>3, <2>7 DEF PaidFor
  <2>9. Paid(t)'
    BY <1>1, <2>3, <2>4, <2>5, <2>8 DEF Paid
  <2>10. Counted(w)'
    <3>1. HasSlot(x, w) /\ ~Awaits(x, w)
      BY <2>3 DEF HasSlot, Awaits
    <3>2. writer'[w].active = writer[w].active /\ physical'[w] = physical[w]
      BY <1>1, <2>1
    <3> QED BY <1>2, <1>6, <2>1, <3>1, <3>2, CountKept
  <2> QED BY <1>1, <1>5, <2>1, <2>3, <2>4, <2>5, <2>6, <2>9, <2>10, TaskStep
<1>8. CASE ~MayReserve(t, w)
  <2>1. writer' = Freed(w) /\ mem' = mem
    BY <1>8 DEF Reserve, Charge
  <2>2. PICK y \in Returned(run[t], FALSE) : run' = [run EXCEPT ![t] = y]
    BY <1>8 DEF Reserve, Charge
  <2>3. y \in Executions /\ y.owner = w /\ y.pc \in {"acquire", "finish"}
    BY <1>2, <2>2, ReturnedType
  <2>4. PaidFor(y, mem[w][t], disk'[t], dispatched[t])
    BY <1>1, <1>2, <2>3, DispatchOver
  <2> QED BY <1>1, <1>5, <1>6, <2>1, <2>2, <2>3, <2>4, FreeStep
<1> QED BY <1>7, <1>8

\* Invoke: the slot goes to the provider call, whose reservation is on file.
LEMMA InvokeStep ==
  ASSUME TypeOK, IInv, NEW t \in Tasks, NEW w \in Writers, run[t].owner = w, Invoke(t)
  PROVE  TypeOK' /\ IInv'
<1> DEFINE e == mem[w][t]
           n == Cardinality(SlotHolders(w))
           m == Cardinality(Awaiting(w))
<1>1. /\ run[t].pc = "invoke"
      /\ UNCHANGED <<disk, lock, mem, priced, faults>>
  BY DEF Invoke
<1>2. /\ run[t] \in Executions
      /\ PaidFor(run[t], e, disk[t], dispatched[t])
      /\ Lifecycle(w) /\ Counted(w)
      /\ e \in Entries \cup {NoRun} /\ dispatched[t] \in Nat
  BY <1>1, UnderWay
<1>3. writer[w].pc = "open" /\ ~writer[w].released
  BY <1>1, SlotHoldsLock
<1>4. LedgerMoves(w, t) /\ FileMoves(w) /\ faults' \in Nat
  BY <1>1, Unmoved DEF TypeOK
<1>5. HasSlot(run[t], w) /\ ~Awaits(run[t], w)
  BY <1>1 DEF HasSlot, Awaits
<1>6. CASE run[t].stopped
  <2> DEFINE x == [run[t] EXCEPT !.pc = "settle", !.outcome = "failed"]
  <2>1. run' = [run EXCEPT ![t] = x] /\ writer' = Freed(w)
        /\ UNCHANGED <<physical, dispatched>>
    BY <1>2, <1>6 DEF Invoke, TypeOK
  <2>2. x \in Executions /\ x.owner = w /\ x.pc = "settle"
    BY <1>2 DEF Executions
  <2> HIDE DEF x
  <2>3. PaidFor(x, mem[w][t], disk'[t], dispatched[t])
    BY <1>1, <1>2, <2>2 DEF PaidFor
  <2> QED BY <1>1, <1>4, <1>5, <2>1, <2>2, <2>3, FreeStep
<1>7. CASE ~run[t].stopped
  <2> DEFINE x == [run[t] EXCEPT !.pc = "working"]
  <2>1. /\ run' = [run EXCEPT ![t] = x] /\ writer' = writer
        /\ physical' = [physical EXCEPT ![w] = @ + 1]
        /\ dispatched' = [dispatched EXCEPT ![t] = @ + 1]
    BY <1>2, <1>7 DEF Invoke, TypeOK
  <2>2. x \in Executions /\ x.owner = w /\ x.pc = "working" /\ x.next = run[t].next
    BY <1>2 DEF Executions, Dispatching
  <2> HIDE DEF x
  <2>3. /\ SlotsMove(w) /\ run'[t] = x /\ writer'[w] = writer[w]
        /\ dispatched'[t] = dispatched[t] + 1
        /\ physical'[w] = physical[w] + 1 /\ physical[w] \in Nat
    BY <2>1, Unmoved DEF TypeOK
  <2>4. CallsMove(w, t)
    BY <1>2, <2>1, <2>3 DEF CallsMove, TypeOK
  <2>5. Owned(t)'
    BY <1>3, <2>2, <2>3 DEF Owned, Saving
  <2>6. PaidFor(x, e, disk[t], dispatched[t] + 1)
    <3>1. e \in Entries /\ disk[t] = e /\ dispatched[t] < Len(e.attempts)
      BY <1>1, <1>2 DEF PaidFor
    <3>2. Len(e.attempts) \in Nat
      BY <3>1 DEF Entries
    <3>3. dispatched[t] + 1 <= Len(disk[t].attempts) /\ disk[t] # NoRun
      BY <1>1, <1>2, <3>1, <3>2 DEF PaidFor
    <3> QED BY <1>1, <1>2, <2>2, <3>1, <3>3 DEF PaidFor
  <2>7. Paid(t)'
    BY <1>1, <2>2, <2>3, <2>6 DEF Paid
  <2>8. ~HasSlot(x, w) /\ Awaits(x, w)
    BY <2>2 DEF HasSlot, Awaits
  <2>9. /\ IsFiniteSet(SlotHolders(w)') /\ IsFiniteSet(Awaiting(w)')
        /\ n \in Nat /\ m \in Nat
        /\ Cardinality(SlotHolders(w)') = n - 1 /\ Cardinality(Awaiting(w)') = m + 1
    <3>1. /\ IsFiniteSet(SlotHolders(w)') /\ IsFiniteSet(Awaiting(w)')
          /\ n \in Nat /\ m \in Nat
          /\ Cardinality(SlotHolders(w)') = n - (IF HasSlot(run[t], w) THEN 1 ELSE 0)
                                              + (IF HasSlot(x, w) THEN 1 ELSE 0)
          /\ Cardinality(Awaiting(w)') = m - (IF Awaits(run[t], w) THEN 1 ELSE 0)
                                           + (IF Awaits(x, w) THEN 1 ELSE 0)
      BY <1>2, <2>1, CountMoves
    <3> HIDE DEF n, m
    <3> QED BY <1>5, <2>8, <3>1
  <2>10. /\ writer[w].active = physical[w] + n /\ m <= physical[w]
         /\ writer[w].active <= Concurrency
    BY <1>2 DEF Counted
  <2> HIDE DEF n, m
  <2>11. Counted(w)'
    <3>1. /\ writer'[w].active = physical'[w] + (n - 1) /\ writer'[w].active <= Concurrency
          /\ m + 1 <= physical'[w]
      BY <2>3, <2>9, <2>10
    <3> QED BY <2>9, <3>1 DEF Counted
  <2> QED BY <1>1, <1>4, <2>1, <2>2, <2>3, <2>4, <2>5, <2>7, <2>11, TaskStep
<1> QED BY <1>6, <1>7

\* The awaited call ends and gives its slot back.
LEMMA PhysicalReturnsStep ==
  ASSUME TypeOK, IInv, NEW t \in Tasks, NEW w \in Writers, run[t].owner = w,
         PhysicalReturns(t)
  PROVE  TypeOK' /\ IInv'
<1> DEFINE n == Cardinality(SlotHolders(w))
           m == Cardinality(Awaiting(w))
<1>1. /\ run[t].pc = "working" /\ writer' = Freed(w)
      /\ physical' = [physical EXCEPT ![w] = @ - 1]
      /\ UNCHANGED <<disk, lock, mem, priced, dispatched, faults>>
  BY DEF PhysicalReturns
<1>2. /\ run[t] \in Executions /\ PaidFor(run[t], mem[w][t], disk[t], dispatched[t])
      /\ Counted(w)
  BY <1>1, UnderWay
<1>3. writer[w].pc = "open" /\ writer[w].active >= 1 /\ physical[w] >= 1
      /\ ~writer[w].released
  BY <1>1, SlotHoldsLock
<1>4. PICK ok \in {"ok", "failed"} :
        run' = [run EXCEPT ![t].pc = "settle", ![t].outcome = ok]
  BY DEF PhysicalReturns
<1> DEFINE x == [run[t] EXCEPT !.pc = "settle", !.outcome = ok]
<1>5. run' = [run EXCEPT ![t] = x]
  BY <1>2, <1>4 DEF TypeOK
<1>6. x \in Executions /\ x.owner = w /\ x.pc = "settle"
  BY <1>2 DEF Executions
<1> HIDE DEF x
<1>7. /\ SlotsMove(w) /\ writer'[w].active = writer[w].active - 1
  BY <1>1, <1>3, SlotFreed
<1>8. LedgerMoves(w, t) /\ FileMoves(w) /\ faults' \in Nat
  BY <1>1, Unmoved DEF TypeOK
<1>9. physical[w] \in Nat /\ physical'[w] = physical[w] - 1 /\ run'[t] = x
      /\ writer[w].active \in Nat
  BY <1>1, <1>5 DEF TypeOK, WriterStates
<1>10. CallsMove(w, t)
  BY <1>1, <1>3, <1>9 DEF CallsMove, TypeOK
<1>11. Owned(t)'
  BY <1>3, <1>6, <1>7, <1>9 DEF Owned, Saving, SlotsMove
<1>12. Paid(t)'
  BY <1>1, <1>2, <1>6, <1>9 DEF Paid, PaidFor
<1>13. Counted(w)'
  <2>1. Awaits(run[t], w) /\ ~HasSlot(run[t], w) /\ ~HasSlot(x, w) /\ ~Awaits(x, w)
    BY <1>1, <1>6 DEF HasSlot, Awaits
  <2>2. /\ IsFiniteSet(SlotHolders(w)') /\ IsFiniteSet(Awaiting(w)')
        /\ n \in Nat /\ m \in Nat
        /\ Cardinality(SlotHolders(w)') = n - (IF HasSlot(run[t], w) THEN 1 ELSE 0)
                                            + (IF HasSlot(x, w) THEN 1 ELSE 0)
        /\ Cardinality(Awaiting(w)') = m - (IF Awaits(run[t], w) THEN 1 ELSE 0)
                                         + (IF Awaits(x, w) THEN 1 ELSE 0)
    BY <1>2, <1>5, CountMoves
  <2>3. writer[w].active = physical[w] + n /\ m <= physical[w]
        /\ writer[w].active <= Concurrency
    BY <1>2 DEF Counted
  <2> HIDE DEF n, m
  <2>4. Cardinality(SlotHolders(w)') = n /\ Cardinality(Awaiting(w)') = m - 1
    BY <2>1, <2>2
  <2>5. Concurrency \in Nat
    BY BudgetAssumption
  <2>6. writer'[w].active = physical'[w] + n /\ m - 1 <= physical'[w]
        /\ writer'[w].active <= Concurrency
    BY <1>7, <1>9, <2>2, <2>3, <2>5
  <2> QED BY <2>2, <2>4, <2>6 DEF Counted
<1> QED BY <1>1, <1>5, <1>6, <1>7, <1>8, <1>10, <1>11, <1>12, <1>13, TaskStep

\* The dispatch leaves its call in flight: the call keeps the slot.
LEMMA AbandonStep ==
  ASSUME TypeOK, IInv, NEW t \in Tasks, NEW w \in Writers, run[t].owner = w, Abandon(t)
  PROVE  TypeOK' /\ IInv'
<1> DEFINE x == [run[t] EXCEPT !.pc = "settle", !.outcome = "failed"]
<1>1. /\ run[t].pc = "working"
      /\ UNCHANGED <<disk, lock, mem, writer, priced, physical, dispatched, faults>>
  BY DEF Abandon
<1>2. /\ run[t] \in Executions /\ writer[w].pc \in {"open", "closed"}
      /\ PaidFor(run[t], mem[w][t], disk[t], dispatched[t])
  BY <1>1, UnderWay
<1>3. run' = [run EXCEPT ![t] = x]
  BY <1>2 DEF Abandon, TypeOK
<1>4. x \in Executions /\ x.owner = w /\ x.pc = "settle"
  BY <1>2 DEF Executions
<1> HIDE DEF x
<1>5. PaidFor(x, mem[w][t], disk[t], dispatched[t])
  BY <1>1, <1>2, <1>4 DEF PaidFor
<1>6. ~HasSlot(x, w) /\ ~HasSlot(run[t], w) /\ ~Awaits(x, w) /\ x.pc \notin Saving
  BY <1>1, <1>4 DEF HasSlot, Awaits, Saving
<1> QED BY <1>1, <1>2, <1>3, <1>4, <1>5, <1>6, QuietStep

\* A ledger operation on the entry of t, which grows, and whose save begins.
LEMMA OperationStep ==
  ASSUME TypeOK, IInv, NEW t \in Tasks, NEW w \in Writers, run[t].owner = w,
         run[t].pc \in {"settle", "finish"}, ~writer[w].released,
         NEW x \in Executions, x.owner = w, x.pc \in {"settleSave", "finishSave"},
         x.pc = "settleSave" => run[t].pc = "settle",
         NEW e \in Entries, e # NoRun, Grows(e, mem[w][t]),
         x.pc = "settleSave" => e.attempts # <<>>,
         run' = [run EXCEPT ![t] = x],
         mem' = [mem EXCEPT ![w] = [mem[w] EXCEPT ![t] = e]],
         UNCHANGED <<disk, lock, writer, priced, physical, dispatched, faults>>
  PROVE  TypeOK' /\ IInv'
<1>1. /\ run[t] \in Executions /\ writer[w].pc \in {"open", "closed"}
      /\ PaidFor(run[t], mem[w][t], disk[t], dispatched[t])
      /\ Lifecycle(w) /\ Counted(w)
  BY UnderWay
<1>2. LedgerMoves(w, t) /\ mem'[w][t] = e
  BY EntryMoves
<1>3. SlotsMove(w) /\ CallsMove(w, t) /\ FileMoves(w) /\ faults' \in Nat
      /\ run'[t] = x
  BY Unmoved DEF TypeOK
<1>4. Owned(t)'
  BY <1>1, <1>3 DEF Owned
<1>5. Paid(t)'
  BY <1>1, <1>2, <1>3 DEF Paid, PaidFor
<1>6. Counted(w)'
  <2>1. ~HasSlot(x, w) /\ ~HasSlot(run[t], w) /\ ~Awaits(x, w)
    BY DEF HasSlot, Awaits
  <2>2. writer'[w].active = writer[w].active /\ physical'[w] = physical[w]
    OBVIOUS
  <2> QED BY <1>1, <2>1, <2>2, CountKept
<1> QED BY <1>2, <1>3, <1>4, <1>5, <1>6, TaskStep

\* Settle: the last attempt is settled, unless the ledger is fenced.
LEMMA SettleStep ==
  ASSUME TypeOK, IInv, NEW t \in Tasks, NEW w \in Writers, run[t].owner = w, Settle(t)
  PROVE  TypeOK' /\ IInv'
<1> DEFINE e == mem[w][t]
<1>1. /\ run[t].pc = "settle"
      /\ UNCHANGED <<disk, lock, writer, priced, physical, dispatched, faults>>
  BY DEF Settle
<1>2. /\ run[t] \in Executions /\ writer[w].pc \in {"open", "closed"}
      /\ PaidFor(run[t], e, disk[t], dispatched[t])
      /\ t \in Known /\ mem[w] \in Ledgers /\ e \in Entries \cup {NoRun}
  BY <1>1, UnderWay
<1>3. e \in Entries /\ e.attempts # <<>>
  BY <1>1, <1>2 DEF PaidFor
<1>4. CASE Fenced(w)
  <2>1. PICK x \in SettleThrows(run[t]) : run' = [run EXCEPT ![t] = x]
    BY <1>4 DEF Settle
  <2>2. mem' = mem
    BY <1>4 DEF Settle
  <2>3. /\ x \in Executions /\ x.owner = w
        /\ \/ x.pc \in {"acquire", "finish"}
           \/ x = [run[t] EXCEPT !.pc = "settle", !.outcome = "failed"]
    BY <1>2, <2>1, SettleThrowsType
  <2>4. x.pc \in {"acquire", "finish", "settle"}
    BY <1>2, <2>3 DEF Executions
  <2>5. PaidFor(x, mem[w][t], disk[t], dispatched[t])
    BY <1>1, <1>2, <2>4 DEF PaidFor
  <2>6. ~HasSlot(x, w) /\ ~HasSlot(run[t], w) /\ ~Awaits(x, w) /\ x.pc \notin Saving
    BY <1>1, <2>4 DEF HasSlot, Awaits, Saving
  <2> QED BY <1>1, <1>2, <2>1, <2>2, <2>3, <2>4, <2>5, <2>6, QuietStep
<1>5. CASE ~Fenced(w)
  <2> DEFINE x == [run[t] EXCEPT !.pc = "settleSave"]
  <2>1. /\ mem' = [mem EXCEPT ![w][t].attempts[Len(e.attempts)].outcome = "settled"]
        /\ run' = [run EXCEPT ![t].pc = "settleSave"] /\ ~writer[w].released
    BY <1>5 DEF Settle, Fenced
  <2>2. mem' = [mem EXCEPT ![w] = [mem[w] EXCEPT ![t] = Settled(e)]]
    BY <1>2, <2>1 DEF Settled, TypeOK
  <2>3. run' = [run EXCEPT ![t] = x]
    BY <1>2, <2>1 DEF TypeOK
  <2>4. x \in Executions /\ x.owner = w /\ x.pc = "settleSave"
    BY <1>2 DEF Executions, Saving
  <2> HIDE DEF x
  <2>5. /\ Settled(e) \in Entries /\ Settled(e) # NoRun /\ Grows(Settled(e), e)
        /\ Settled(e).attempts # <<>>
    BY <1>3, SettledEntry
  <2> QED BY <1>1, <2>1, <2>2, <2>3, <2>4, <2>5, OperationStep
<1> QED BY <1>4, <1>5

\* Finish: the entry is closed, unless the ledger is fenced.
LEMMA FinishStep ==
  ASSUME TypeOK, IInv, NEW t \in Tasks, NEW w \in Writers, run[t].owner = w, Finish(t)
  PROVE  TypeOK' /\ IInv'
<1> DEFINE e == mem[w][t]
<1>1. /\ run[t].pc = "finish"
      /\ UNCHANGED <<disk, lock, writer, priced, physical, dispatched, faults>>
  BY DEF Finish
<1>2. /\ run[t] \in Executions /\ writer[w].pc \in {"open", "closed"}
      /\ PaidFor(run[t], e, disk[t], dispatched[t])
      /\ t \in Known /\ mem[w] \in Ledgers /\ e \in Entries \cup {NoRun}
  BY <1>1, UnderWay
<1>3. e \in Entries
  BY <1>1, <1>2 DEF PaidFor
<1>4. CASE Fenced(w)
  <2>1. run' = [run EXCEPT ![t] = IdleExecution] /\ UNCHANGED mem
    BY <1>4 DEF Finish
  <2>2. /\ IdleExecution \in Executions /\ IdleExecution.pc = "idle"
        /\ IdleExecution.owner = NoWriter
    BY IdleType DEF IdleExecution
  <2>3. PaidFor(IdleExecution, mem[w][t], disk[t], dispatched[t])
    BY <1>1, <1>2, <2>2, DispatchOver
  <2>4. /\ ~HasSlot(IdleExecution, w) /\ ~HasSlot(run[t], w) /\ ~Awaits(IdleExecution, w)
        /\ IdleExecution.pc \notin Saving
    BY <1>1, <2>2 DEF HasSlot, Awaits, Saving
  <2> QED BY <1>1, <1>2, <2>1, <2>2, <2>3, <2>4, QuietStep
<1>5. CASE ~Fenced(w)
  <2> DEFINE x == [run[t] EXCEPT !.pc = "finishSave"]
             c == [e EXCEPT !.closed = TRUE]
  <2>1. /\ mem' = [mem EXCEPT ![w][t].closed = TRUE]
        /\ run' = [run EXCEPT ![t].pc = "finishSave"] /\ ~writer[w].released
    BY <1>5 DEF Finish, Fenced
  <2>2. mem' = [mem EXCEPT ![w] = [mem[w] EXCEPT ![t] = c]]
    BY <1>2, <2>1 DEF TypeOK
  <2>3. run' = [run EXCEPT ![t] = x]
    BY <1>2, <2>1 DEF TypeOK
  <2>4. x \in Executions /\ x.owner = w /\ x.pc = "finishSave"
    BY <1>2 DEF Executions, Saving
  <2>5. c \in Entries /\ c # NoRun /\ Grows(c, e)
    BY <1>3, ClosedEntry
  <2> HIDE DEF x, c
  <2> QED BY <1>1, <2>1, <2>2, <2>3, <2>4, <2>5, OperationStep
<1> QED BY <1>4, <1>5

\* An operation is served for a writer that is open, and whose memory the file trails.
LEMMA SaveUnderWay ==
  ASSUME TypeOK, IInv, NEW t \in Tasks, NEW w \in Writers, run[t].owner = w,
         run[t].pc \in Saving, disk' \in {disk, mem[w]}, mem' = mem
  PROVE  /\ writer[w].pc = "open" /\ ~writer[w].released
         /\ FileMoves(w)
         /\ disk'[t] \in Entries \cup {NoRun}
         /\ Grows(disk'[t], disk[t])
<1>1. run[t].pc # "idle"
  BY DEF Saving
<1>2. /\ writer[w].pc \in {"open", "closed"} /\ Lifecycle(w) /\ Ahead(w)
      /\ t \in Known
      /\ disk[t] \in Entries \cup {NoRun} /\ mem[w][t] \in Entries \cup {NoRun}
  BY <1>1, UnderWay
<1>3. ~writer[w].released
  BY DEF IInv, Owned
<1>4. writer[w].pc = "open"
  BY <1>2, <1>3 DEF Lifecycle
<1>5. Grows(mem[w][t], disk[t])
  BY <1>2, <1>4, AheadOf
<1>6. Grows(disk[t], disk[t])
  BY <1>2, GrowsReflexive
<1> QED BY <1>2, <1>3, <1>4, <1>5, <1>6 DEF FileMoves

\* The end of a save, good or bad, after which the execution goes on or is over.
LEMMA SaveEnds ==
  ASSUME TypeOK, IInv, NEW t \in Tasks, NEW w \in Writers, run[t].owner = w,
         run[t].pc \in {"beginSave", "settleSave", "finishSave"},
         NEW x \in Executions, x.pc \in {"acquire", "finish", "settle", "idle"},
         x.owner = IF x.pc = "idle" THEN NoWriter ELSE w,
         x.pc = "settle" => run[t].pc = "settleSave",
         run' = [run EXCEPT ![t] = x],
         disk' \in {disk, mem[w]}, faults' \in Nat,
         UNCHANGED <<lock, mem, writer, priced, physical, dispatched>>
  PROVE  TypeOK' /\ IInv'
<1>1. /\ run[t] \in Executions /\ Lifecycle(w) /\ Ahead(w) /\ Counted(w)
      /\ PaidFor(run[t], mem[w][t], disk[t], dispatched[t])
      /\ disk[t] \in Entries \cup {NoRun} /\ mem[w][t] \in Entries \cup {NoRun}
      /\ dispatched[t] \in Nat
  BY UnderWay
<1>2. /\ writer[w].pc = "open" /\ ~writer[w].released /\ FileMoves(w)
      /\ disk'[t] \in Entries \cup {NoRun} /\ Grows(disk'[t], disk[t])
  BY SaveUnderWay DEF Saving
<1>3. LedgerMoves(w, t) /\ SlotsMove(w) /\ CallsMove(w, t) /\ run'[t] = x
  BY Unmoved DEF TypeOK
<1>4. Owned(t)'
  BY <1>2, <1>3 DEF Owned, Saving
<1>5. PaidFor(x, mem[w][t], disk'[t], dispatched[t])
  <2>1. PaidFor(x, mem[w][t], disk[t], dispatched[t])
    BY <1>1 DEF PaidFor
  <2> QED BY <1>1, <1>2, <2>1, PaidKept
<1>6. Paid(t)'
  <2>1. x.pc = "idle" => PaidFor(x, mem'[x.owner][t], disk'[t], dispatched[t])
    BY <1>5 DEF PaidFor
  <2>2. x.pc # "idle" => mem'[x.owner][t] = mem[w][t]
    OBVIOUS
  <2> QED BY <1>3, <1>5, <2>1, <2>2 DEF Paid
<1>7. Counted(w)'
  <2>1. ~HasSlot(x, w) /\ ~HasSlot(run[t], w) /\ ~Awaits(x, w)
    BY DEF HasSlot, Awaits
  <2>2. writer'[w].active = writer[w].active /\ physical'[w] = physical[w]
    OBVIOUS
  <2> QED BY <1>1, <2>1, <2>2, CountKept
<1> QED BY <1>2, <1>3, <1>4, <1>6, <1>7, TaskStep

\* Saved: the file is what the memory of the writer was when the save began.
LEMMA SavedStep ==
  ASSUME TypeOK, IInv, NEW t \in Tasks, NEW w \in Writers, run[t].owner = w, Saved(t)
  PROVE  TypeOK' /\ IInv'
<1>1. /\ run[t].pc \in Saving /\ disk' = mem[w] /\ disk' \in {disk, mem[w]}
      /\ UNCHANGED <<lock, mem, writer, priced, physical, dispatched, faults>>
  BY DEF Saved
<1>2. /\ run[t] \in Executions /\ Counted(w)
      /\ PaidFor(run[t], mem[w][t], disk[t], dispatched[t])
      /\ disk[t] \in Entries \cup {NoRun} /\ mem[w][t] \in Entries \cup {NoRun}
      /\ dispatched[t] \in Nat
  <2>1. run[t].pc # "idle"
    BY <1>1 DEF Saving
  <2> QED BY <2>1, UnderWay
<1>3. faults' \in Nat
  BY <1>1 DEF TypeOK
<1>4. CASE run[t].pc = "beginSave"
  <2>1. PICK n \in {"work", "finish"} : run' = [run EXCEPT ![t] = Proceeding(run[t], n, FALSE)]
    BY <1>4 DEF Saved
  <2>2. run[t].works < WorkLimit
    <3>1. run[t].works = 0
      BY <1>4 DEF IInv, Owned
    <3> QED BY <3>1, BudgetAssumption
  <2> DEFINE x == Proceeding(run[t], n, FALSE)
  <2>3. n \in Purposes \cup {"finish"} /\ FALSE \in BOOLEAN
    BY DEF Purposes
  <2>4. x \in Executions /\ x.owner = w /\ x.pc \in {"acquire", "finish"}
    BY <1>2, <2>2, <2>3, ProceedingType
  <2> HIDE DEF x
  <2>5. run' = [run EXCEPT ![t] = x]
    BY <2>1 DEF x
  <2> QED BY <1>1, <1>3, <1>4, <2>4, <2>5, SaveEnds
<1>5. CASE run[t].pc = "reserveSave"
  <2> DEFINE x == [run[t] EXCEPT !.pc = "invoke"]
  <2>1. run' = [run EXCEPT ![t] = x]
    BY <1>2, <1>5 DEF Saved, TypeOK
  <2>2. x \in Executions /\ x.owner = w /\ x.pc = "invoke" /\ x.next = run[t].next
    BY <1>2 DEF Executions, Dispatching
  <2> HIDE DEF x
  <2>3. /\ writer[w].pc = "open" /\ ~writer[w].released /\ FileMoves(w)
    BY <1>1, SaveUnderWay
  <2>4. LedgerMoves(w, t) /\ SlotsMove(w) /\ CallsMove(w, t) /\ run'[t] = x
    BY <1>1, <2>1, Unmoved DEF TypeOK
  <2>5. Owned(t)'
    BY <1>1, <2>2, <2>3, <2>4 DEF Owned, Saving
  <2>6. PaidFor(x, mem[w][t], mem[w][t], dispatched[t])
    <3>1. mem[w][t] \in Entries /\ dispatched[t] < Len(mem[w][t].attempts)
      BY <1>2, <1>5 DEF PaidFor
    <3>2. Len(mem[w][t].attempts) \in Nat
      BY <3>1 DEF Entries
    <3>3. dispatched[t] <= Len(mem[w][t].attempts)
      BY <1>2, <3>1, <3>2
    <3> QED BY <1>2, <1>5, <2>2, <3>1, <3>3 DEF PaidFor
  <2>7. Paid(t)'
    BY <1>1, <2>2, <2>4, <2>6 DEF Paid
  <2>8. Counted(w)'
    <3>1. HasSlot(x, w) /\ HasSlot(run[t], w) /\ ~Awaits(x, w)
      BY <1>5, <2>2 DEF HasSlot, Awaits
    <3>2. writer'[w].active = writer[w].active /\ physical'[w] = physical[w]
      BY <1>1
    <3> QED BY <1>2, <2>1, <3>1, <3>2, CountKept
  <2> QED BY <1>1, <1>3, <2>1, <2>2, <2>3, <2>4, <2>5, <2>7, <2>8, TaskStep
<1>6. CASE run[t].pc = "settleSave"
  <2>1. PICK x \in Returned(run[t], run[t].outcome = "ok") : run' = [run EXCEPT ![t] = x]
    BY <1>6 DEF Saved
  <2>2. (run[t].outcome = "ok") \in BOOLEAN
    OBVIOUS
  <2>3. x \in Executions /\ x.owner = w /\ x.pc \in {"acquire", "finish"}
    BY <1>2, <2>1, <2>2, ReturnedType
  <2> QED BY <1>1, <1>3, <1>6, <2>1, <2>3, SaveEnds
<1>7. CASE run[t].pc = "finishSave"
  <2>1. run' = [run EXCEPT ![t] = IdleExecution]
    BY <1>7 DEF Saved
  <2>2. /\ IdleExecution \in Executions /\ IdleExecution.pc = "idle"
        /\ IdleExecution.owner = NoWriter
    BY IdleType DEF IdleExecution
  <2> QED BY <1>1, <1>3, <1>7, <2>1, <2>2, SaveEnds
<1> QED BY <1>1, <1>4, <1>5, <1>6, <1>7 DEF Saving

\* SaveFails: the file may have changed all the same; a slot is given back.
LEMMA SaveFailsStep ==
  ASSUME TypeOK, IInv, NEW t \in Tasks, NEW w \in Writers, run[t].owner = w, SaveFails(t)
  PROVE  TypeOK' /\ IInv'
<1>1. /\ run[t].pc \in Saving /\ disk' \in {disk, mem[w]} /\ faults' \in Nat
      /\ UNCHANGED <<lock, mem, priced, physical, dispatched>>
  <2>1. faults \in Nat
    BY DEF TypeOK
  <2> QED BY <2>1 DEF SaveFails
<1>2. /\ run[t] \in Executions
      /\ PaidFor(run[t], mem[w][t], disk[t], dispatched[t])
      /\ disk[t] \in Entries \cup {NoRun} /\ mem[w][t] \in Entries \cup {NoRun}
      /\ dispatched[t] \in Nat
  <2>1. run[t].pc # "idle"
    BY <1>1 DEF Saving
  <2> QED BY <2>1, UnderWay
<1>3. CASE run[t].pc \in {"beginSave", "finishSave"}
  <2>1. run' = [run EXCEPT ![t] = IdleExecution] /\ writer' = writer
    BY <1>3 DEF SaveFails
  <2>2. /\ IdleExecution \in Executions /\ IdleExecution.pc = "idle"
        /\ IdleExecution.owner = NoWriter
    BY IdleType DEF IdleExecution
  <2> QED BY <1>1, <1>3, <2>1, <2>2, SaveEnds
<1>4. CASE run[t].pc = "reserveSave"
  <2>1. writer' = Freed(w) /\ \E x \in Returned(run[t], FALSE) : run' = [run EXCEPT ![t] = x]
    BY <1>4 DEF SaveFails
  <2>2. PICK x \in Returned(run[t], FALSE) : run' = [run EXCEPT ![t] = x]
    BY <2>1
  <2>3. x \in Executions /\ x.owner = w /\ x.pc \in {"acquire", "finish"}
    BY <1>2, <2>2, ReturnedType
  <2>4. FileMoves(w) /\ disk'[t] \in Entries \cup {NoRun} /\ Grows(disk'[t], disk[t])
    BY <1>1, SaveUnderWay
  <2>5. PaidFor(x, mem[w][t], disk'[t], dispatched[t])
    <3>1. PaidFor(x, mem[w][t], disk[t], dispatched[t])
      BY <1>2, <1>4, <2>3, DispatchOver
    <3> QED BY <1>2, <2>3, <2>4, <3>1, PaidKept
  <2>6. HasSlot(run[t], w)
    BY <1>4 DEF HasSlot
  <2> QED BY <1>1, <2>1, <2>2, <2>3, <2>4, <2>5, <2>6, FreeStep
<1>5. CASE run[t].pc = "settleSave"
  <2>1. writer' = writer /\ \E x \in SettleThrows(run[t]) : run' = [run EXCEPT ![t] = x]
    BY <1>5 DEF SaveFails
  <2>2. PICK x \in SettleThrows(run[t]) : run' = [run EXCEPT ![t] = x]
    BY <2>1
  <2>3. /\ x \in Executions /\ x.owner = w
        /\ \/ x.pc \in {"acquire", "finish"}
           \/ x = [run[t] EXCEPT !.pc = "settle", !.outcome = "failed"]
    BY <1>2, <2>2, SettleThrowsType
  <2>4. x.pc \in {"acquire", "finish", "settle"}
    BY <1>2, <2>3 DEF Executions
  <2> QED BY <1>1, <1>5, <2>1, <2>2, <2>3, <2>4, SaveEnds
<1> QED BY <1>1, <1>3, <1>4, <1>5 DEF Saving

\* A signal or a timer changes what an execution may still do, and nothing else.
LEMMA SignalStep ==
  ASSUME TypeOK, IInv, NEW t \in Tasks, NEW w \in Writers, run[t].owner = w,
         run[t].pc # "idle", NEW x \in Executions,
         x.pc = run[t].pc, x.owner = run[t].owner, x.next = run[t].next,
         x.works = run[t].works,
         run' = [run EXCEPT ![t] = x],
         UNCHANGED <<disk, lock, mem, writer, priced, physical, dispatched, faults>>
  PROVE  TypeOK' /\ IInv'
<1>1. /\ writer[w].pc \in {"open", "closed"}
      /\ PaidFor(run[t], mem[w][t], disk[t], dispatched[t])
  BY UnderWay
<1>2. Owned(t)
  BY DEF IInv
<1>3. PaidFor(x, mem[w][t], disk[t], dispatched[t])
  BY <1>1 DEF PaidFor
<1>4. (HasSlot(x, w) <=> HasSlot(run[t], w)) /\ (Awaits(x, w) => Awaits(run[t], w))
  BY DEF HasSlot, Awaits
<1>5. /\ x.pc \in Saving => ~writer[w].released
      /\ x.pc \in {"begin", "beginSave"} => x.works = 0
  BY <1>2 DEF Owned
<1> QED BY <1>1, <1>3, <1>4, <1>5, QuietStep

\* DispatchTimesOut, RunCancelled and RunLate.
LEMMA TimersStep ==
  ASSUME TypeOK, IInv, NEW t \in Tasks, NEW w \in Writers, run[t].owner = w,
         DispatchTimesOut(t) \/ RunCancelled(t) \/ RunLate(t)
  PROVE  TypeOK' /\ IInv'
<1>1. /\ run[t].pc # "idle" /\ run[t] \in Executions
      /\ UNCHANGED <<disk, lock, mem, writer, priced, physical, dispatched, faults>>
  BY DEF DispatchTimesOut, RunCancelled, RunLate, Dispatching, TypeOK
<1>2. CASE DispatchTimesOut(t)
  <2> DEFINE x == [run[t] EXCEPT !.stopped = TRUE]
  <2>1. run' = [run EXCEPT ![t] = x]
    BY <1>1, <1>2 DEF DispatchTimesOut, TypeOK
  <2>2. /\ x \in Executions /\ x.pc = run[t].pc /\ x.owner = run[t].owner
        /\ x.next = run[t].next /\ x.works = run[t].works
    BY <1>1 DEF Executions
  <2> HIDE DEF x
  <2> QED BY <1>1, <2>1, <2>2, SignalStep
<1>3. CASE RunCancelled(t)
  <2> DEFINE b == run[t].stopped \/ (run[t].pc \in Dispatching /\ run[t].next = "work")
             x == [run[t] EXCEPT !.limit = "cancelled", !.stopped = b]
  <2>1. run' = [run EXCEPT ![t] = x]
    BY <1>1, <1>3 DEF RunCancelled, TypeOK, Executions
  <2>2. b \in BOOLEAN
    BY <1>1 DEF Executions
  <2> HIDE DEF b
  <2>3. /\ x \in Executions /\ x.pc = run[t].pc /\ x.owner = run[t].owner
        /\ x.next = run[t].next /\ x.works = run[t].works
    BY <1>1, <2>2 DEF Executions
  <2> HIDE DEF x
  <2> QED BY <1>1, <2>1, <2>3, SignalStep
<1>4. CASE RunLate(t)
  <2> DEFINE b == run[t].stopped \/ run[t].pc \in Dispatching
             x == [run[t] EXCEPT !.limit = "late", !.stopped = b]
  <2>1. run' = [run EXCEPT ![t] = x]
    BY <1>1, <1>4 DEF RunLate, TypeOK, Executions
  <2>2. b \in BOOLEAN
    BY <1>1 DEF Executions
  <2> HIDE DEF b
  <2>3. /\ x \in Executions /\ x.pc = run[t].pc /\ x.owner = run[t].owner
        /\ x.next = run[t].next /\ x.works = run[t].works
    BY <1>1, <2>2 DEF Executions
  <2> HIDE DEF x
  <2> QED BY <1>1, <2>1, <2>3, SignalStep
<1> QED BY <1>2, <1>3, <1>4

(* The steps of a writer.                                                  *)

\* A step that changes one writer and the lock, and no memory, file, execution or call.
LEMMA WriterStep ==
  ASSUME TypeOK, IInv, NEW w \in Writers, NEW y \in WriterStates,
         writer' = [writer EXCEPT ![w] = y],
         lock' \in Writers \cup {NoWriter}, faults' \in Nat,
         \A v \in Writers \ {w} : writer[v].pc \in {"opening", "open"} => lock' = v,
         y.pc = "open" => writer[w].pc = "open",
         y.active = writer[w].active,
         y.released # writer[w].released =>
           \A t \in Tasks : run[t].owner = w => run[t].pc \notin Saving,
         y.pc \notin {"open", "closed"} => \A t \in Tasks : run[t].owner # w,
         Lifecycle(w)',
         UNCHANGED <<disk, mem, run, priced, physical, dispatched>>
  PROVE  TypeOK' /\ IInv'
<1>1. /\ writer'[w] = y /\ (\A v \in Writers \ {w} : writer'[v] = writer[v])
      /\ writer' \in [Writers -> WriterStates]
  BY DEF TypeOK
<1>2. TypeOK'
  BY <1>1 DEF TypeOK
<1>3. ASSUME NEW v \in Writers PROVE Lifecycle(v)'
  <2>1. CASE v = w
    BY <2>1
  <2>2. CASE v # w
    <3>1. Lifecycle(v) /\ writer'[v] = writer[v]
      BY <1>1, <2>2 DEF IInv
    <3> QED BY <2>2, <3>1 DEF Lifecycle
  <2> QED BY <2>1, <2>2
<1>4. ASSUME NEW v \in Writers PROVE Ahead(v)' /\ Counted(v)'
  <2>1. writer'[v].pc = "open" => writer[v].pc = "open"
    BY <1>1
  <2>2. writer'[v].active = writer[v].active
    BY <1>1
  <2>3. SlotHolders(v)' = SlotHolders(v) /\ Awaiting(v)' = Awaiting(v)
    BY DEF SlotHolders, Awaiting, HasSlot, Awaits
  <2>4. Ahead(v) /\ Counted(v)
    BY DEF IInv
  <2> QED BY <2>1, <2>2, <2>3, <2>4 DEF Ahead, Counted
<1>5. ASSUME NEW t \in Tasks PROVE Owned(t)' /\ Paid(t)'
  <2>1. Owned(t) /\ Paid(t)
    BY DEF IInv
  <2>2. run[t].pc # "idle" => writer'[run[t].owner].pc \in {"open", "closed"}
    BY <1>1, <2>1 DEF Owned
  <2>3. run[t].pc \in Saving => ~writer'[run[t].owner].released
    <3>1. SUFFICES ASSUME run[t].pc \in Saving PROVE ~writer'[run[t].owner].released
      OBVIOUS
    <3>2. run[t].owner \in Writers /\ ~writer[run[t].owner].released
      BY <2>1, <3>1 DEF Owned, Saving
    <3>3. CASE run[t].owner = w
      BY <1>1, <3>1, <3>2, <3>3
    <3> QED BY <1>1, <3>2, <3>3
  <2> QED BY <2>1, <2>2, <2>3 DEF Owned, Paid
<1> QED BY <1>2, <1>3, <1>4, <1>5 DEF IInv

\* No one is served when a writer's queue is free.
LEMMA NotBusy ==
  ASSUME NEW w \in Writers, ~Busy(w)
  PROVE  \A t \in Tasks : run[t].owner = w => run[t].pc \notin Saving
BY DEF Busy

\* A writer that is not open has no execution under way in the two states of opening.
LEMMA NoneOwned ==
  ASSUME TypeOK, IInv, NEW w \in Writers, writer[w].pc \in {"absent", "opening"}
  PROVE  \A t \in Tasks : run[t].owner # w
<1>1. SUFFICES ASSUME NEW t \in Tasks, run[t].owner = w PROVE FALSE
  OBVIOUS
<1>2. Owned(t) /\ NoWriter \notin Writers
  BY BudgetAssumption DEF IInv
<1> QED BY <1>1, <1>2 DEF Owned

\* A writer that is neither opening nor open, nor is to be, does not want the lock.
LEMMA OneHolder ==
  ASSUME TypeOK, IInv, NEW w \in Writers, lock \in {w, NoWriter}
  PROVE  \A v \in Writers \ {w} : writer[v].pc \notin {"opening", "open"}
<1>1. NoWriter \notin Writers
  BY BudgetAssumption
<1> QED BY <1>1 DEF IInv, Lifecycle

\* OpenLock, OpenFails, Close, CloseServed, Unlocked and UnlockFails.
LEMMA LockStep ==
  ASSUME TypeOK, IInv, NEW w \in Writers,
         \/ OpenLock(w) \/ OpenFails(w) \/ Close(w) \/ CloseServed(w)
         \/ Unlocked(w) \/ UnlockFails(w)
  PROVE  TypeOK' /\ IInv'
<1>1. /\ writer[w] \in WriterStates /\ Lifecycle(w) /\ NoWriter \notin Writers
      /\ writer \in [Writers -> WriterStates] /\ lock \in Writers \cup {NoWriter}
      /\ AbsentWriter \in WriterStates
      /\ \A v \in Writers : writer[v].pc \in {"opening", "open"} => lock = v
  BY IdleType, BudgetAssumption DEF TypeOK, IInv, Lifecycle
<1>2. faults \in Nat
  BY DEF TypeOK
<1>3. UNCHANGED <<disk, mem, run, priced, physical, dispatched>> /\ faults' \in Nat
  BY <1>2 DEF OpenLock, OpenFails, Close, CloseServed, ServeClose, Unlocked, UnlockFails
<1>4. CASE OpenLock(w)
  <2> DEFINE y == [AbsentWriter EXCEPT !.pc = "opening"]
  <2>1. /\ y \in WriterStates /\ y.pc = "opening" /\ y.active = 0 /\ y.closing = "no"
        /\ ~y.released
    BY <1>1 DEF AbsentWriter, WriterStates
  <2>2. /\ writer' = [writer EXCEPT ![w] = y] /\ lock' = w /\ lock = NoWriter
        /\ writer[w].pc \in {"absent", "closed"} /\ \A t \in Tasks : run[t].owner # w
    BY <1>4 DEF OpenLock
  <2> HIDE DEF y
  <2>3. writer'[w] = y
    BY <1>1, <2>2
  <2>4. Lifecycle(w)'
    BY <2>1, <2>2, <2>3 DEF Lifecycle
  <2>5. \A v \in Writers \ {w} : writer[v].pc \notin {"opening", "open"}
    BY <2>2, OneHolder
  <2>6. y.active = writer[w].active
    BY <1>1, <2>1, <2>2 DEF Lifecycle
  <2> QED BY <1>1, <1>3, <2>1, <2>2, <2>4, <2>5, <2>6, WriterStep
<1>5. CASE OpenFails(w)
  <2>1. writer' = [writer EXCEPT ![w] = AbsentWriter] /\ lock' = NoWriter
        /\ writer[w].pc = "opening"
    BY <1>5 DEF OpenFails
  <2>2. /\ AbsentWriter.pc = "absent" /\ AbsentWriter.active = 0
        /\ AbsentWriter.closing = "no" /\ ~AbsentWriter.released
    BY DEF AbsentWriter
  <2>3. Lifecycle(w)'
    BY <1>1, <2>1, <2>2 DEF Lifecycle
  <2>4. /\ \A v \in Writers \ {w} : writer[v].pc \notin {"opening", "open"}
        /\ \A t \in Tasks : run[t].owner # w
    BY <1>1, <2>1, OneHolder, NoneOwned
  <2>5. AbsentWriter.active = writer[w].active
    BY <1>1, <2>1, <2>2 DEF Lifecycle
  <2> QED BY <1>1, <1>3, <2>1, <2>2, <2>3, <2>4, <2>5, WriterStep
<1>6. CASE Close(w)
  <2> DEFINE y == [writer[w] EXCEPT !.closed = TRUE, !.closing = "queued"]
  <2>1. /\ writer' = [writer EXCEPT ![w] = y] /\ lock' = lock /\ writer[w].pc = "open"
    BY <1>1, <1>6 DEF Close
  <2>2. /\ y \in WriterStates /\ y.pc = writer[w].pc /\ y.active = writer[w].active
        /\ y.closed /\ y.closing = "queued" /\ y.released = writer[w].released
    BY <1>1 DEF WriterStates
  <2> HIDE DEF y
  <2>3. Lifecycle(w)'
    BY <1>1, <2>1, <2>2 DEF Lifecycle
  <2> QED BY <1>1, <1>3, <2>1, <2>2, <2>3, WriterStep
<1>7. CASE CloseServed(w)
  <2>1. /\ lock' = lock /\ writer[w].closing = "queued"
        /\ \A t \in Tasks : run[t].owner = w => run[t].pc \notin Saving
    BY <1>7, NotBusy DEF CloseServed, ServeClose
  <2>2. writer[w].pc = "open"
    BY <1>1, <2>1 DEF Lifecycle
  <2>3. CASE writer[w].active > 0
    <3> DEFINE y == [writer[w] EXCEPT !.closing = "no"]
    <3>1. writer' = [writer EXCEPT ![w] = y]
      BY <1>1, <1>7, <2>3 DEF CloseServed, ServeClose
    <3>2. /\ y \in WriterStates /\ y.pc = writer[w].pc /\ y.active = writer[w].active
          /\ y.closed = writer[w].closed /\ y.closing = "no"
          /\ y.released = writer[w].released
      BY <1>1 DEF WriterStates
    <3> HIDE DEF y
    <3>3. Lifecycle(w)'
      BY <1>1, <2>1, <3>1, <3>2 DEF Lifecycle
    <3> QED BY <1>1, <1>3, <2>1, <2>2, <3>1, <3>2, <3>3, WriterStep
  <2>4. CASE ~(writer[w].active > 0)
    <3> DEFINE y == [writer[w] EXCEPT !.released = TRUE, !.closing = "releasing"]
    <3>1. writer' = [writer EXCEPT ![w] = y]
      BY <1>1, <1>7, <2>4 DEF CloseServed, ServeClose
    <3>2. /\ y \in WriterStates /\ y.pc = writer[w].pc /\ y.active = writer[w].active
          /\ y.closed = writer[w].closed /\ y.closing = "releasing" /\ y.released
      BY <1>1 DEF WriterStates
    <3>3. writer[w].active = 0
      BY <1>1, <2>4 DEF WriterStates
    <3> HIDE DEF y
    <3>4. Lifecycle(w)'
      BY <1>1, <2>1, <2>2, <3>1, <3>2, <3>3 DEF Lifecycle
    <3> QED BY <1>1, <1>3, <2>1, <2>2, <3>1, <3>2, <3>4, WriterStep
  <2> QED BY <2>3, <2>4
<1>8. CASE Unlocked(w)
  <2> DEFINE y == [writer[w] EXCEPT !.pc = "closed", !.closing = "no"]
  <2>1. /\ writer' = [writer EXCEPT ![w] = y] /\ lock' = NoWriter
        /\ writer[w].closing = "releasing"
    BY <1>1, <1>8 DEF Unlocked
  <2>2. /\ y \in WriterStates /\ y.pc = "closed" /\ y.active = writer[w].active
        /\ y.closed = writer[w].closed /\ y.closing = "no"
        /\ y.released = writer[w].released
    BY <1>1 DEF WriterStates
  <2> HIDE DEF y
  <2>3. writer[w].pc = "open" /\ writer[w].released /\ writer[w].active = 0 /\ lock = w
    BY <1>1, <2>1 DEF Lifecycle
  <2>4. Lifecycle(w)'
    BY <1>1, <2>1, <2>2, <2>3 DEF Lifecycle
  <2>5. \A v \in Writers \ {w} : writer[v].pc \notin {"opening", "open"}
    BY <2>3, OneHolder
  <2> QED BY <1>1, <1>3, <2>1, <2>2, <2>4, <2>5, WriterStep
<1>9. CASE UnlockFails(w)
  <2> DEFINE y == [writer[w] EXCEPT !.closing = "no"]
  <2>1. /\ writer' = [writer EXCEPT ![w] = y] /\ lock' = lock
        /\ writer[w].closing = "releasing"
    BY <1>1, <1>9 DEF UnlockFails
  <2>2. /\ y \in WriterStates /\ y.pc = writer[w].pc /\ y.active = writer[w].active
        /\ y.closed = writer[w].closed /\ y.closing = "no"
        /\ y.released = writer[w].released
    BY <1>1 DEF WriterStates
  <2> HIDE DEF y
  <2>3. writer[w].pc = "open"
    BY <1>1, <2>1 DEF Lifecycle
  <2>4. Lifecycle(w)'
    BY <1>1, <2>1, <2>2 DEF Lifecycle
  <2> QED BY <1>1, <1>3, <2>1, <2>2, <2>3, <2>4, WriterStep
<1> QED BY <1>4, <1>5, <1>6, <1>7, <1>8, <1>9

\* An abandoned call ends: one call and one slot less.
LEMMA AbandonedReturnsStep ==
  ASSUME TypeOK, IInv, NEW w \in Writers, AbandonedReturns(w)
  PROVE  TypeOK' /\ IInv'
<1> DEFINE n == Cardinality(SlotHolders(w))
           m == Cardinality(Awaiting(w))
<1>1. /\ physical[w] - m > 0 /\ writer' = Freed(w)
      /\ physical' = [physical EXCEPT ![w] = @ - 1]
      /\ UNCHANGED <<disk, lock, mem, run, priced, dispatched, faults>>
  <2>1. Awaiting(w) = {t \in Tasks : run[t].owner = w /\ run[t].pc = "working"}
    BY DEF Awaiting, Awaits
  <2> QED BY <2>1 DEF AbandonedReturns, Abandoned
<1>2. /\ IsFiniteSet(SlotHolders(w)) /\ IsFiniteSet(Awaiting(w))
      /\ writer[w].active = physical[w] + n /\ m <= physical[w]
      /\ writer[w].active <= Concurrency
  BY DEF IInv, Counted
<1>3. n \in Nat /\ m \in Nat
  BY <1>2, FS_CardinalityType
<1>4. physical[w] \in Nat /\ writer[w].active \in Nat /\ Concurrency \in Nat
  BY BudgetAssumption DEF TypeOK, WriterStates
<1>5. SlotHolders(w)' = SlotHolders(w) /\ Awaiting(w)' = Awaiting(w)
  BY <1>1 DEF SlotHolders, Awaiting, HasSlot, Awaits
<1>6. physical'[w] = physical[w] - 1
  BY <1>1 DEF TypeOK
<1> HIDE DEF n, m
<1>7. writer[w].active >= 1 /\ physical[w] >= 1 /\ m <= physical[w] - 1
  BY <1>1, <1>2, <1>3, <1>4
<1>8. /\ physical' \in [Writers -> Nat]
      /\ \A v \in Writers \ {w} : physical'[v] = physical[v]
  BY <1>1, <1>4, <1>7 DEF TypeOK
<1>9. SlotsMove(w) /\ writer'[w].active = writer[w].active - 1
  BY <1>1, <1>7, SlotFreed
<1>10. TypeOK'
  BY <1>1, <1>8, <1>9 DEF TypeOK, SlotsMove
<1>11. Counted(w)'
  <2>1. /\ writer'[w].active = physical'[w] + n /\ m <= physical'[w]
        /\ writer'[w].active <= Concurrency
    BY <1>2, <1>3, <1>4, <1>6, <1>7, <1>9
  <2> QED BY <1>2, <1>5, <2>1 DEF Counted, n, m
<1>12. ASSUME NEW v \in Writers PROVE Lifecycle(v)' /\ Ahead(v)' /\ Counted(v)'
  <2>1. Lifecycle(v) /\ Ahead(v) /\ Counted(v)
    BY DEF IInv
  <2>2. CASE v = w
    BY <1>1, <1>9, <1>11, <2>1, <2>2 DEF SlotsMove, Lifecycle, Ahead
  <2>3. CASE v # w
    <3>1. writer'[v] = writer[v] /\ physical'[v] = physical[v]
      BY <1>8, <1>9, <2>3 DEF SlotsMove
    <3>2. SlotHolders(v)' = SlotHolders(v) /\ Awaiting(v)' = Awaiting(v)
      BY <1>1 DEF SlotHolders, Awaiting, HasSlot, Awaits
    <3> QED BY <1>1, <2>1, <3>1, <3>2 DEF Lifecycle, Ahead, Counted
  <2> QED BY <2>2, <2>3
<1>13. ASSUME NEW t \in Tasks PROVE Owned(t)' /\ Paid(t)'
  <2>1. Owned(t) /\ Paid(t)
    BY DEF IInv
  <2>2. \A v \in Writers : writer'[v].pc = writer[v].pc
                           /\ writer'[v].released = writer[v].released
    BY <1>9 DEF SlotsMove
  <2>3. Owned(t)'
    BY <1>1, <2>1, <2>2 DEF Owned, Saving
  <2> QED BY <1>1, <2>1, <2>3 DEF Paid
<1> QED BY <1>10, <1>12, <1>13 DEF IInv

\* OpenRead: the memory of the new holder is the file.
LEMMA OpenReadStep ==
  ASSUME TypeOK, IInv, NEW w \in Writers, OpenRead(w)
  PROVE  TypeOK' /\ IInv'
<1> DEFINE y == [writer[w] EXCEPT !.pc = "open"]
<1>1. /\ writer[w].pc = "opening"
      /\ mem' = [mem EXCEPT ![w] = disk] /\ writer' = [writer EXCEPT ![w] = y]
      /\ UNCHANGED <<disk, lock, run, priced, physical, dispatched, faults>>
  BY DEF OpenRead, TypeOK
<1>2. writer[w] \in WriterStates /\ disk \in Ledgers /\ NoWriter \notin Writers
  BY BudgetAssumption DEF TypeOK
<1>3. /\ y \in WriterStates /\ y.pc = "open" /\ y.active = writer[w].active
      /\ y.closed = writer[w].closed /\ y.closing = writer[w].closing
      /\ y.released = writer[w].released
  BY <1>2 DEF WriterStates
<1> HIDE DEF y
<1>4. /\ writer'[w] = y /\ writer' \in [Writers -> WriterStates]
      /\ \A v \in Writers \ {w} : writer'[v] = writer[v] /\ mem'[v] = mem[v]
      /\ mem'[w] = disk /\ mem' \in [Writers -> Ledgers]
  BY <1>1, <1>2, <1>3 DEF TypeOK
<1>5. \A t \in Tasks : run[t].owner # w
  BY <1>1, NoneOwned
<1>6. TypeOK'
  BY <1>1, <1>4 DEF TypeOK
<1>7. ASSUME NEW v \in Writers PROVE Lifecycle(v)' /\ Counted(v)'
  <2>1. Lifecycle(v) /\ Counted(v)
    BY DEF IInv
  <2>2. SlotHolders(v)' = SlotHolders(v) /\ Awaiting(v)' = Awaiting(v)
    BY <1>1 DEF SlotHolders, Awaiting, HasSlot, Awaits
  <2>3. writer'[v].active = writer[v].active
    BY <1>3, <1>4
  <2>4. Lifecycle(v)'
    <3>1. CASE v = w
      BY <1>1, <1>3, <1>4, <2>1, <3>1 DEF Lifecycle
    <3>2. CASE v # w
      BY <1>1, <1>4, <2>1, <3>2 DEF Lifecycle
    <3> QED BY <3>1, <3>2
  <2> QED BY <1>1, <2>1, <2>2, <2>3, <2>4 DEF Counted
<1>8. ASSUME NEW v \in Writers PROVE Ahead(v)'
  <2>1. CASE v = w
    <3>1. \A u \in Known : disk[u] \in Entries \cup {NoRun}
      BY <1>2 DEF Ledgers
    <3>2. Extends(disk, disk)
      BY <3>1, GrowsReflexive, ExtendsGrows
    <3> QED BY <1>1, <1>4, <2>1, <3>2 DEF Ahead
  <2>2. CASE v # w
    BY <1>1, <1>4, <2>2 DEF Ahead, IInv
  <2> QED BY <2>1, <2>2
<1>9. ASSUME NEW t \in Tasks PROVE Owned(t)' /\ Paid(t)'
  <2>1. Owned(t) /\ Paid(t)
    BY DEF IInv
  <2>2. CASE run[t].pc = "idle"
    BY <1>1, <2>1, <2>2 DEF Owned, Paid, PaidFor, Saving
  <2>3. CASE run[t].pc # "idle"
    <3>1. /\ run[t].owner \in Writers \ {w}
      BY <1>5, <2>1, <2>3 DEF Owned
    <3>2. /\ writer'[run[t].owner] = writer[run[t].owner]
          /\ mem'[run[t].owner] = mem[run[t].owner]
      BY <1>4, <3>1
    <3> QED BY <1>1, <2>1, <3>2 DEF Owned, Paid
  <2> QED BY <2>2, <2>3
<1> QED BY <1>6, <1>7, <1>8, <1>9 DEF IInv

\* Crash: its executions and calls are gone, and a save in progress may be on file.
LEMMA CrashStep ==
  ASSUME TypeOK, IInv, NEW w \in Writers, Crash(w)
  PROVE  TypeOK' /\ IInv'
<1>1. /\ writer' = [writer EXCEPT ![w] = AbsentWriter]
      /\ mem' = [mem EXCEPT ![w] = EmptyLedger]
      /\ run' = [t \in Tasks |-> IF run[t].owner = w THEN IdleExecution ELSE run[t]]
      /\ physical' = [physical EXCEPT ![w] = 0]
      /\ UNCHANGED <<lock, priced, dispatched, faults>>
  BY DEF Crash
<1>2. disk' = disk \/ (disk' = mem[w] /\ writer[w].pc = "open" /\ lock = w)
  <2>1. SUFFICES ASSUME disk' # disk PROVE disk' = mem[w] /\ writer[w].pc = "open" /\ lock = w
    OBVIOUS
  <2>2. disk' \in {mem[w] : t \in {u \in Tasks : run[u].owner = w /\ run[u].pc \in Saving}}
    BY <2>1 DEF Crash
  <2>3. disk' = mem[w] /\ \E u \in Tasks : run[u].owner = w /\ run[u].pc \in Saving
    BY <2>2
  <2>4. PICK u \in Tasks : run[u].owner = w /\ run[u].pc \in Saving
    BY <2>3
  <2>5. Owned(u) /\ Lifecycle(w) /\ run[u].pc # "idle"
    BY <2>4 DEF IInv, Saving
  <2>6. writer[w].pc = "open"
    BY <2>4, <2>5 DEF Owned, Lifecycle
  <2> QED BY <2>3, <2>5, <2>6 DEF Lifecycle
<1>3. /\ IdleExecution \in Executions /\ IdleExecution.pc = "idle"
      /\ IdleExecution.owner = NoWriter /\ NoWriter \notin Writers
      /\ AbsentWriter \in WriterStates /\ AbsentWriter.pc = "absent"
      /\ AbsentWriter.active = 0 /\ AbsentWriter.closing = "no" /\ ~AbsentWriter.released
  BY IdleType, BudgetAssumption DEF IdleExecution, AbsentWriter
<1>4. EmptyLedger \in Ledgers
  BY DEF EmptyLedger, Ledgers
<1>5. /\ writer'[w] = AbsentWriter /\ physical'[w] = 0
      /\ \A v \in Writers \ {w} : /\ writer'[v] = writer[v] /\ mem'[v] = mem[v]
                                  /\ physical'[v] = physical[v]
      /\ \A t \in Tasks : run'[t] = IF run[t].owner = w THEN IdleExecution ELSE run[t]
  BY <1>1 DEF TypeOK
<1>6. TypeOK'
  <2>1. disk' \in Ledgers
    BY <1>2 DEF TypeOK
  <2>2. run' \in [Tasks -> Executions]
    BY <1>1, <1>3 DEF TypeOK
  <2>3. \A t \in Tasks : run'[t].pc # "idle" => run'[t].owner \in Writers
    BY <1>3, <1>5 DEF TypeOK
  <2>4. mem' \in [Writers -> Ledgers]
    BY <1>1, <1>4 DEF TypeOK
  <2>5. writer' \in [Writers -> WriterStates] /\ physical' \in [Writers -> Nat]
    BY <1>1, <1>3 DEF TypeOK
  <2> QED BY <1>1, <2>1, <2>2, <2>3, <2>4, <2>5 DEF TypeOK
<1>7. ASSUME NEW v \in Writers PROVE Lifecycle(v)' /\ Ahead(v)'
  <2>1. CASE v = w
    BY <1>3, <1>5, <2>1 DEF Lifecycle, Ahead
  <2>2. CASE v # w
    <3>1. Lifecycle(v) /\ Ahead(v)
      BY DEF IInv
    <3>2. writer[v].pc = "open" => disk' = disk
      BY <1>2, <2>2, <3>1 DEF Lifecycle
    <3> QED BY <1>1, <1>5, <2>2, <3>1, <3>2 DEF Lifecycle, Ahead
  <2> QED BY <2>1, <2>2
<1>8. ASSUME NEW v \in Writers PROVE Counted(v)'
  <2>1. CASE v = w
    <3>1. \A t \in Tasks : ~HasSlot(run'[t], w) /\ ~Awaits(run'[t], w)
      BY <1>3, <1>5 DEF HasSlot, Awaits
    <3>2. SlotHolders(w)' = {} /\ Awaiting(w)' = {}
      BY <3>1 DEF SlotHolders, Awaiting, HasSlot, Awaits
    <3>3. IsFiniteSet({}) /\ Cardinality({}) = 0 /\ Concurrency \in Nat
      BY FS_EmptySet, BudgetAssumption
    <3> QED BY <1>3, <1>5, <2>1, <3>2, <3>3 DEF Counted
  <2>2. CASE v # w
    <3>1. \A t \in Tasks : /\ HasSlot(run'[t], v) <=> HasSlot(run[t], v)
                           /\ Awaits(run'[t], v) <=> Awaits(run[t], v)
      BY <1>3, <1>5, <2>2 DEF HasSlot, Awaits
    <3>2. SlotHolders(v)' = SlotHolders(v) /\ Awaiting(v)' = Awaiting(v)
      BY <3>1 DEF SlotHolders, Awaiting, HasSlot, Awaits
    <3>3. writer'[v] = writer[v] /\ physical'[v] = physical[v] /\ Counted(v)
      BY <1>5, <2>2 DEF IInv
    <3> QED BY <3>2, <3>3 DEF Counted
  <2> QED BY <2>1, <2>2
<1>9. ASSUME NEW t \in Tasks PROVE Owned(t)' /\ Paid(t)'
  <2>1. /\ Owned(t) /\ Paid(t) /\ t \in Known /\ run[t] \in Executions
        /\ dispatched[t] \in Nat
    BY DEF IInv, TypeOK, Known
  <2>2. /\ disk[t] \in Entries \cup {NoRun} /\ disk'[t] \in Entries \cup {NoRun}
        /\ Grows(disk'[t], disk[t])
    <3>1. /\ disk[t] \in Entries \cup {NoRun} /\ mem[w][t] \in Entries \cup {NoRun}
      BY <2>1 DEF TypeOK, Ledgers
    <3>2. CASE disk' = disk
      BY <3>1, <3>2, GrowsReflexive
    <3>3. CASE disk' = mem[w] /\ writer[w].pc = "open"
      BY <2>1, <3>1, <3>3, AheadOf DEF IInv
    <3> QED BY <1>2, <3>2, <3>3
  <2>3. ASSUME run[t].owner = w \/ run[t].pc = "idle"
        PROVE  Owned(t)' /\ Paid(t)'
    <3>1. run'[t].pc = "idle" /\ run'[t].owner = NoWriter /\ run'[t] \in Executions
      BY <1>3, <1>5, <2>1, <2>3 DEF Owned
    <3>2. PaidFor(IdleExecution, mem'[NoWriter][t], disk[t], dispatched[t])
      BY <1>3, <2>1 DEF Paid, PaidFor
    <3>3. PaidFor(IdleExecution, mem'[NoWriter][t], disk'[t], dispatched[t])
      BY <1>3, <2>1, <2>2, <3>2, PaidKept
    <3>4. Paid(t)'
      BY <1>1, <1>3, <3>1, <3>3 DEF Paid, PaidFor
    <3> QED BY <3>1, <3>4 DEF Owned, Saving
  <2>4. ASSUME run[t].owner # w, run[t].pc # "idle"
        PROVE  Owned(t)' /\ Paid(t)'
    <3> DEFINE v == run[t].owner
    <3>1. v \in Writers /\ run'[t] = run[t] /\ writer'[v] = writer[v] /\ mem'[v] = mem[v]
      BY <1>5, <2>1, <2>4 DEF Owned
    <3>2. Owned(t)'
      BY <2>1, <3>1 DEF Owned
    <3>3. run[t].pc \in {"invoke", "working"} => disk' = disk
      BY <1>2, <2>4, SlotHoldsLock
    <3>4. run[t].pc \in {"invoke", "working"} => disk[t] = mem[v][t]
      BY <2>1 DEF Paid, PaidFor
    <3>5. PaidFor(run[t], mem[v][t], disk[t], dispatched[t])
      BY <2>1 DEF Paid
    <3> HIDE DEF v
    <3>6. PaidFor(run[t], mem[v][t], disk'[t], dispatched[t])
      BY <2>1, <2>2, <3>3, <3>4, <3>5, PaidKept
    <3> QED BY <1>1, <3>1, <3>2, <3>6 DEF Paid, v
  <2> QED BY <2>3, <2>4
<1> QED BY <1>6, <1>7, <1>8, <1>9 DEF IInv

\* Reconcile, PricingExpires, and a step that changes nothing.
LEMMA ClockStep ==
  ASSUME TypeOK, IInv, Reconcile \/ PricingExpires \/ UNCHANGED vars
  PROVE  TypeOK' /\ IInv'
<1>1. /\ UNCHANGED <<disk, mem, writer, run, physical, dispatched, faults>>
      /\ priced' \in BOOLEAN
      /\ lock' = lock \/ (lock' = NoWriter /\ lock # NoWriter /\ writer[lock].pc = "absent")
  BY DEF Reconcile, PricingExpires, vars, TypeOK
<1>2. TypeOK'
  BY <1>1 DEF TypeOK
<1>3. ASSUME NEW w \in Writers PROVE Lifecycle(w)' /\ Ahead(w)' /\ Counted(w)'
  <2>1. Lifecycle(w) /\ Ahead(w) /\ Counted(w)
    BY DEF IInv
  <2>2. SlotHolders(w)' = SlotHolders(w) /\ Awaiting(w)' = Awaiting(w)
    BY <1>1 DEF SlotHolders, Awaiting, HasSlot, Awaits
  <2> QED BY <1>1, <2>1, <2>2 DEF Lifecycle, Ahead, Counted
<1>4. ASSUME NEW t \in Tasks PROVE Owned(t)' /\ Paid(t)'
  BY <1>1 DEF IInv, Owned, Paid
<1> QED BY <1>2, <1>3, <1>4 DEF IInv

--------------------------------------------------------------------------------
(* The ledger that earlier sessions leave.                                 *)

\* The purposes of a run that spent every attempt.
LEMMA SpendingType ==
  Spending \in Seq(Purposes) /\ Len(Spending) = Attempts
<1> DEFINE s == [i \in 1..WorkLimit |-> "work"]
<1>1. WorkLimit \in Nat
  BY BudgetAssumption
<1>2. "work" \in Purposes /\ "cancel" \in Purposes /\ "delete" \in Purposes
  BY DEF Purposes, Cleanups
<1> HIDE DEF Purposes
<1>3. s \in Seq(Purposes) /\ Len(s) = WorkLimit
  BY <1>1, <1>2
<1> HIDE DEF s
<1>4. Append(s, "cancel") \in Seq(Purposes) /\ Len(Append(s, "cancel")) = WorkLimit + 1
  BY <1>2, <1>3, AppendProperties
<1>5. <<"delete">> \in Seq(Purposes) /\ Len(<<"delete">>) = 1
  BY <1>2
<1>6. /\ Append(s, "cancel") \o <<"delete">> \in Seq(Purposes)
      /\ Len(Append(s, "cancel") \o <<"delete">>) = (WorkLimit + 1) + 1
  BY <1>4, <1>5, ConcatProperties
<1> QED BY <1>1, <1>6 DEF Spending, Attempts, s

\* What such a session leaves is a ledger.
LEMMA InheritedType == InheritedLedgers \subseteq Ledgers
<1>1. ASSUME NEW n \in 0..Attempts PROVE Finished(n) \in Entries
  <2>1. Attempts \in Nat
    BY BudgetAssumption DEF Attempts
  <2>2. n \in Nat /\ \A i \in 1..n : Spending[i] \in Purposes
    BY <2>1, SpendingType
  <2> DEFINE a == [i \in 1..n |-> [purpose |-> Spending[i], outcome |-> "settled"]]
             S == [purpose : Purposes, outcome : {"reserved", "settled"}]
  <2>3. a \in [1..n -> S]
    BY <2>2
  <2> HIDE DEF a, S
  <2>4. a \in Seq(S)
    BY <2>2, <2>3
  <2> QED BY <2>4 DEF Finished, Entries, a, S
<1>2. SUFFICES ASSUME NEW spent \in [Earlier -> 0..Attempts]
               PROVE  [t \in Known |-> IF t \in Earlier THEN Finished(spent[t]) ELSE NoRun]
                        \in Ledgers
  BY DEF InheritedLedgers
<1>3. \A t \in Earlier : Finished(spent[t]) \in Entries
  BY <1>1
<1> QED BY <1>3 DEF Ledgers

\* The initial states are well typed and satisfy the invariant.
LEMMA InitIInv ==
  ASSUME Init
  PROVE  TypeOK /\ IInv
<1>1. /\ IdleExecution \in Executions /\ IdleExecution.pc = "idle"
      /\ IdleExecution.owner = NoWriter
      /\ AbsentWriter \in WriterStates /\ AbsentWriter.pc = "absent"
      /\ AbsentWriter.active = 0 /\ AbsentWriter.closing = "no" /\ ~AbsentWriter.released
  BY IdleType DEF IdleExecution, AbsentWriter
<1>2. EmptyLedger \in Ledgers
  BY DEF EmptyLedger, Ledgers
<1>3. /\ disk \in InheritedLedgers /\ lock = NoWriter
      /\ mem = [w \in Writers |-> EmptyLedger]
      /\ writer = [w \in Writers |-> AbsentWriter]
      /\ run = [t \in Tasks |-> IdleExecution]
      /\ priced = TRUE /\ physical = [w \in Writers |-> 0]
      /\ dispatched = [t \in Tasks |-> 0] /\ faults = 0
  BY DEF Init
<1>4. TypeOK
  <2>1. disk \in Ledgers /\ mem \in [Writers -> Ledgers]
    BY <1>2, <1>3, InheritedType
  <2>2. writer \in [Writers -> WriterStates] /\ run \in [Tasks -> Executions]
    BY <1>1, <1>3
  <2>3. \A t \in Tasks : run[t].pc = "idle"
    BY <1>1, <1>3
  <2> QED BY <1>3, <2>1, <2>2, <2>3 DEF TypeOK
<1>5. ASSUME NEW w \in Writers PROVE Lifecycle(w) /\ Ahead(w) /\ Counted(w)
  <2>1. writer[w] = AbsentWriter /\ physical[w] = 0
    BY <1>3
  <2>2. \A t \in Tasks : ~HasSlot(run[t], w) /\ ~Awaits(run[t], w)
    BY <1>1, <1>3 DEF HasSlot, Awaits
  <2>3. SlotHolders(w) = {} /\ Awaiting(w) = {}
    BY <2>2 DEF SlotHolders, Awaiting
  <2>4. IsFiniteSet({}) /\ Cardinality({}) = 0 /\ Concurrency \in Nat
    BY FS_EmptySet, BudgetAssumption
  <2> QED BY <1>1, <2>1, <2>3, <2>4 DEF Lifecycle, Ahead, Counted
<1>6. ASSUME NEW t \in Tasks PROVE Owned(t) /\ Paid(t)
  <2>1. run[t] = IdleExecution /\ dispatched[t] = 0
    BY <1>3
  <2> QED BY <1>1, <2>1 DEF Owned, Paid, PaidFor, Saving
<1> QED BY <1>4, <1>5, <1>6 DEF IInv

(* The theorems.                                                           *)

\* A step of one execution preserves the invariant.
LEMMA ExecutionsStep ==
  ASSUME TypeOK, IInv, NEW t \in Tasks,
         \/ Progress(t) \/ PhysicalReturns(t) \/ SaveFails(t)
         \/ DispatchTimesOut(t) \/ RunCancelled(t) \/ RunLate(t)
  PROVE  TypeOK' /\ IInv'
<1>1. run[t].pc # "idle"
  BY DEF Progress, Begin, Acquire, AcquireRefused, Reserve, Charge, Invoke, Abandon, Settle,
         Finish, Saved, PhysicalReturns, SaveFails, DispatchTimesOut, RunCancelled, RunLate,
         Dispatching, Saving
<1>2. PICK w \in Writers : run[t].owner = w
  BY <1>1 DEF TypeOK
<1>3. CASE Begin(t)
  BY <1>2, <1>3, BeginStep
<1>4. CASE Acquire(t)
  BY <1>2, <1>4, AcquireStep
<1>5. CASE AcquireRefused(t)
  BY <1>2, <1>5, AcquireRefusedStep
<1>6. CASE Reserve(t)
  BY <1>2, <1>6, ReserveStep
<1>7. CASE Invoke(t)
  BY <1>2, <1>7, InvokeStep
<1>8. CASE Abandon(t)
  BY <1>2, <1>8, AbandonStep
<1>9. CASE Settle(t)
  BY <1>2, <1>9, SettleStep
<1>10. CASE Finish(t)
  BY <1>2, <1>10, FinishStep
<1>11. CASE Saved(t)
  BY <1>2, <1>11, SavedStep
<1>12. CASE PhysicalReturns(t)
  BY <1>2, <1>12, PhysicalReturnsStep
<1>13. CASE SaveFails(t)
  BY <1>2, <1>13, SaveFailsStep
<1>14. CASE DispatchTimesOut(t) \/ RunCancelled(t) \/ RunLate(t)
  BY <1>2, <1>14, TimersStep
<1> QED
  BY <1>3, <1>4, <1>5, <1>6, <1>7, <1>8, <1>9, <1>10, <1>11, <1>12, <1>13, <1>14 DEF Progress

\* So does every step.
LEMMA NextIInv ==
  ASSUME TypeOK, IInv, [Next]_vars
  PROVE  TypeOK' /\ IInv'
<1>1. ASSUME NEW t \in Tasks,
             \/ Progress(t) \/ PhysicalReturns(t) \/ SaveFails(t)
             \/ DispatchTimesOut(t) \/ RunCancelled(t) \/ RunLate(t)
      PROVE  TypeOK' /\ IInv'
  BY <1>1, ExecutionsStep
<1>2. ASSUME NEW t \in Tasks, NEW w \in Writers, Execute(t, w)
      PROVE  TypeOK' /\ IInv'
  BY <1>2, ExecuteStep
<1>3. ASSUME NEW w \in Writers,
             \/ OpenLock(w) \/ OpenFails(w) \/ Close(w) \/ ReleaseProgress(w)
             \/ UnlockFails(w)
      PROVE  TypeOK' /\ IInv'
  BY <1>3, LockStep DEF ReleaseProgress
<1>4. ASSUME NEW w \in Writers, OpenRead(w) PROVE TypeOK' /\ IInv'
  BY <1>4, OpenReadStep
<1>5. ASSUME NEW w \in Writers, AbandonedReturns(w) PROVE TypeOK' /\ IInv'
  BY <1>5, AbandonedReturnsStep
<1>6. ASSUME NEW w \in Writers, Crash(w) PROVE TypeOK' /\ IInv'
  BY <1>6, CrashStep
<1>7. ASSUME PricingExpires \/ Reconcile \/ UNCHANGED vars PROVE TypeOK' /\ IInv'
  BY <1>7, ClockStep
<1> QED BY <1>1, <1>2, <1>3, <1>4, <1>5, <1>6, <1>7 DEF Next

\* The ledger directory is well typed and consistent, over any sequence of writers,
\* crashes and failed saves: memory is never behind the file, a writer that may still
\* change its ledger holds the lock, slots are counted, and calls are paid for.
THEOREM Invariance == Spec => [](TypeOK /\ IInv)
<1>1. Init => TypeOK /\ IInv
  BY InitIInv
<1>2. TypeOK /\ IInv /\ [Next]_vars => TypeOK' /\ IInv'
  BY NextIInv
<1> QED BY <1>1, <1>2, PTL DEF Spec

\* Every variable keeps its type.
THEOREM TypeCorrect == Spec => []TypeOK
BY Invariance, PTL

\* No provider is called before the attempt is on file (live-answers: "unknown prices are
\* not assumed free"): a crash between the reservation and the call, or a save that
\* failed, never leaves a call that the file does not account for.
THEOREM ReservedBeforeDispatchHolds == Spec => []ReservedBeforeDispatch
<1>1. TypeOK /\ IInv => ReservedBeforeDispatch
  <2>1. SUFFICES ASSUME TypeOK, IInv, NEW t \in Tasks
                 PROVE  /\ dispatched[t] > 0 =>
                             disk[t] # NoRun /\ dispatched[t] <= Len(disk[t].attempts)
                        /\ run[t].pc = "working" =>
                             disk[t].attempts[Len(disk[t].attempts)] =
                               [purpose |-> run[t].next, outcome |-> "reserved"]
    BY DEF ReservedBeforeDispatch
  <2>2. PaidFor(run[t], mem[run[t].owner][t], disk[t], dispatched[t])
    BY <2>1 DEF IInv, Paid
  <2> QED BY <2>2 DEF PaidFor
<1> QED BY <1>1, Invariance, PTL

\* Calls in flight are those of the holder of the lock, and not more than the account's
\* slots, whatever is abandoned, closed or crashed.
THEOREM SharedSlotsHold == Spec => []SharedSlots
<1>1. TypeOK /\ IInv => SharedSlots
  <2>1. SUFFICES ASSUME TypeOK, IInv, NEW w \in Writers, physical[w] > 0
                 PROVE  lock = w /\ physical[w] <= Concurrency
    BY DEF SharedSlots
  <2>2. Lifecycle(w) /\ Counted(w)
    BY <2>1 DEF IInv
  <2>3. /\ physical[w] \in Nat /\ Concurrency \in Nat
        /\ Cardinality(SlotHolders(w)) \in Nat
    BY <2>1, <2>2, FS_CardinalityType, BudgetAssumption DEF TypeOK, Counted
  <2>4. writer[w].active > 0 /\ physical[w] <= Concurrency
    BY <2>1, <2>2, <2>3 DEF Counted
  <2>5. writer[w].pc = "open"
    BY <2>2, <2>4 DEF Lifecycle
  <2> QED BY <2>2, <2>4, <2>5 DEF Lifecycle
<1> QED BY <1>1, Invariance, PTL

\* The step by which the file changes is a save of the holder of the lock, whose memory
\* extends what the file held.
LEMMA FileStep ==
  ASSUME TypeOK, IInv, [Next]_vars, disk' # disk
  PROVE  lock # NoWriter /\ disk' = mem[lock] /\ Extends(disk', disk)
<1>1. ASSUME NEW w \in Writers, NEW t \in Tasks, run[t].owner = w, run[t].pc \in Saving,
             disk' = mem[w]
      PROVE  lock # NoWriter /\ disk' = mem[lock] /\ Extends(disk', disk)
  <2>1. Owned(t) /\ Lifecycle(w) /\ Ahead(w) /\ run[t].pc # "idle"
    BY <1>1 DEF IInv, Saving
  <2>2. writer[w].pc = "open"
    BY <1>1, <2>1 DEF Owned, Lifecycle
  <2> QED BY <1>1, <2>1, <2>2, BudgetAssumption DEF Lifecycle, Ahead
<1>2. \/ \E t \in Tasks : Saved(t) \/ SaveFails(t)
      \/ \E w \in Writers : Crash(w)
  BY DEF Next, vars, Progress, Begin, Acquire, AcquireRefused, Reserve, Charge, Invoke,
         Abandon, Settle, Finish, PhysicalReturns, DispatchTimesOut, RunCancelled, RunLate,
         Execute, OpenLock, OpenRead, OpenFails, AbandonedReturns, Close, ReleaseProgress,
         CloseServed, ServeClose, Unlocked, UnlockFails, PricingExpires, Reconcile
<1>3. ASSUME NEW t \in Tasks, Saved(t) \/ SaveFails(t)
      PROVE  lock # NoWriter /\ disk' = mem[lock] /\ Extends(disk', disk)
  <2>1. run[t].pc \in Saving /\ disk' = mem[run[t].owner]
    BY <1>3 DEF Saved, SaveFails
  <2>2. run[t].owner \in Writers
    BY <2>1 DEF TypeOK, Saving
  <2> QED BY <1>1, <2>1, <2>2
<1>4. ASSUME NEW w \in Writers, Crash(w)
      PROVE  lock # NoWriter /\ disk' = mem[lock] /\ Extends(disk', disk)
  <2>1. disk' = mem[w] /\ \E u \in Tasks : run[u].owner = w /\ run[u].pc \in Saving
    BY <1>4 DEF Crash
  <2> QED BY <1>1, <2>1
<1> QED BY <1>2, <1>3, <1>4

\* The file is changed by the holder of the lock only, to what its memory is, and it
\* forgets no run, no closing and no attempt.
THEOREM LedgerNeverForgetsHolds == Spec => LedgerNeverForgets
<1>1. TypeOK /\ IInv /\ [Next]_vars =>
        [disk' # disk => lock # NoWriter /\ disk' = mem[lock] /\ Extends(disk', disk)]_vars
  BY FileStep
<1> QED BY <1>1, Invariance, PTL DEF Spec, LedgerNeverForgets

--------------------------------------------------------------------------------
(* Sums.                                                                   *)

\* A sum of naturals is a number of units: f[x] of them at each x.
Units(f, S) == UNION {{x} \X (1..f[x]) : x \in S}

\* The units at one place are as many as its summand, and elsewhere they are others.
LEMMA UnitsAt ==
  ASSUME NEW S, IsFiniteSet(S), NEW f, \A x \in S : f[x] \in Nat
  PROVE  /\ IsFiniteSet(Units(f, S)) /\ Cardinality(Units(f, S)) \in Nat
         /\ \A x \in S : Cardinality(Units(f, S)) = f[x] + Cardinality(Units(f, S \ {x}))
<1>1. ASSUME NEW x \in S
      PROVE  IsFiniteSet({x} \X (1..f[x])) /\ Cardinality({x} \X (1..f[x])) = f[x]
  <2>1. IsFiniteSet(1..f[x]) /\ Cardinality(1..f[x]) = f[x]
    BY FS_Interval
  <2>2. IsFiniteSet({x}) /\ Cardinality({x}) = 1
    BY FS_Singleton
  <2>3. /\ IsFiniteSet({x} \X (1..f[x]))
        /\ Cardinality({x} \X (1..f[x])) = Cardinality({x}) * Cardinality(1..f[x])
    BY <2>1, <2>2, FS_Product
  <2> QED BY <2>1, <2>2, <2>3
<1>2. ASSUME NEW T \in SUBSET S PROVE IsFiniteSet(Units(f, T))
  <2>1. IsFiniteSet(T)
    BY FS_Subset
  <2>2. IsFiniteSet({{x} \X (1..f[x]) : x \in T})
    <3> DEFINE at == [x \in T |-> {x} \X (1..f[x])]
    <3>1. {{x} \X (1..f[x]) : x \in T} = {at[x] : x \in T}
      OBVIOUS
    <3>2. at \in Surjection(T, {at[x] : x \in T})
      BY Zenon DEF Surjection
    <3> HIDE DEF at
    <3>3. IsFiniteSet({at[x] : x \in T})
      BY <2>1, <3>2, FS_Surjection
    <3> QED BY <3>1, <3>3
  <2> DEFINE P == {{x} \X (1..f[x]) : x \in T}
  <2>3. \A A \in P : IsFiniteSet(A)
    BY <1>1
  <2>4. IsFiniteSet(P)
    BY <2>2
  <2> HIDE DEF P
  <2>5. IsFiniteSet(UNION P)
    BY <2>3, <2>4, FS_UNION
  <2> QED BY <2>5 DEF Units, P
<1>3. ASSUME NEW x \in S
      PROVE  Cardinality(Units(f, S)) = f[x] + Cardinality(Units(f, S \ {x}))
  <2> DEFINE A == {x} \X (1..f[x])
             B == Units(f, S \ {x})
  <2>1. A \cap B = {}
    BY DEF Units
  <2>2. Units(f, S) = A \cup B
    BY DEF Units
  <2>3. IsFiniteSet(A) /\ Cardinality(A) = f[x] /\ IsFiniteSet(B)
    BY <1>1, <1>2
  <2> HIDE DEF A, B
  <2>4. IsFiniteSet({}) /\ Cardinality({}) = 0
    BY FS_EmptySet
  <2>5. Cardinality(A \cup B) = Cardinality(A) + Cardinality(B) - Cardinality(A \cap B)
    BY <2>3, FS_Union
  <2>6. Cardinality(B) \in Nat
    BY <2>3, FS_CardinalityType
  <2>7. Cardinality(A \cap B) = 0
    BY <2>1, <2>4
  <2>8. Cardinality(A \cup B) = f[x] + Cardinality(B)
    BY <2>3, <2>5, <2>6, <2>7
  <2> QED BY <2>2, <2>8 DEF B
<1>4. IsFiniteSet(Units(f, S))
  BY <1>2
<1>5. Cardinality(Units(f, S)) \in Nat
  BY <1>4, FS_CardinalityType
<1> QED BY <1>3, <1>4, <1>5

\* What SumFunction computes, and whatever satisfies its equation.
Summing(f, S, g) ==
  g = [s \in SUBSET S |->
         IF s = {} THEN 0
         ELSE f[CHOOSE x \in s : TRUE] + g[s \ {CHOOSE x \in s : TRUE}]]

\* The sum of a function is the value of such a g.
LEMMA SumIsSumming ==
  ASSUME NEW f
  PROVE  SumFunction(f) = (CHOOSE g : Summing(f, DOMAIN f, g))[DOMAIN f]
BY DEF SumFunction, SumFunctionOnSet, FoldFunctionOnSet, MapThenFoldSet, Summing

\* A sum of naturals over a finite set is the number of its units.
LEMMA SumCounts ==
  ASSUME NEW S, IsFiniteSet(S), NEW f \in [S -> Nat]
  PROVE  SumFunction(f) = Cardinality(Units(f, S))
<1> DEFINE N(s) == Cardinality(Units(f, s))
           c == [s \in SUBSET S |-> N(s)]
           pick(s) == CHOOSE x \in s : TRUE
<1>1. \A s \in SUBSET S : s # {} => /\ pick(s) \in s /\ s \ {pick(s)} \in SUBSET S
                                    /\ N(s) = f[pick(s)] + N(s \ {pick(s)})
  <2>1. SUFFICES ASSUME NEW s \in SUBSET S, s # {}
                 PROVE  /\ pick(s) \in s /\ s \ {pick(s)} \in SUBSET S
                        /\ N(s) = f[pick(s)] + N(s \ {pick(s)})
    OBVIOUS
  <2>2. pick(s) \in s
    BY <2>1
  <2>3. IsFiniteSet(s) /\ \A x \in s : f[x] \in Nat
    BY FS_Subset
  <2> HIDE DEF pick
  <2> QED BY <2>2, <2>3, UnitsAt
<1>2. N({}) = 0
  <2>1. Units(f, {}) = {}
    BY DEF Units
  <2> QED BY <2>1, FS_EmptySet
<1> HIDE DEF N
<1>3. Summing(f, S, c)
  <2>1. \A s \in SUBSET S : c[s] = IF s = {} THEN 0 ELSE f[pick(s)] + c[s \ {pick(s)}]
    BY <1>1, <1>2
  <2> HIDE DEF c, pick
  <2>2. c = [s \in SUBSET S |-> c[s]]
    BY DEF c
  <2>3. c = [s \in SUBSET S |-> IF s = {} THEN 0 ELSE f[pick(s)] + c[s \ {pick(s)}]]
    BY <2>1, <2>2
  <2> QED BY <2>3 DEF Summing, pick
<1> DEFINE g == CHOOSE h : Summing(f, S, h)
<1>4. Summing(f, S, g)
  BY <1>3
<1> HIDE DEF g
<1>5. \A s \in SUBSET S : g[s] = IF s = {} THEN 0 ELSE f[pick(s)] + g[s \ {pick(s)}]
  BY <1>4 DEF Summing
<1> DEFINE T == {s \in SUBSET S : g[s] # N(s)}
<1>6. T = {}
  <2>1. SUFFICES ASSUME T # {} PROVE FALSE
    OBVIOUS
  <2>2. T \subseteq SUBSET S
    OBVIOUS
  <2> HIDE DEF T
  <2>3. PICK s \in T : \A r \in T : r \subseteq s => r = s
    <3>1. IsWellFoundedOn(StrictSubsetOrdering(S), FiniteSubsetsOf(S))
      BY FS_StrictSubsetOrderingWellFounded
    <3>2. FiniteSubsetsOf(S) = SUBSET S
      BY FS_FiniteSubsetsOfFinite
    <3>3. PICK s \in T : \A r \in T : ~ (<<r, s>> \in StrictSubsetOrdering(S))
      BY <2>1, <2>2, <3>1, <3>2, WFMin
    <3> QED BY <2>2, <3>3 DEF StrictSubsetOrdering
  <2>4. s \in SUBSET S /\ g[s] # N(s)
    BY DEF T
  <2>5. s # {}
    BY <1>2, <1>5, <2>4
  <2> DEFINE r == s \ {pick(s)}
  <2>6. r \in SUBSET S /\ r \subseteq s /\ r # s
    BY <1>1, <2>4, <2>5
  <2>7. r \notin T
    BY <2>3, <2>6
  <2>8. g[r] = N(r)
    BY <2>6, <2>7 DEF T
  <2>9. g[s] = f[pick(s)] + g[r] /\ N(s) = f[pick(s)] + N(r)
    BY <1>1, <1>5, <2>4, <2>5
  <2> QED BY <2>4, <2>8, <2>9
<1>7. g[S] = N(S)
  BY <1>6
<1>8. SumFunction(f) = g[S]
  BY SumIsSumming DEF g
<1> QED BY <1>7, <1>8 DEF N

--------------------------------------------------------------------------------
(* What a ledger costs.                                                    *)

AttemptsOf == [purpose : Purposes, outcome : {"reserved", "settled"}]
Highest == Max({Price[p] : p \in Purposes})

\* No purpose costs more than the highest price, ten times which is the hold.
LEMMA HighestPrice ==
  /\ Highest \in Nat /\ Attempts \in Nat /\ Hold = Attempts * Highest /\ Hold \in Nat
  /\ \A p \in Purposes : Price[p] \in Nat /\ Price[p] <= Highest
<1>1. \A p \in Purposes : Price[p] \in Nat
  BY BudgetAssumption
<1>2. Purposes = {"work", "cancel", "delete"}
  BY DEF Purposes, Cleanups
<1>3. \E x \in {Price[p] : p \in Purposes} : \A y \in {Price[p] : p \in Purposes} : x >= y
  <2> DEFINE a == Price["work"]
             b == Price["cancel"]
             c == Price["delete"]
  <2>1. a \in Nat /\ b \in Nat /\ c \in Nat
    BY <1>1, <1>2
  <2>2. {Price[p] : p \in Purposes} = {a, b, c}
    BY <1>2
  <2> HIDE DEF a, b, c
  <2>3. \E x \in {a, b, c} : \A y \in {a, b, c} : x >= y
    <3>1. CASE a >= b /\ a >= c
      BY <2>1, <3>1
    <3>2. CASE b >= a /\ b >= c
      BY <2>1, <3>2
    <3>3. CASE c >= a /\ c >= b
      BY <2>1, <3>3
    <3> QED BY <2>1, <3>1, <3>2, <3>3
  <2> QED BY <2>2, <2>3
<1>4. /\ Highest \in {Price[p] : p \in Purposes}
      /\ \A y \in {Price[p] : p \in Purposes} : Highest >= y
  BY <1>3 DEF Highest, Max
<1>5. Highest \in Nat /\ \A p \in Purposes : Price[p] <= Highest
  BY <1>1, <1>4
<1>6. Attempts \in Nat
  BY BudgetAssumption DEF Attempts
<1>7. Hold = Attempts * Highest
  BY DEF Hold, Highest
<1> HIDE DEF Highest
<1>8. Attempts * Highest \in Nat
  BY <1>5, <1>6
<1> QED BY <1>1, <1>5, <1>6, <1>7, <1>8

\* What attempts cost is a natural, within the hold of a run for as many as a run has.
LEMMA CostType ==
  ASSUME NEW a \in Seq(AttemptsOf)
  PROVE  /\ Cost(a) \in Nat
         /\ Len(a) <= Attempts => Cost(a) <= Hold
<1> DEFINE n == Len(a)
           f == [i \in 1..n |-> Price[a[i].purpose]]
<1>1. n \in Nat /\ DOMAIN a = 1..n /\ \A i \in 1..n : a[i].purpose \in Purposes
  <2>1. n \in Nat /\ DOMAIN a = 1..n /\ \A i \in 1..n : a[i] \in AttemptsOf
    OBVIOUS
  <2> QED BY <2>1 DEF AttemptsOf
<1>2. f \in [1..n -> Nat] /\ \A i \in 1..n : f[i] \in Nat /\ f[i] <= Highest
  BY <1>1, HighestPrice
<1>3. IsFiniteSet(1..n)
  BY <1>1, FS_Interval
<1>4. Cost(a) = SumFunction(f)
  BY <1>1 DEF Cost
<1> HIDE DEF f, n
<1>5. Cost(a) = Cardinality(Units(f, 1..n))
  BY <1>2, <1>3, <1>4, SumCounts
<1>6. Cost(a) \in Nat
  BY <1>2, <1>3, <1>5, UnitsAt
<1>7. ASSUME n <= Attempts PROVE Cost(a) <= Hold
  <2> DEFINE R == (1..Attempts) \X (1..Highest)
  <2>1. Units(f, 1..n) \subseteq R
    BY <1>1, <1>2, <1>7, HighestPrice DEF Units
  <2>2. IsFiniteSet(1..Attempts) /\ Cardinality(1..Attempts) = Attempts
    BY HighestPrice, FS_Interval
  <2>3. IsFiniteSet(1..Highest) /\ Cardinality(1..Highest) = Highest
    BY HighestPrice, FS_Interval
  <2>4. /\ IsFiniteSet(R)
        /\ Cardinality(R) = Cardinality(1..Attempts) * Cardinality(1..Highest)
    BY <2>2, <2>3, FS_Product
  <2> HIDE DEF R
  <2>5. Cardinality(R) = Hold
    BY <2>2, <2>3, <2>4, HighestPrice
  <2>6. Cardinality(Units(f, 1..n)) <= Cardinality(R)
    BY <2>1, <2>4, FS_Subset
  <2> QED BY <1>5, <2>5, <2>6
<1> QED BY <1>6, <1>7 DEF n

\* One more attempt costs its price.
LEMMA CostOfOneMore ==
  ASSUME NEW a \in Seq(AttemptsOf), NEW x \in AttemptsOf
  PROVE  Cost(Append(a, x)) = Cost(a) + Price[x.purpose]
<1> DEFINE n == Len(a)
           b == Append(a, x)
           f == [i \in 1..n |-> Price[a[i].purpose]]
           g == [i \in 1..n+1 |-> Price[b[i].purpose]]
<1>1. /\ n \in Nat /\ DOMAIN a = 1..n /\ DOMAIN b = 1..n+1
      /\ \A i \in 1..n : b[i] = a[i] /\ a[i] \in AttemptsOf
      /\ b[n+1] = x
  <2>1. b \in Seq(AttemptsOf) /\ Len(b) = n + 1
    BY AppendProperties
  <2>2. n \in Nat /\ DOMAIN a = 1..n /\ DOMAIN b = 1..n+1
    BY <2>1
  <2> QED BY <2>2, AppendProperties
<1>2. Cost(a) = SumFunction(f) /\ Cost(b) = SumFunction(g)
  BY <1>1 DEF Cost
<1> HIDE DEF b
<1>3. /\ \A i \in 1..n : f[i] \in Nat /\ g[i] = f[i]
      /\ g[n+1] = Price[x.purpose] /\ Price[x.purpose] \in Nat
  BY <1>1, HighestPrice DEF AttemptsOf
<1>4. f \in [1..n -> Nat]
  BY <1>3
<1>5. g \in [1..n+1 -> Nat]
  <2>1. \A i \in 1..n+1 : i \in 1..n \/ i = n+1
    BY <1>1
  <2>2. \A i \in 1..n+1 : g[i] \in Nat
    BY <1>3, <2>1
  <2> QED BY <2>2
<1>6. IsFiniteSet(1..n) /\ IsFiniteSet(1..n+1)
  BY <1>1, FS_Interval
<1>7. (1..n+1) \ {n+1} = 1..n /\ n+1 \in 1..n+1
  BY <1>1
<1> HIDE DEF f, g, n
<1>8. Cardinality(Units(g, 1..n+1)) = g[n+1] + Cardinality(Units(g, 1..n))
  <2>1. \A i \in 1..n+1 : g[i] \in Nat
    BY <1>5
  <2>2. Cardinality(Units(g, 1..n+1)) = g[n+1] + Cardinality(Units(g, (1..n+1) \ {n+1}))
    BY <1>6, <1>7, <2>1, UnitsAt
  <2> QED BY <1>7, <2>2
<1>9. Units(g, 1..n) = Units(f, 1..n)
  BY <1>3 DEF Units
<1>10. /\ SumFunction(f) = Cardinality(Units(f, 1..n))
       /\ SumFunction(g) = Cardinality(Units(g, 1..n+1))
  BY <1>4, <1>5, <1>6, SumCounts
<1>11. Cardinality(Units(f, 1..n)) \in Nat
  BY <1>3, <1>6, UnitsAt
<1> QED BY <1>2, <1>3, <1>8, <1>9, <1>10, <1>11 DEF b

--------------------------------------------------------------------------------
(* What a session costs.                                                   *)

\* A sum over the ledger is one over all tasks, where those without an entry add nothing.
Total(f) == Cardinality(Units(f, Known))
Risks(L) == [t \in Known |-> IF L[t] = NoRun THEN 0 ELSE Risk(L[t])]
Spents(L) == [t \in Known |-> IF L[t] = NoRun THEN 0 ELSE Cost(L[t].attempts)]

\* What an entry costs, or may cost, is a natural.
LEMMA EntryCosts ==
  ASSUME NEW e \in Entries
  PROVE  /\ e.attempts \in Seq(AttemptsOf) /\ Cost(e.attempts) \in Nat /\ Risk(e) \in Nat
         /\ Len(e.attempts) <= Attempts => Cost(e.attempts) <= Hold /\ Cost(e.attempts) <= Risk(e)
<1>1. e.attempts \in Seq(AttemptsOf) /\ e.closed \in BOOLEAN
  BY DEF Entries, AttemptsOf
<1> QED BY <1>1, CostType, HighestPrice DEF Risk

\* Summands that are zero do not count.
LEMMA ZerosAddNothing ==
  ASSUME NEW E, E \subseteq Known, NEW f \in [Known -> Nat], NEW g \in [E -> Nat],
         \A t \in E : g[t] = f[t], \A t \in Known \ E : f[t] = 0
  PROVE  SumFunction(g) = Total(f) /\ Total(f) \in Nat
<1>1. IsFiniteSet(Known)
  BY BudgetAssumption, FS_Union DEF Known
<1>2. IsFiniteSet(E)
  BY <1>1, FS_Subset
<1>3. SumFunction(g) = Cardinality(Units(g, E))
  BY <1>2, SumCounts
<1>4. Units(g, E) = Units(f, Known)
  <2>1. \A t \in Known \ E : {t} \X (1..f[t]) = {}
    OBVIOUS
  <2>2. Units(f, Known) = Units(f, E)
    BY <2>1 DEF Units
  <2>3. Units(g, E) = Units(f, E)
    BY DEF Units
  <2> QED BY <2>2, <2>3
<1>5. Total(f) \in Nat
  BY <1>1, UnitsAt DEF Total
<1> QED BY <1>3, <1>4, <1>5 DEF Total

\* The two sums of the ledger are such totals.
LEMMA SumsAreTotals ==
  ASSUME NEW L \in Ledgers
  PROVE  /\ Risks(L) \in [Known -> Nat] /\ Spents(L) \in [Known -> Nat]
         /\ Exposure(L) = Total(Risks(L)) /\ Exposure(L) \in Nat
         /\ Reserved(L) = Total(Spents(L)) /\ Reserved(L) \in Nat
<1> DEFINE E == Entered(L)
           g == [t \in E |-> Risk(L[t])]
           h == [t \in E |-> Cost(L[t].attempts)]
<1>1. \A t \in E : L[t] \in Entries
  BY DEF Entered, Ledgers
<1>2. E \subseteq Known /\ \A t \in Known : t \in E <=> L[t] # NoRun
  BY DEF Entered
<1>3. Risks(L) \in [Known -> Nat] /\ Spents(L) \in [Known -> Nat]
  BY <1>1, <1>2, EntryCosts DEF Risks, Spents
<1>4. g \in [E -> Nat] /\ h \in [E -> Nat]
  BY <1>1, EntryCosts
<1>5. /\ \A t \in E : g[t] = Risks(L)[t] /\ h[t] = Spents(L)[t]
      /\ \A t \in Known \ E : Risks(L)[t] = 0 /\ Spents(L)[t] = 0
  BY <1>2 DEF Risks, Spents
<1>6. Exposure(L) = SumFunction(g) /\ Reserved(L) = SumFunction(h)
  BY DEF Exposure, Reserved
<1> HIDE DEF E, g, h
<1>7. SumFunction(g) = Total(Risks(L)) /\ Total(Risks(L)) \in Nat
  BY <1>2, <1>3, <1>4, <1>5, ZerosAddNothing
<1>8. SumFunction(h) = Total(Spents(L)) /\ Total(Spents(L)) \in Nat
  BY <1>2, <1>3, <1>4, <1>5, ZerosAddNothing
<1> QED BY <1>3, <1>6, <1>7, <1>8

\* Changing one summand changes a total by the difference.
LEMMA TotalMoves ==
  ASSUME NEW f \in [Known -> Nat], NEW t \in Known, NEW n \in Nat,
         NEW g, g = [f EXCEPT ![t] = n]
  PROVE  /\ g \in [Known -> Nat] /\ Total(f) \in Nat /\ Total(g) \in Nat
         /\ Total(g) = Total(f) - f[t] + n
<1> DEFINE K == Known \ {t}
<1>1. IsFiniteSet(Known)
  BY BudgetAssumption, FS_Union DEF Known
<1>2. g \in [Known -> Nat] /\ g[t] = n /\ \A u \in K : g[u] = f[u]
  OBVIOUS
<1>3. Units(g, K) = Units(f, K)
  BY <1>2 DEF Units
<1>4. /\ Cardinality(Units(f, Known)) \in Nat /\ Cardinality(Units(g, Known)) \in Nat
      /\ Cardinality(Units(f, Known)) = f[t] + Cardinality(Units(f, K))
      /\ Cardinality(Units(g, Known)) = g[t] + Cardinality(Units(g, K))
  BY <1>1, <1>2, UnitsAt
<1>5. Cardinality(Units(f, K)) \in Nat
  <2>1. IsFiniteSet(K)
    BY <1>1, FS_Subset
  <2> QED BY <2>1, UnitsAt
<1> QED BY <1>2, <1>3, <1>4, <1>5 DEF Total

\* A total of smaller summands is smaller.
LEMMA TotalOrdered ==
  ASSUME NEW f \in [Known -> Nat], NEW g \in [Known -> Nat], \A t \in Known : f[t] <= g[t]
  PROVE  Total(f) <= Total(g)
<1>1. IsFiniteSet(Known)
  BY BudgetAssumption, FS_Union DEF Known
<1>2. IsFiniteSet(Units(g, Known))
  BY <1>1, UnitsAt
<1>3. Units(f, Known) \subseteq Units(g, Known)
  <2>1. \A t \in Known : {t} \X (1..f[t]) \subseteq {t} \X (1..g[t])
    OBVIOUS
  <2> QED BY <2>1 DEF Units
<1> QED BY <1>2, <1>3, FS_Subset DEF Total

--------------------------------------------------------------------------------
(* The caps.                                                               *)

\* A ledger whose runs are of the attempts that their holds are for, within the cap.
Within(L) ==
  /\ \A t \in Entered(L) : Len(L[t].attempts) <= Attempts
  /\ Exposure(L) <= SessionCap

\* The entry of an execution stays open until it finishes.
StillOpen(t) ==
  run[t].pc \notin {"idle", "begin", "finishSave"} => ~mem[run[t].owner][t].closed

CapInv ==
  /\ Within(disk) /\ \A w \in Writers : Within(mem[w])
  /\ \A t \in Tasks : StillOpen(t)

\* An entry may change if it does not add to what the session may cost.
LEMMA WithinKept ==
  ASSUME NEW L \in Ledgers, Within(L), NEW t \in Known, NEW e \in Entries,
         Len(e.attempts) <= Attempts,
         \/ L[t] # NoRun /\ Risk(e) <= Risk(L[t])
         \/ L[t] = NoRun /\ Exposure(L) + Risk(e) <= SessionCap
  PROVE  Within([L EXCEPT ![t] = e])
<1> DEFINE M == [L EXCEPT ![t] = e]
<1>1. M \in Ledgers /\ M[t] = e /\ e # NoRun /\ \A u \in Known \ {t} : M[u] = L[u]
  BY NoRunAssumption DEF Ledgers
<1>2. Risk(e) \in Nat /\ (L[t] # NoRun => Risk(L[t]) \in Nat)
  BY EntryCosts DEF Ledgers
<1>3. Risks(M) = [Risks(L) EXCEPT ![t] = Risk(e)]
  <2>1. \A u \in Known : Risks(M)[u] = IF u = t THEN Risk(e) ELSE Risks(L)[u]
    BY <1>1 DEF Risks
  <2>2. DOMAIN Risks(M) = Known /\ DOMAIN Risks(L) = Known
    BY DEF Risks
  <2>3. Risks(M) = [u \in Known |-> Risks(M)[u]]
    BY DEF Risks
  <2>4. [Risks(L) EXCEPT ![t] = Risk(e)] = [u \in Known |-> IF u = t THEN Risk(e) ELSE Risks(L)[u]]
    BY <2>2
  <2> HIDE DEF M
  <2> QED BY <2>1, <2>3, <2>4
<1> HIDE DEF M
<1>4. /\ Exposure(M) = Total(Risks(M)) /\ Exposure(L) = Total(Risks(L)) /\ Exposure(L) \in Nat
      /\ Risks(L) \in [Known -> Nat]
  BY <1>1, SumsAreTotals
<1>5. Total(Risks(M)) = Total(Risks(L)) - Risks(L)[t] + Risk(e)
  <2> DEFINE f == Risks(L)
             g == Risks(M)
  <2>1. f \in [Known -> Nat] /\ Risk(e) \in Nat /\ g = [f EXCEPT ![t] = Risk(e)]
    BY <1>2, <1>3, <1>4
  <2> HIDE DEF f, g
  <2>2. Total(g) = Total(f) - f[t] + Risk(e)
    BY <2>1, TotalMoves
  <2> QED BY <2>2 DEF f, g
<1>6. Exposure(M) <= SessionCap
  <2>1. Exposure(L) <= SessionCap /\ SessionCap \in Nat
    BY BudgetAssumption DEF Within
  <2>2. Risks(L)[t] = IF L[t] = NoRun THEN 0 ELSE Risk(L[t])
    BY DEF Risks
  <2> QED BY <1>2, <1>4, <1>5, <2>1, <2>2
<1>7. \A u \in Entered(M) : Len(M[u].attempts) <= Attempts
  BY <1>1 DEF Within, Entered
<1> QED BY <1>6, <1>7 DEF Within, M

\* An open run with attempts left can afford one at any price.
LEMMA Affordable ==
  ASSUME NEW L \in Ledgers, Within(L), NEW t \in Known, L[t] # NoRun, ~L[t].closed,
         Len(L[t].attempts) < Attempts, NEW p \in Purposes
  PROVE  Reserved(L) + Price[p] <= SessionCap
<1> DEFINE e == L[t]
           x == [purpose |-> p, outcome |-> "reserved"]
           a == Append(e.attempts, x)
           f == [Spents(L) EXCEPT ![t] = Cost(e.attempts) + Price[p]]
<1>1. e \in Entries /\ e.attempts \in Seq(AttemptsOf) /\ Cost(e.attempts) \in Nat
  BY EntryCosts DEF Ledgers
<1>2. Cost(e.attempts) + Price[p] <= Hold
  <2>1. x \in AttemptsOf /\ x.purpose = p
    BY DEF AttemptsOf
  <2> HIDE DEF x
  <2>2. a \in Seq(AttemptsOf) /\ Len(a) = Len(e.attempts) + 1 /\ Len(e.attempts) \in Nat
    BY <1>1, <2>1, AppendProperties
  <2>3. Cost(a) = Cost(e.attempts) + Price[p]
    BY <1>1, <2>1, CostOfOneMore
  <2>4. Len(a) <= Attempts
    BY <2>2, HighestPrice
  <2> QED BY <2>2, <2>3, <2>4, CostType
<1>3. Price[p] \in Nat /\ Hold \in Nat
  BY HighestPrice
<1>4. /\ Spents(L) \in [Known -> Nat] /\ Risks(L) \in [Known -> Nat]
      /\ Reserved(L) = Total(Spents(L)) /\ Reserved(L) \in Nat
      /\ Exposure(L) = Total(Risks(L)) /\ Exposure(L) \in Nat
  BY SumsAreTotals
<1>5. Spents(L)[t] = Cost(e.attempts)
  BY DEF Spents
<1>6. f \in [Known -> Nat] /\ Total(f) \in Nat /\ Total(f) = Reserved(L) + Price[p]
  <2>1. Cost(e.attempts) + Price[p] \in Nat
    BY <1>1, <1>3
  <2>2. /\ f \in [Known -> Nat] /\ Total(f) \in Nat /\ Total(Spents(L)) \in Nat
        /\ Total(f) = Total(Spents(L)) - Spents(L)[t] + (Cost(e.attempts) + Price[p])
    <3> DEFINE g == Spents(L)
               n == Cost(e.attempts) + Price[p]
    <3>1. g \in [Known -> Nat] /\ n \in Nat /\ f = [g EXCEPT ![t] = n]
      BY <1>4, <2>1
    <3> HIDE DEF f, g, n
    <3>2. /\ f \in [Known -> Nat] /\ Total(f) \in Nat /\ Total(g) \in Nat
          /\ Total(f) = Total(g) - g[t] + n
      BY <3>1, TotalMoves
    <3> QED BY <3>2 DEF g, n
  <2> HIDE DEF f
  <2> QED BY <1>1, <1>3, <1>4, <1>5, <2>2
<1>7. \A u \in Known : f[u] <= Risks(L)[u]
  <2>1. f[t] <= Risks(L)[t]
    <3>1. f[t] = Cost(e.attempts) + Price[p]
      BY <1>4
    <3>2. Risks(L)[t] = Hold
      BY DEF Risks, Risk
    <3> QED BY <1>2, <3>1, <3>2
  <2>2. ASSUME NEW u \in Known, u # t PROVE f[u] <= Risks(L)[u]
    <3>1. f[u] = Spents(L)[u]
      BY <1>4, <2>2
    <3>2. CASE L[u] = NoRun
      BY <3>1, <3>2 DEF Spents, Risks
    <3>3. CASE L[u] # NoRun
      <4>1. L[u] \in Entries /\ Len(L[u].attempts) <= Attempts
        BY <3>3 DEF Ledgers, Within, Entered
      <4> QED BY <3>1, <3>3, <4>1, EntryCosts DEF Spents, Risks
    <3> QED BY <3>2, <3>3
  <2> QED BY <2>1, <2>2
<1> HIDE DEF f
<1>8. Total(f) <= Total(Risks(L))
  BY <1>4, <1>6, <1>7, TotalOrdered
<1> QED BY <1>3, <1>4, <1>6, <1>8, BudgetAssumption DEF Within

\* The states of an execution whose entry may be closed.
Outside == {"idle", "begin", "finishSave"}

\* The file stays within the cap, since it becomes what a memory is.
LEMMA FileWithin ==
  ASSUME TypeOK, IInv, CapInv, [Next]_vars
  PROVE  Within(disk')
<1>1. CASE disk' = disk
  BY <1>1 DEF CapInv
<1>2. CASE disk' # disk
  <2>1. lock # NoWriter /\ disk' = mem[lock]
    BY <1>2, FileStep
  <2>2. lock \in Writers
    BY <2>1 DEF TypeOK
  <2> QED BY <2>1, <2>2 DEF CapInv
<1> QED BY <1>1, <1>2

\* A step of one execution, with or without a change of its entry.
LEMMA ExecutionWithin ==
  ASSUME TypeOK, CapInv, NEW t \in Tasks, NEW w \in Writers, run[t].owner = w, Within(disk'),
         NEW x, run' = [run EXCEPT ![t] = x], x.pc = "idle" \/ x.owner = w,
         NEW e, mem' = mem \/ mem' = [mem EXCEPT ![w] = [mem[w] EXCEPT ![t] = e]],
         Within(mem'[w]), x.pc \in Outside \/ ~mem'[w][t].closed
  PROVE  CapInv'
<1>1. run'[t] = x /\ \A u \in Tasks \ {t} : run'[u] = run[u]
  BY DEF TypeOK
<1>2. \A v \in Writers \ {w} : mem'[v] = mem[v]
  BY DEF TypeOK
<1>3. \A u \in Known \ {t} : mem'[w][u] = mem[w][u]
  BY DEF TypeOK, Ledgers
<1>4. \A v \in Writers : Within(mem'[v])
  BY <1>2 DEF CapInv
<1>5. ASSUME NEW u \in Tasks PROVE StillOpen(u)'
  <2>1. CASE u = t
    <3>1. x.pc \in Outside \/ (x.owner = w /\ ~mem'[w][t].closed)
      BY DEF Outside
    <3> QED BY <1>1, <2>1, <3>1 DEF StillOpen, Outside
  <2>2. CASE u # t
    <3>1. run'[u] = run[u] /\ StillOpen(u) /\ u \in Known
      BY <1>1, <2>2 DEF CapInv, Known
    <3>2. run[u].pc # "idle" => run[u].owner \in Writers
      BY DEF TypeOK
    <3>3. run[u].pc # "idle" => mem'[run[u].owner][u] = mem[run[u].owner][u]
      BY <1>2, <1>3, <2>2, <3>1, <3>2
    <3> QED BY <3>1, <3>3 DEF StillOpen
  <2> QED BY <2>1, <2>2
<1> QED BY <1>4, <1>5 DEF CapInv

\* A step of one execution that leaves the ledger alone.
LEMMA QuietWithin ==
  ASSUME TypeOK, CapInv, NEW t \in Tasks, NEW w \in Writers, run[t].owner = w, Within(disk'),
         NEW x, run' = [run EXCEPT ![t] = x], x.pc = "idle" \/ x.owner = w, mem' = mem,
         x.pc \in Outside \/ run[t].pc \notin Outside
  PROVE  CapInv'
<1>1. x.pc \in Outside \/ ~mem'[w][t].closed
  BY DEF CapInv, StillOpen, Outside
<1>2. Within(mem'[w])
  BY DEF CapInv
<1> QED BY <1>1, <1>2, ExecutionWithin

\* An operation on the entry of an execution that does not make it cost more.
LEMMA EntryWithin ==
  ASSUME TypeOK, CapInv, NEW t \in Tasks, NEW w \in Writers, run[t].owner = w, Within(disk'),
         NEW x, run' = [run EXCEPT ![t] = x], x.owner = w,
         NEW e \in Entries, mem' = [mem EXCEPT ![w] = [mem[w] EXCEPT ![t] = e]],
         x.pc \in Outside \/ ~e.closed, Len(e.attempts) <= Attempts,
         \/ mem[w][t] # NoRun /\ Risk(e) <= Risk(mem[w][t])
         \/ mem[w][t] = NoRun /\ Exposure(mem[w]) + Risk(e) <= SessionCap
  PROVE  CapInv'
<1>1. t \in Known /\ mem[w] \in Ledgers /\ Within(mem[w])
  BY DEF TypeOK, CapInv, Known
<1>2. mem'[w] = [mem[w] EXCEPT ![t] = e] /\ mem'[w][t] = e
  BY <1>1 DEF TypeOK, Ledgers
<1>3. Within(mem'[w])
  BY <1>1, <1>2, WithinKept
<1> QED BY <1>2, <1>3, ExecutionWithin

\* Begin: the new hold is admitted by the exposure of all others.
LEMMA BeginWithin ==
  ASSUME TypeOK, CapInv, NEW t \in Tasks, NEW w \in Writers, run[t].owner = w, Within(disk'),
         Begin(t)
  PROVE  CapInv'
<1>1. CASE MayBegin(t, w)
  <2> DEFINE x == [run[t] EXCEPT !.pc = "beginSave"]
  <2>1. /\ mem' = [mem EXCEPT ![w] = [mem[w] EXCEPT ![t] = Opened]]
        /\ run' = [run EXCEPT ![t] = x]
    BY <1>1 DEF Begin, Opened, TypeOK
  <2>2. x.owner = w
    BY DEF TypeOK, Executions
  <2>3. mem[w][t] = NoRun /\ Exposure(mem[w]) + Hold <= SessionCap
    BY <1>1 DEF MayBegin
  <2>4. Opened \in Entries /\ ~Opened.closed /\ Len(Opened.attempts) = 0 /\ Risk(Opened) = Hold
    BY OpenedEntry DEF Opened, Risk
  <2>5. Len(Opened.attempts) <= Attempts /\ Exposure(mem[w]) + Risk(Opened) <= SessionCap
    BY <2>3, <2>4, HighestPrice
  <2> HIDE DEF x
  <2> QED BY <2>1, <2>2, <2>3, <2>4, <2>5, EntryWithin
<1>2. CASE ~MayBegin(t, w)
  <2>1. run' = [run EXCEPT ![t] = IdleExecution] /\ mem' = mem
    BY <1>2 DEF Begin
  <2>2. IdleExecution.pc = "idle" /\ IdleExecution.pc \in Outside
    BY DEF IdleExecution, Outside
  <2> QED BY <2>1, <2>2, QuietWithin
<1> QED BY <1>1, <1>2

\* What a dispatch leaves when it is over.
LEMMA ReturnedWithin ==
  ASSUME TypeOK, CapInv, NEW t \in Tasks, NEW w \in Writers, run[t].owner = w, Within(disk'),
         run[t].pc \notin Outside, mem' = mem, NEW ok \in BOOLEAN,
         run' \in {[run EXCEPT ![t] = s] : s \in Returned(run[t], ok)}
  PROVE  CapInv'
<1>1. PICK s \in Returned(run[t], ok) : run' = [run EXCEPT ![t] = s]
  OBVIOUS
<1>2. s.owner = w
  BY ReturnedType DEF TypeOK
<1> QED BY <1>1, <1>2, QuietWithin

\* And a settle that throws.
LEMMA ThrowWithin ==
  ASSUME TypeOK, CapInv, NEW t \in Tasks, NEW w \in Writers, run[t].owner = w, Within(disk'),
         run[t].pc \notin Outside, mem' = mem,
         run' \in {[run EXCEPT ![t] = s] : s \in SettleThrows(run[t])}
  PROVE  CapInv'
<1>1. PICK s \in SettleThrows(run[t]) : run' = [run EXCEPT ![t] = s]
  OBVIOUS
<1>2. s.owner = w
  BY SettleThrowsType DEF TypeOK
<1> QED BY <1>1, <1>2, QuietWithin

\* Reserve: the hold of an open run covers one more attempt.
LEMMA ReserveWithin ==
  ASSUME TypeOK, IInv, CapInv, NEW t \in Tasks, NEW w \in Writers, run[t].owner = w,
         Within(disk'), Reserve(t)
  PROVE  CapInv'
<1> DEFINE e == mem[w][t]
<1>1. run[t].pc = "reserve" /\ run[t] \in Executions /\ run[t].pc \notin Outside
  BY DEF Reserve, Charge, TypeOK, Outside
<1>2. e \in Entries /\ e # NoRun /\ ~e.closed
  <2>1. e \in Entries \cup {NoRun}
    BY DEF TypeOK, Ledgers, Known
  <2>2. e # NoRun
    BY <1>1 DEF IInv, Paid, PaidFor
  <2>3. ~e.closed
    BY <1>1 DEF CapInv, StillOpen
  <2> QED BY <2>1, <2>2, <2>3
<1>3. CASE MayReserve(t, w)
  <2> DEFINE c == Charged(e, run[t].next)
             x == [run[t] EXCEPT !.pc = "reserveSave"]
  <2>1. /\ mem' = [mem EXCEPT ![w][t].attempts =
                     Append(@, [purpose |-> run[t].next, outcome |-> "reserved"])]
        /\ run' = [run EXCEPT ![t] = x]
    BY <1>3 DEF Reserve, Charge, TypeOK
  <2>2. mem' = [mem EXCEPT ![w] = [mem[w] EXCEPT ![t] = c]]
    BY <2>1 DEF Charged, TypeOK
  <2>3. x.owner = w
    BY <1>1 DEF Executions
  <2>4. c \in Entries /\ Len(c.attempts) = Len(e.attempts) + 1
    <3>1. run[t].next \in Purposes
      BY <1>1 DEF Executions
    <3> QED BY <1>2, <3>1, ChargedEntry
  <2>5. c.closed = e.closed
    BY <1>2 DEF Charged, Entries
  <2>6. Len(e.attempts) < Attempts /\ Len(e.attempts) \in Nat
    BY <1>2, <1>3 DEF MayReserve, WithinRun, Entries
  <2> HIDE DEF c, x
  <2>7. Risk(c) = Risk(e) /\ Risk(e) \in Nat
    BY <1>2, <2>5, EntryCosts DEF Risk
  <2>8. Len(c.attempts) <= Attempts /\ Risk(c) <= Risk(e) /\ ~c.closed
    BY <1>2, <2>4, <2>5, <2>6, <2>7, HighestPrice
  <2>9. run' = [run EXCEPT ![t] = x]
    BY <2>1
  <2> QED BY <1>2, <2>2, <2>3, <2>4, <2>8, <2>9, EntryWithin
<1>4. CASE ~MayReserve(t, w)
  BY <1>1, <1>4, ReturnedWithin DEF Reserve, Charge
<1> QED BY <1>3, <1>4

\* Settle: the attempts keep their prices.
LEMMA SettleWithin ==
  ASSUME TypeOK, IInv, CapInv, NEW t \in Tasks, NEW w \in Writers, run[t].owner = w,
         Within(disk'), Settle(t)
  PROVE  CapInv'
<1> DEFINE e == mem[w][t]
<1>1. run[t].pc = "settle" /\ run[t] \in Executions /\ run[t].pc \notin Outside
  BY DEF Settle, TypeOK, Outside
<1>2. e \in Entries /\ e # NoRun /\ ~e.closed /\ e.attempts # <<>>
  <2>1. e \in Entries \cup {NoRun}
    BY DEF TypeOK, Ledgers, Known
  <2>2. e # NoRun /\ e.attempts # <<>>
    BY <1>1 DEF IInv, Paid, PaidFor
  <2>3. ~e.closed
    BY <1>1 DEF CapInv, StillOpen
  <2> QED BY <2>1, <2>2, <2>3
<1>3. CASE Fenced(w)
  BY <1>1, <1>3, ThrowWithin DEF Settle
<1>4. CASE ~Fenced(w)
  <2> DEFINE c == Settled(e)
             x == [run[t] EXCEPT !.pc = "settleSave"]
  <2>1. /\ mem' = [mem EXCEPT ![w][t].attempts[Len(e.attempts)].outcome = "settled"]
        /\ run' = [run EXCEPT ![t] = x]
    BY <1>4 DEF Settle, TypeOK
  <2>2. mem' = [mem EXCEPT ![w] = [mem[w] EXCEPT ![t] = c]]
    BY <2>1 DEF Settled, TypeOK
  <2>3. x.owner = w
    BY <1>1 DEF Executions
  <2>4. c \in Entries /\ Len(c.attempts) = Len(e.attempts)
    BY <1>2, SettledEntry
  <2>5. c.closed = e.closed
    BY <1>2 DEF Settled, Entries
  <2>6. Len(e.attempts) <= Attempts
    BY <1>2 DEF CapInv, Within, Entered, Known
  <2> HIDE DEF c, x
  <2>7. Risk(c) = Risk(e) /\ Risk(e) \in Nat
    BY <1>2, <2>5, EntryCosts DEF Risk
  <2>8. Len(c.attempts) <= Attempts /\ Risk(c) <= Risk(e) /\ ~c.closed
    BY <1>2, <2>4, <2>5, <2>6, <2>7
  <2>9. run' = [run EXCEPT ![t] = x]
    BY <2>1
  <2> QED BY <1>2, <2>2, <2>3, <2>4, <2>8, <2>9, EntryWithin
<1> QED BY <1>3, <1>4

\* Finish: what a run used is within its hold.
LEMMA FinishWithin ==
  ASSUME TypeOK, IInv, CapInv, NEW t \in Tasks, NEW w \in Writers, run[t].owner = w,
         Within(disk'), Finish(t)
  PROVE  CapInv'
<1> DEFINE e == mem[w][t]
<1>1. run[t].pc = "finish" /\ run[t] \in Executions
  BY DEF Finish, TypeOK
<1>2. e \in Entries /\ e # NoRun
  <2>1. e \in Entries \cup {NoRun}
    BY DEF TypeOK, Ledgers, Known
  <2>2. e # NoRun
    BY <1>1 DEF IInv, Paid, PaidFor
  <2> QED BY <2>1, <2>2
<1>3. CASE Fenced(w)
  <2>1. run' = [run EXCEPT ![t] = IdleExecution] /\ mem' = mem
    BY <1>3 DEF Finish
  <2>2. IdleExecution.pc = "idle" /\ IdleExecution.pc \in Outside
    BY DEF IdleExecution, Outside
  <2> QED BY <2>1, <2>2, QuietWithin
<1>4. CASE ~Fenced(w)
  <2> DEFINE c == [e EXCEPT !.closed = TRUE]
             x == [run[t] EXCEPT !.pc = "finishSave"]
  <2>1. /\ mem' = [mem EXCEPT ![w][t].closed = TRUE]
        /\ run' = [run EXCEPT ![t] = x]
    BY <1>4 DEF Finish, TypeOK
  <2>2. mem' = [mem EXCEPT ![w] = [mem[w] EXCEPT ![t] = c]]
    BY <2>1 DEF TypeOK
  <2>3. x.owner = w /\ x.pc \in Outside
    BY <1>1 DEF Executions, Outside
  <2>4. c \in Entries /\ c.attempts = e.attempts /\ c.closed = TRUE
    BY <1>2 DEF Entries
  <2>5. Len(e.attempts) <= Attempts
    BY <1>2 DEF CapInv, Within, Entered, Known
  <2> HIDE DEF c, x
  <2>6. Risk(c) <= Risk(e)
    BY <1>2, <2>4, <2>5, EntryCosts DEF Risk
  <2>7. Len(c.attempts) <= Attempts
    BY <2>4, <2>5
  <2> QED BY <1>2, <2>1, <2>2, <2>3, <2>4, <2>6, <2>7, EntryWithin
<1> QED BY <1>3, <1>4

\* The operations of an execution that leave the ledger alone.
LEMMA SlotsWithin ==
  ASSUME TypeOK, CapInv, NEW t \in Tasks, NEW w \in Writers, run[t].owner = w, Within(disk'),
         \/ Acquire(t) \/ AcquireRefused(t) \/ Invoke(t) \/ PhysicalReturns(t) \/ Abandon(t)
         \/ Saved(t) \/ SaveFails(t) \/ DispatchTimesOut(t) \/ RunCancelled(t) \/ RunLate(t)
  PROVE  CapInv'
<1> DEFINE r == run[t]
           at(p) == [r EXCEPT !.pc = p]
<1>1. r \in Executions
  BY DEF TypeOK
<1>2. IdleExecution.pc = "idle" /\ IdleExecution.pc \in Outside
  BY DEF IdleExecution, Outside
<1>3. \A p : at(p).owner = w /\ at(p).pc = p
  BY <1>1 DEF Executions
<1>4. CASE Acquire(t)
  <2>1. run' = [run EXCEPT ![t] = at("reserve")] /\ mem' = mem /\ r.pc \notin Outside
    BY <1>4 DEF Acquire, Outside
  <2> HIDE DEF at, r
  <2> QED BY <1>3, <2>1, QuietWithin DEF r
<1>5. CASE AcquireRefused(t)
  BY <1>5, ReturnedWithin DEF AcquireRefused, Outside
<1>6. CASE Invoke(t)
  <2>1. /\ run' \in {[run EXCEPT ![t].pc = "settle", ![t].outcome = "failed"],
                     [run EXCEPT ![t].pc = "working"]}
        /\ mem' = mem /\ r.pc = "invoke"
    BY <1>6 DEF Invoke
  <2>2. PICK x : run' = [run EXCEPT ![t] = x] /\ x.owner = w
    <3>1. CASE run' = [run EXCEPT ![t].pc = "settle", ![t].outcome = "failed"]
      <4> DEFINE x == [r EXCEPT !.pc = "settle", !.outcome = "failed"]
      <4>1. run' = [run EXCEPT ![t] = x] /\ x.owner = w
        BY <1>1, <3>1 DEF TypeOK, Executions
      <4> QED BY <4>1
    <3>2. CASE run' = [run EXCEPT ![t].pc = "working"]
      BY <1>3, <3>2
    <3> QED BY <2>1, <3>1, <3>2
  <2>3. r.pc \notin Outside
    BY <2>1 DEF Outside
  <2> HIDE DEF at, r
  <2> QED BY <2>1, <2>2, <2>3, QuietWithin DEF r
<1>7. CASE PhysicalReturns(t) \/ Abandon(t)
  <2>1. PICK ok : /\ run' = [run EXCEPT ![t].pc = "settle", ![t].outcome = ok]
                  /\ mem' = mem /\ r.pc = "working"
    BY <1>7 DEF PhysicalReturns, Abandon
  <2> DEFINE x == [r EXCEPT !.pc = "settle", !.outcome = ok]
  <2>2. run' = [run EXCEPT ![t] = x] /\ x.owner = w /\ r.pc \notin Outside
    BY <1>1, <2>1 DEF TypeOK, Executions, Outside
  <2> HIDE DEF x, at, r
  <2> QED BY <2>1, <2>2, QuietWithin DEF r
<1>8. CASE Saved(t)
  <2>1. mem' = mem /\ r.pc \in Saving
    BY <1>8 DEF Saved
  <2>2. CASE r.pc = "beginSave"
    <3>1. PICK n \in {"work", "finish"} : run' = [run EXCEPT ![t] = Proceeding(r, n, FALSE)]
      BY <1>8, <2>2 DEF Saved
    <3>2. Proceeding(r, n, FALSE).owner = w
      BY <1>1 DEF Proceeding, Executions, IdleExecution
    <3>3. r.pc \notin Outside
      BY <2>2 DEF Outside
    <3> HIDE DEF at, r
    <3> QED BY <2>1, <3>1, <3>2, <3>3, QuietWithin DEF r
  <2>3. CASE r.pc = "reserveSave"
    <3>1. run' = [run EXCEPT ![t] = at("invoke")] /\ r.pc \notin Outside
      BY <1>8, <2>3 DEF Saved, Outside
    <3> HIDE DEF at, r
    <3> QED BY <1>3, <2>1, <3>1, QuietWithin DEF r
  <2>4. CASE r.pc = "settleSave"
    <3>1. /\ run' \in {[run EXCEPT ![t] = s] : s \in Returned(r, r.outcome = "ok")}
          /\ r.pc \notin Outside
      BY <1>8, <2>4 DEF Saved, Outside
    <3>2. (r.outcome = "ok") \in BOOLEAN
      OBVIOUS
    <3> QED BY <2>1, <3>1, <3>2, ReturnedWithin
  <2>5. CASE r.pc = "finishSave"
    <3>1. run' = [run EXCEPT ![t] = IdleExecution]
      BY <1>8, <2>5 DEF Saved
    <3> QED BY <1>2, <2>1, <3>1, QuietWithin
  <2> QED BY <2>1, <2>2, <2>3, <2>4, <2>5 DEF Saving
<1>9. CASE SaveFails(t)
  <2>1. mem' = mem /\ r.pc \in Saving
    BY <1>9 DEF SaveFails
  <2>2. CASE r.pc \in {"beginSave", "finishSave"}
    <3>1. run' = [run EXCEPT ![t] = IdleExecution]
      BY <1>9, <2>2 DEF SaveFails
    <3> QED BY <1>2, <2>1, <3>1, QuietWithin
  <2>3. CASE r.pc = "reserveSave"
    <3>1. run' \in {[run EXCEPT ![t] = s] : s \in Returned(r, FALSE)} /\ r.pc \notin Outside
      BY <1>9, <2>3 DEF SaveFails, Outside
    <3> QED BY <2>1, <3>1, ReturnedWithin
  <2>4. CASE r.pc = "settleSave"
    <3>1. run' \in {[run EXCEPT ![t] = s] : s \in SettleThrows(r)} /\ r.pc \notin Outside
      BY <1>9, <2>4 DEF SaveFails, Outside
    <3> QED BY <2>1, <3>1, ThrowWithin
  <2> QED BY <2>1, <2>2, <2>3, <2>4 DEF Saving
<1>10. CASE DispatchTimesOut(t) \/ RunCancelled(t) \/ RunLate(t)
  <2>1. mem' = mem
    BY <1>10 DEF DispatchTimesOut, RunCancelled, RunLate
  <2>2. PICK x : run' = [run EXCEPT ![t] = x] /\ x.owner = w /\ x.pc = r.pc
    <3>1. CASE DispatchTimesOut(t)
      <4> DEFINE x == [r EXCEPT !.stopped = TRUE]
      <4>1. run' = [run EXCEPT ![t] = x] /\ x.owner = w /\ x.pc = r.pc
        BY <1>1, <3>1 DEF DispatchTimesOut, TypeOK, Executions
      <4> QED BY <4>1
    <3>2. CASE RunCancelled(t)
      <4> DEFINE b == r.stopped \/ (r.pc \in Dispatching /\ r.next = "work")
                 x == [r EXCEPT !.limit = "cancelled", !.stopped = b]
      <4>1. run' = [run EXCEPT ![t] = x] /\ x.owner = w /\ x.pc = r.pc
        BY <1>1, <3>2 DEF RunCancelled, TypeOK, Executions
      <4> QED BY <4>1
    <3>3. CASE RunLate(t)
      <4> DEFINE b == r.stopped \/ r.pc \in Dispatching
                 x == [r EXCEPT !.limit = "late", !.stopped = b]
      <4>1. run' = [run EXCEPT ![t] = x] /\ x.owner = w /\ x.pc = r.pc
        BY <1>1, <3>3 DEF RunLate, TypeOK, Executions
      <4> QED BY <4>1
    <3> QED BY <1>10, <3>1, <3>2, <3>3
  <2>3. x.pc \in Outside \/ run[t].pc \notin Outside
    BY <2>2
  <2> HIDE DEF at, r
  <2> QED BY <2>1, <2>2, <2>3, QuietWithin
<1> QED BY <1>4, <1>5, <1>6, <1>7, <1>8, <1>9, <1>10

\* A ledger without entries costs nothing.
LEMMA EmptyWithin == EmptyLedger \in Ledgers /\ Within(EmptyLedger)
<1>1. EmptyLedger \in Ledgers /\ \A t \in Known : EmptyLedger[t] = NoRun
  BY DEF EmptyLedger, Ledgers
<1>2. Exposure(EmptyLedger) = Total(Risks(EmptyLedger))
  BY <1>1, SumsAreTotals
<1>3. Units(Risks(EmptyLedger), Known) = {}
  <2>1. \A t \in Known : {t} \X (1..Risks(EmptyLedger)[t]) = {}
    BY <1>1 DEF Risks
  <2> QED BY <2>1 DEF Units
<1>4. Exposure(EmptyLedger) = 0
  BY <1>2, <1>3, FS_EmptySet DEF Total
<1> QED BY <1>1, <1>4, BudgetAssumption DEF Within, Entered

\* The life of a writer: its memory is what it read, or nothing.
LEMMA WritersWithin ==
  ASSUME TypeOK, IInv, CapInv, Within(disk'),
         \/ \E t \in Tasks, w \in Writers : Execute(t, w)
         \/ \E w \in Writers : \/ OpenLock(w) \/ OpenRead(w) \/ OpenFails(w)
                               \/ AbandonedReturns(w) \/ Close(w) \/ ReleaseProgress(w)
                               \/ UnlockFails(w) \/ Crash(w)
         \/ PricingExpires \/ Reconcile \/ UNCHANGED vars
  PROVE  CapInv'
<1>1. CASE \E t \in Tasks, w \in Writers : Execute(t, w)
  <2>1. PICK t \in Tasks, w \in Writers : Execute(t, w)
    BY <1>1
  <2> DEFINE x == [IdleExecution EXCEPT !.pc = "begin", !.owner = w]
  <2>2. run' = [run EXCEPT ![t] = x] /\ mem' = mem
    BY <2>1 DEF Execute
  <2>3. x.pc = "begin"
    BY DEF IdleExecution
  <2> HIDE DEF x
  <2>4. \A u \in Tasks : StillOpen(u)'
    <3>1. \A u \in Tasks : run'[u] = IF u = t THEN x ELSE run[u]
      BY <2>2 DEF TypeOK
    <3> QED BY <2>2, <2>3, <3>1 DEF CapInv, StillOpen
  <2> QED BY <2>2, <2>4 DEF CapInv
<1>2. ASSUME NEW w \in Writers, OpenRead(w) PROVE CapInv'
  <2>1. /\ mem' = [mem EXCEPT ![w] = disk] /\ run' = run /\ writer[w].pc = "opening"
    BY <1>2 DEF OpenRead
  <2>2. \A v \in Writers : mem'[v] = IF v = w THEN disk ELSE mem[v]
    BY <2>1 DEF TypeOK
  <2>3. \A v \in Writers : Within(mem'[v])
    BY <2>2 DEF CapInv
  <2>4. ASSUME NEW t \in Tasks PROVE StillOpen(t)'
    <3>1. CASE run[t].pc = "idle"
      BY <2>1, <3>1 DEF StillOpen
    <3>2. CASE run[t].pc # "idle"
      <4>1. run[t].owner \in Writers /\ run[t].owner # w
        BY <2>1, <3>2 DEF IInv, Owned
      <4>2. mem'[run[t].owner] = mem[run[t].owner] /\ StillOpen(t)
        BY <2>2, <4>1 DEF CapInv
      <4> QED BY <2>1, <4>2 DEF StillOpen
    <3> QED BY <3>1, <3>2
  <2> QED BY <2>3, <2>4 DEF CapInv
<1>3. ASSUME NEW w \in Writers, Crash(w) PROVE CapInv'
  <2>1. /\ mem' = [mem EXCEPT ![w] = EmptyLedger]
        /\ run' = [t \in Tasks |-> IF run[t].owner = w THEN IdleExecution ELSE run[t]]
    BY <1>3 DEF Crash
  <2>2. \A v \in Writers : mem'[v] = IF v = w THEN EmptyLedger ELSE mem[v]
    BY <2>1 DEF TypeOK
  <2>3. \A v \in Writers : Within(mem'[v])
    BY <2>2, EmptyWithin DEF CapInv
  <2>4. ASSUME NEW t \in Tasks PROVE StillOpen(t)'
    <3>1. CASE run[t].owner = w
      BY <2>1, <3>1 DEF StillOpen, IdleExecution
    <3>2. CASE run[t].owner # w
      <4>1. run'[t] = run[t] /\ StillOpen(t) /\ (run[t].pc # "idle" => run[t].owner \in Writers)
        BY <2>1, <3>2 DEF CapInv, TypeOK
      <4>2. run[t].pc # "idle" => mem'[run[t].owner] = mem[run[t].owner]
        BY <2>2, <3>2, <4>1
      <4> QED BY <4>1, <4>2 DEF StillOpen
    <3> QED BY <3>1, <3>2
  <2> QED BY <2>3, <2>4 DEF CapInv
<1>4. CASE UNCHANGED <<mem, run>>
  BY <1>4 DEF CapInv, StillOpen
<1> QED
  BY <1>1, <1>2, <1>3, <1>4
  DEF OpenLock, OpenFails, AbandonedReturns, Close, ReleaseProgress, CloseServed, ServeClose,
      Unlocked, UnlockFails, PricingExpires, Reconcile, vars

\* Every step keeps the caps.
LEMMA NextWithin ==
  ASSUME TypeOK, IInv, CapInv, [Next]_vars
  PROVE  CapInv'
<1>1. Within(disk')
  BY FileWithin
<1>2. ASSUME NEW t \in Tasks,
             \/ Progress(t) \/ PhysicalReturns(t) \/ SaveFails(t)
             \/ DispatchTimesOut(t) \/ RunCancelled(t) \/ RunLate(t)
      PROVE  CapInv'
  <2>1. run[t].pc # "idle"
    BY <1>2
    DEF Progress, Begin, Acquire, AcquireRefused, Reserve, Charge, Invoke, Abandon, Settle,
        Finish, Saved, PhysicalReturns, SaveFails, DispatchTimesOut, RunCancelled, RunLate,
        Dispatching, Saving
  <2>2. PICK w \in Writers : run[t].owner = w
    BY <2>1 DEF TypeOK
  <2>3. CASE Begin(t)
    BY <1>1, <2>2, <2>3, BeginWithin
  <2>4. CASE Reserve(t)
    BY <1>1, <2>2, <2>4, ReserveWithin
  <2>5. CASE Settle(t)
    BY <1>1, <2>2, <2>5, SettleWithin
  <2>6. CASE Finish(t)
    BY <1>1, <2>2, <2>6, FinishWithin
  <2>7. CASE \/ Acquire(t) \/ AcquireRefused(t) \/ Invoke(t) \/ PhysicalReturns(t) \/ Abandon(t)
             \/ Saved(t) \/ SaveFails(t) \/ DispatchTimesOut(t) \/ RunCancelled(t) \/ RunLate(t)
    BY <1>1, <2>2, <2>7, SlotsWithin
  <2> QED BY <1>2, <2>3, <2>4, <2>5, <2>6, <2>7 DEF Progress
<1>3. CASE \/ \E t \in Tasks, w \in Writers : Execute(t, w)
           \/ \E w \in Writers : \/ OpenLock(w) \/ OpenRead(w) \/ OpenFails(w)
                                 \/ AbandonedReturns(w) \/ Close(w) \/ ReleaseProgress(w)
                                 \/ UnlockFails(w) \/ Crash(w)
           \/ PricingExpires \/ Reconcile \/ UNCHANGED vars
  BY <1>1, <1>3, WritersWithin
<1> QED BY <1>2, <1>3 DEF Next

\* What earlier sessions leave is of finished runs, so that the file begins within the
\* invariant if it begins within the cap.
LEMMA InitWithin ==
  ASSUME Init, SessionWithinCap
  PROVE  CapInv
<1>1. \A t \in Entered(disk) : Len(disk[t].attempts) <= Attempts
  <2>1. ASSUME NEW n \in 0..Attempts PROVE Len(Finished(n).attempts) <= Attempts
    <3>1. n \in Nat /\ n <= Attempts
      BY HighestPrice
    <3>2. Len([i \in 1..n |-> [purpose |-> Spending[i], outcome |-> "settled"]]) = n
      BY <3>1
    <3> QED BY <3>1, <3>2 DEF Finished
  <2>2. PICK spent \in [Earlier -> 0..Attempts] :
          disk = [t \in Known |-> IF t \in Earlier THEN Finished(spent[t]) ELSE NoRun]
    BY DEF Init, InheritedLedgers
  <2>3. \A t \in Entered(disk) : t \in Earlier /\ disk[t] = Finished(spent[t])
    BY <2>2 DEF Entered
  <2>4. \A t \in Earlier : spent[t] \in 0..Attempts
    BY <2>2
  <2> QED BY <2>1, <2>3, <2>4
<1>2. \A w \in Writers : Within(mem[w])
  BY EmptyWithin DEF Init
<1>3. \A t \in Tasks : StillOpen(t)
  BY DEF Init, StillOpen, IdleExecution
<1> QED BY <1>1, <1>2, <1>3 DEF CapInv, Within, SessionWithinCap

\* The session never costs more than its cap, holds of open runs included, over failed
\* saves, crashes and changes of writer, and an admitted run can always afford its
\* remaining attempts (100-112 of live/budget.ts) -- from a file that begins within the cap,
\* which open does not ask for: an earlier session may have had another.
THEOREM CapsHoldAlways == Spec /\ SessionWithinCap => []CapsHold
<1>1. Init /\ SessionWithinCap => CapInv
  BY InitWithin
<1>2. TypeOK /\ IInv /\ CapInv /\ [Next]_vars => CapInv'
  BY NextWithin
<1>3. TypeOK /\ IInv /\ CapInv => CapsHold
  <2>1. SUFFICES ASSUME TypeOK, IInv, CapInv
                 PROVE  SessionWithinCap /\ CleanupHeadroom
    BY DEF CapsHold
  <2>2. SessionWithinCap
    BY <2>1 DEF CapInv, Within, SessionWithinCap
  <2>3. ASSUME NEW t \in Tasks, NEW p \in Purposes, run[t].pc \in {"acquire", "reserve"},
               WithinRun(mem[run[t].owner][t], p)
        PROVE  WithinSession(run[t].owner, p)
    <3> DEFINE w == run[t].owner
    <3>1. w \in Writers /\ t \in Known /\ mem[w] \in Ledgers /\ Within(mem[w])
      BY <2>1, <2>3 DEF TypeOK, CapInv, Known
    <3>2. mem[w][t] # NoRun /\ ~mem[w][t].closed
      BY <2>1, <2>3 DEF IInv, Paid, PaidFor, CapInv, StillOpen
    <3>3. Len(mem[w][t].attempts) < Attempts
      BY <2>3 DEF WithinRun
    <3> HIDE DEF w
    <3> QED BY <3>1, <3>2, <3>3, Affordable DEF WithinSession, w
  <2> QED BY <2>2, <2>3 DEF CleanupHeadroom
<1> QED BY <1>1, <1>2, <1>3, Invariance, PTL DEF Spec
================================================================================
