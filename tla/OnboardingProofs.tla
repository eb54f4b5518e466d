---------------------------- MODULE OnboardingProofs ----------------------------
(***************************************************************************)
(* Proofs about Onboarding, for any number of services and approvals and   *)
(* any number of crashes, losses, foreign transactions and dropped blocks. *)
(*                                                                         *)
(* SentIsJournaled and JournalNeverForgets follow from one invariant: the  *)
(* durable journal, the journal on disk and the one in the transition's    *)
(* memory are one journal that grows, and from the second writing before a *)
(* broadcast until the broadcast all three are equal.  EffectsAreFacts     *)
(* needs one more, about the chain: while no block was dropped, what was a *)
(* fact of it remains one.                                                 *)
(***************************************************************************)
EXTENDS Onboarding, SequenceTheorems, FiniteSetTheorems, WellFoundedInduction, TLAPS

--------------------------------------------------------------------------------
(* Sequences, and what is counted on a chain.                              *)

\* All but the last of a sequence, and its last: what a dropped block leaves.
LEMMA FrontAndLast ==
  ASSUME NEW S, NEW s \in Seq(S), s # <<>>
  PROVE  /\ Front(s) \in Seq(S)
         /\ Len(s) \in Nat \ {0}
         /\ Len(Front(s)) = Len(s) - 1
         /\ DOMAIN Front(s) = 1..(Len(s) - 1)
         /\ \A i \in 1..(Len(s) - 1) : Front(s)[i] = s[i]
         /\ Last(s) = s[Len(s)]
         /\ Last(s) \in S
<1>1. Len(s) \in Nat /\ Len(s) # 0 /\ DOMAIN s = 1..Len(s)
  BY EmptySeq
<1>2. SubSeq(s, 1, Len(s) - 1) \in Seq(S)
  <2>1. \A i \in 1..(Len(s) - 1) : i \in 1..Len(s) /\ s[i] \in S
    BY <1>1, ElementOfSeq
  <2>2. SubSeq(s, 1, Len(s) - 1) = [i \in 1..(Len(s) - 1) |-> s[i]]
    BY <1>1
  <2> QED
    BY <1>1, <2>1, <2>2, IsASeq
<1>3. /\ Len(SubSeq(s, 1, Len(s) - 1)) = Len(s) - 1
      /\ \A i \in 1..(Len(s) - 1) : SubSeq(s, 1, Len(s) - 1)[i] = s[i]
  BY <1>1
<1>4. s[Len(s)] \in S
  BY <1>1, ElementOfSeq
<1> QED
  BY <1>1, <1>2, <1>3, <1>4, LenProperties DEF Front, Last

\* A nonce of the payer or of the Safe, and the number of agents, are numbers.
LEMMA CountsAreNumbers ==
  ASSUME ChainTypeOK
  PROVE  PayerNonce \in Nat /\ SafeNonce \in Nat /\ Agents \in Nat
<1>1. IsFiniteSet(DOMAIN chain)
  BY FS_Interval, LenProperties DEF ChainTypeOK
<1>2. \A T \in SUBSET DOMAIN chain : Cardinality(T) \in Nat
  BY <1>1, FS_Subset, FS_CardinalityType
<1> QED
  BY <1>2 DEF PayerNonce, SafeNonce, Agents, Count

\* A set of numbers that is not empty has a least one.
LEMMA MinOfNaturals ==
  ASSUME NEW T \in SUBSET Nat, T # {}
  PROVE  Min(T) \in T
<1>1. \E x \in T : \A y \in T : ~(<<y, x>> \in OpToRel(<, Nat))
  BY NatLessThanWellFounded, WFMin
<1>2. OpToRel(<, Nat) = {p \in Nat \X Nat : p[1] < p[2]}
  BY DEF OpToRel
<1> HIDE DEF OpToRel
<1>3. \A x, y \in T : x <= y \/ <<y, x>> \in {p \in Nat \X Nat : p[1] < p[2]}
  OBVIOUS
<1>4. \E x \in T : \A y \in T : x <= y
  <2>1. PICK x \in T : \A y \in T : ~(<<y, x>> \in {p \in Nat \X Nat : p[1] < p[2]})
    BY <1>1, <1>2, Zenon
  <2> QED
    BY <1>3, <2>1
<1> QED
  BY <1>4 DEF Min

\* Of one number more than there are holders of one, one is free.
LEMMA OneIsFree ==
  ASSUME NEW M, IsFiniteSet(M), NEW held, NEW a \in Nat
  PROVE  \E n \in a..(a + Cardinality(M)) : \A h \in M : held[h] # n
<1> SUFFICES ASSUME \A n \in a..(a + Cardinality(M)) : \E h \in M : held[h] = n
             PROVE  FALSE
  OBVIOUS
<1> DEFINE D == a..(a + Cardinality(M))
           f == [n \in D |-> CHOOSE h \in M : held[h] = n]
<1>1. Cardinality(M) \in Nat
  BY FS_CardinalityType
<1>2. \A n \in D : f[n] \in M /\ held[f[n]] = n
  OBVIOUS
<1>3. f \in [D -> M]
  BY <1>2
<1>4. IsFiniteSet(D) /\ Cardinality(D) = Cardinality(M) + 1
  BY <1>1, FS_Interval
<1> HIDE DEF f, D
<1>5. Cardinality(M) < Cardinality(D)
  BY <1>1, <1>4
<1>6. \E x, y \in D : x # y /\ f[x] = f[y]
  BY <1>3, <1>4, <1>5, FS_PigeonHole
<1> QED
  BY <1>2, <1>6

\* What is pending of a payer is a number.
LEMMA PendingIsNumber ==
  ASSUME ChainTypeOK
  PROVE  PendingNonce \in Nat
<1> DEFINE held == [h \in mempool |-> signed[h].payerNonce]
           waiting == {signed[h].payerNonce : h \in mempool}
           free == {n \in PayerNonce..(PayerNonce + Cardinality(mempool)) : n \notin waiting}
<1>1. IsFiniteSet(mempool)
  <2>1. IsFiniteSet(1..Len(signed)) /\ mempool \in SUBSET (1..Len(signed))
    BY FS_Interval, LenProperties DEF ChainTypeOK
  <2> QED
    BY <2>1, FS_Subset
<1>2. PayerNonce \in Nat /\ Cardinality(mempool) \in Nat
  BY <1>1, CountsAreNumbers, FS_CardinalityType
<1>3. \E n \in PayerNonce..(PayerNonce + Cardinality(mempool)) :
         \A h \in mempool : held[h] # n
  <2> HIDE DEF held
  <2> QED
    BY <1>1, <1>2, OneIsFree
<1>4. free # {}
  BY <1>3
<1>5. free \in SUBSET Nat
  BY <1>2
<1>6. Min(free) \in free
  <2> HIDE DEF free
  <2> QED
    BY <1>4, <1>5, MinOfNaturals
<1> QED
  BY <1>5, <1>6 DEF PendingNonce

--------------------------------------------------------------------------------
(* The chain.                                                              *)

\* An own block is that of a signed transaction.
OwnAreSigned ==
  \A i \in DOMAIN chain : chain[i].kind = "own" => chain[i].by \in 1..Len(signed)

\* A transaction succeeds or reverts.
LEMMA SucceedsIsBoolean ==
  ASSUME NEW t \in Transactions
  PROVE  Succeeds(t) \in BOOLEAN
<1>1. CASE t.call = "deploy"
  BY <1>1 DEF Succeeds
<1>2. CASE t.call = "register"
  BY <1>2 DEF Succeeds
<1>3. CASE t.call = "swap"
  BY <1>3 DEF Succeeds
<1>4. CASE t.call \in {"publish", "republish"}
  BY <1>4 DEF Succeeds
<1>5. CASE t.call = "feedback"
  BY <1>5 DEF Succeeds
<1>6. CASE t.call = "revoke"
  BY <1>6 DEF Succeeds
<1> QED
  BY <1>1, <1>2, <1>3, <1>4, <1>5, <1>6 DEF Transactions, SafeCalls

\* What a step of the node or of others does to the chain: the node takes up or loses a
\* transaction; or a block is added, of a waiting transaction whose nonce has come or of
\* somebody else; or the last block is dropped.
Waits == /\ UNCHANGED <<chain, reorgs>>
         /\ mempool' = mempool
            \/ \E h \in 1..Len(signed) : ~Mined(h) /\ mempool' = mempool \cup {h}
Adds(b) == /\ chain' = Append(chain, b) /\ reorgs' = reorgs
           /\ b.kind = "own" =>
                /\ b.by \in mempool /\ mempool' = mempool \ {b.by}
                /\ signed[b.by].payerNonce = PayerNonce
                /\ b.ok = Succeeds(signed[b.by])
           /\ mempool' \in SUBSET mempool
Drops == /\ chain # <<>> /\ chain' = Front(chain) /\ reorgs' # 0
         /\ mempool' \in SUBSET (1..Len(signed))

\* Every step of the chain is one of these.
LEMMA ChainMoves ==
  ASSUME ChainTypeOK, OwnAreSigned, NEW kinds \in SUBSET ForeignKinds, ChainNext(kinds)
  PROVE  /\ UNCHANGED signed
         /\ wire' \in SUBSET wire /\ foreign' \in Nat /\ reorgs' \in Nat /\ losses' \in Nat
         /\ Waits \/ (\E b \in Blocks : b.kind \in kinds \cup {"own"} /\ Adds(b)) \/ Drops
<1> DEFINE Goal == /\ UNCHANGED signed /\ wire' \in SUBSET wire
                   /\ foreign' \in Nat /\ reorgs' \in Nat /\ losses' \in Nat
                   /\ \/ Waits
                      \/ \E b \in Blocks : b.kind \in kinds \cup {"own"} /\ Adds(b)
                      \/ Drops
<1>0. /\ foreign \in Nat /\ reorgs \in Nat /\ losses \in Nat
      /\ wire \in SUBSET (1..Len(signed)) /\ mempool \in SUBSET (1..Len(signed))
  BY DEF ChainTypeOK
<1>1. ASSUME NEW h \in wire, Deliver(h) \/ Lose(h) PROVE Goal
  <2>1. /\ h \in 1..Len(signed) /\ wire' \in SUBSET wire
        /\ losses' \in {losses, losses + 1}
        /\ UNCHANGED <<signed, chain, foreign, reorgs>>
        /\ mempool' = mempool \/ (~Mined(h) /\ mempool' = mempool \cup {h})
    BY <1>0, <1>1 DEF Deliver, Lose
  <2>2. Waits
    BY <2>1 DEF Waits
  <2> QED
    BY <1>0, <2>1, <2>2
<1>2. ASSUME NEW h \in mempool, Mine(h) PROVE Goal
  <2> DEFINE t == signed[h]
             agent == IF t.call = "register" THEN Agents + 1 ELSE t.agent
             b == [kind |-> "own", by |-> h, ok |-> Succeeds(t), agent |-> agent,
                   fork |-> reorgs]
  <2>1. t \in Transactions /\ h \in Nat
    BY <1>0, ElementOfSeq, LenProperties DEF ChainTypeOK
  <2>2. Succeeds(t) \in BOOLEAN /\ agent \in Nat
    BY <2>1, SucceedsIsBoolean, CountsAreNumbers DEF Transactions
  <2>3. /\ chain' = Append(chain, b) /\ mempool' = mempool \ {h}
        /\ t.payerNonce = PayerNonce
        /\ UNCHANGED <<signed, wire, foreign, reorgs, losses>>
    BY <1>2 DEF Mine, Extend
  <2> HIDE DEF agent
  <2>4. b \in Blocks /\ b.kind = "own" /\ b.by = h /\ b.ok = Succeeds(t)
    BY <1>0, <2>1, <2>2 DEF Blocks
  <2> HIDE DEF b
  <2>5. Adds(b)
    BY <2>3, <2>4 DEF Adds
  <2> QED
    BY <1>0, <2>3, <2>4, <2>5
<1>3. ASSUME NEW kind \in kinds, Interferes(kind) PROVE Goal
  <2>0. OwnAgents \in SUBSET Nat /\ Agents + 1 \in Nat
    <3>1. \A i \in DOMAIN chain : chain[i] \in Blocks
      BY ElementOfSeq, LenProperties DEF ChainTypeOK
    <3> QED
      BY <3>1, CountsAreNumbers DEF OwnAgents, Blocks
  <2>1. PICK agent \in Nat : Extend(kind, 0, TRUE, agent)
    <3>1. CASE kind = "registry"
      <4>1. Extend(kind, 0, TRUE, Agents + 1)
        BY <1>3, <3>1, Zenon DEF Interferes
      <4> QED
        BY <2>0, <4>1
    <3>2. CASE kind = "edit"
      <4>1. \E agent \in OwnAgents : Extend(kind, 0, TRUE, agent)
        BY <1>3, <3>2 DEF Interferes
      <4> QED
        BY <2>0, <4>1
    <3>3. CASE kind \notin {"registry", "edit"}
      BY <1>3, <3>3 DEF Interferes
    <3> QED
      BY <3>1, <3>2, <3>3
  <2> DEFINE b == [kind |-> kind, by |-> 0, ok |-> TRUE, agent |-> agent, fork |-> reorgs]
  <2>2. /\ chain' = Append(chain, b) /\ foreign' = foreign + 1
        /\ UNCHANGED <<signed, wire, reorgs, losses>> /\ mempool' \in SUBSET mempool
    BY <1>3, <2>1 DEF Extend, Interferes
  <2>3. kind \in ForeignKinds
    OBVIOUS
  <2>4. b \in Blocks /\ b.kind = kind /\ b.kind # "own"
    BY <1>0, <2>3 DEF Blocks, ForeignKinds, ForeignSafe
  <2> HIDE DEF b
  <2>5. Adds(b)
    BY <2>2, <2>4 DEF Adds
  <2> QED
    BY <1>0, <2>2, <2>4, <2>5
<1>4. ASSUME Reorg PROVE Goal
  <2>1. /\ chain # <<>> /\ chain' = Front(chain) /\ reorgs' = reorgs + 1
        /\ UNCHANGED <<signed, wire, foreign, losses>>
    BY <1>4 DEF Reorg
  <2>2. Last(chain).kind = "own" => Last(chain).by \in 1..Len(signed)
    <3>1. Len(chain) \in DOMAIN chain /\ Last(chain) = chain[Len(chain)]
      BY <2>1, FrontAndLast, LenProperties DEF ChainTypeOK
    <3> QED
      BY <3>1 DEF OwnAreSigned
  <2>3. mempool' \in SUBSET (1..Len(signed))
    <3>1. mempool' = mempool
          \/ (Last(chain).kind = "own" /\ mempool' = mempool \cup {Last(chain).by})
      BY <1>4, Zenon DEF Reorg
    <3> QED
      BY <1>0, <2>2, <3>1
  <2>4. Drops
    BY <1>0, <2>1, <2>3 DEF Drops
  <2> QED
    BY <1>0, <2>1, <2>4
<1> QED
  BY <1>1, <1>2, <1>3, <1>4 DEF ChainNext

\* A block on top of the others, seen from the blocks.
LEMMA Added ==
  ASSUME chain \in Seq(Blocks), NEW b \in Blocks, chain' = Append(chain, b)
  PROVE  /\ chain' \in Seq(Blocks)
         /\ Len(chain) \in Nat /\ DOMAIN chain = 1..Len(chain)
         /\ Len(chain') = Len(chain) + 1
         /\ DOMAIN chain' = DOMAIN chain \cup {Len(chain) + 1}
         /\ Len(chain) + 1 \notin DOMAIN chain
         /\ \A i \in DOMAIN chain : chain'[i] = chain[i]
         /\ chain'[Len(chain) + 1] = b
<1>1. /\ chain' \in Seq(Blocks) /\ Len(chain) \in Nat /\ DOMAIN chain = 1..Len(chain)
      /\ DOMAIN chain' = 1..(Len(chain) + 1) /\ Len(chain') = Len(chain) + 1
      /\ \A i \in 1..Len(chain) : chain'[i] = chain[i]
      /\ chain'[Len(chain) + 1] = b
  BY AppendProperties, LenProperties
<1> QED
  BY <1>1

\* What the node and others do keeps the shape of the chain.
LEMMA EnvironmentKeepsType ==
  ASSUME ChainTypeOK, OwnAreSigned, NEW kinds \in SUBSET ForeignKinds, ChainNext(kinds)
  PROVE  ChainTypeOK' /\ OwnAreSigned' /\ UNCHANGED signed
<1>1. /\ signed \in Seq(Transactions) /\ chain \in Seq(Blocks)
      /\ wire \in SUBSET (1..Len(signed)) /\ mempool \in SUBSET (1..Len(signed))
  BY DEF ChainTypeOK
<1>2. /\ UNCHANGED signed
      /\ wire' \in SUBSET wire /\ foreign' \in Nat /\ reorgs' \in Nat /\ losses' \in Nat
      /\ Waits \/ (\E b \in Blocks : b.kind \in kinds \cup {"own"} /\ Adds(b)) \/ Drops
  BY ChainMoves
<1>3. ASSUME chain' \in Seq(Blocks), OwnAreSigned', mempool' \in SUBSET (1..Len(signed))
      PROVE  ChainTypeOK' /\ OwnAreSigned' /\ UNCHANGED signed
  BY <1>1, <1>2, <1>3, Zenon DEF ChainTypeOK
<1>4. CASE Waits
  <2>1. OwnAreSigned'
    BY <1>2, <1>4 DEF Waits, OwnAreSigned
  <2> QED
    BY <1>1, <1>3, <1>4, <2>1 DEF Waits
<1>5. ASSUME NEW b \in Blocks, Adds(b) PROVE ChainTypeOK' /\ OwnAreSigned' /\ UNCHANGED signed
  <2>1. /\ chain' \in Seq(Blocks)
        /\ DOMAIN chain' = DOMAIN chain \cup {Len(chain) + 1}
        /\ \A i \in DOMAIN chain : chain'[i] = chain[i]
        /\ chain'[Len(chain) + 1] = b
    BY <1>1, <1>5, Added DEF Adds
  <2>2. mempool' \in SUBSET (1..Len(signed)) /\ (b.kind = "own" => b.by \in 1..Len(signed))
    BY <1>1, <1>5 DEF Adds
  <2>3. OwnAreSigned'
    BY <1>2, <2>1, <2>2 DEF OwnAreSigned
  <2> QED
    BY <1>3, <2>1, <2>2, <2>3
<1>6. CASE Drops
  <2>1. /\ chain' \in Seq(Blocks) /\ Len(chain) \in Nat \ {0}
        /\ DOMAIN chain' = 1..(Len(chain) - 1) /\ DOMAIN chain = 1..Len(chain)
        /\ \A i \in 1..(Len(chain) - 1) : chain'[i] = chain[i]
    BY <1>1, <1>6, FrontAndLast, LenProperties DEF Drops
  <2>2. OwnAreSigned'
    BY <1>2, <2>1 DEF OwnAreSigned
  <2> QED
    BY <1>3, <1>6, <2>1, <2>2 DEF Drops
<1> QED
  BY <1>2, <1>4, <1>5, <1>6

--------------------------------------------------------------------------------
(* Journals and how they grow.                                             *)

\* b knows of every step and profile what a knows.
Keeps(a, b) ==
  /\ \A s \in Steps : LET x == a.step[s]  y == b.step[s] IN
       /\ x.prepared => y.prepared
       /\ x.approved # NoApproval => y.approved = x.approved
       /\ x.execution # 0 => y.execution = x.execution
       /\ x.effect # NoEffect => y.effect = x.effect
  /\ \A i \in 1..Services : a.profile[i] # 0 => b.profile[i] = a.profile[i]

Grown(a, b) == a # NoJournal => b # NoJournal /\ Keeps(a, b)

\* The steps before s are complete.
Before(j, s) == \A p \in 0..(s - 1) : Done(j, p)

\* Steps are numbered from the deployment on.
LEMMA StepsAreNumbers ==
  /\ Services \in Nat \ {0} /\ LastStep \in Nat
  /\ Steps = 0..LastStep /\ Steps \subseteq Nat /\ 0 \in Steps
  /\ CallSteps \subseteq Steps
BY OnboardingAssumption DEF Steps, CallSteps, LastStep

\* A call's step has a service.
LEMMA ServiceOfStep ==
  ASSUME NEW s \in CallSteps
  PROVE  ServiceOf(s) \in 1..Services
BY OnboardingAssumption DEF ServiceOf, CallSteps, LastStep

\* A journal keeps itself.
LEMMA GrownIsReflexive == ASSUME NEW a PROVE Grown(a, a)
BY DEF Grown, Keeps

\* What is kept twice is kept.
LEMMA GrownIsTransitive ==
  ASSUME NEW a, NEW b, NEW c, Grown(a, b), Grown(b, c)
  PROVE  Grown(a, c)
BY DEF Grown, Keeps

\* What is complete stays so.
LEMMA BeforeGrows ==
  ASSUME NEW a, NEW b, Keeps(a, b), NEW s \in Steps, Before(a, s)
  PROVE  Before(b, s)
BY StepsAreNumbers DEF Keeps, Before, Done

\* The records of a journal.
LEMMA JournalFields ==
  ASSUME NEW j \in Journals
  PROVE  /\ \A s \in Steps : /\ j.step[s] \in Actions
                              /\ j.step[s].prepared \in BOOLEAN
                              /\ j.step[s].approved \in Approvals \cup {NoApproval}
                              /\ j.step[s].execution \in Nat
                              /\ j.step[s].effect \in Effects \cup {NoEffect}
         /\ \A i \in 1..Services : j.profile[i] \in Nat
         /\ j # NoJournal
BY NoJournalAssumption DEF Journals, Actions

\* A journal in which the record of one step is another.
LEMMA StepAmended ==
  ASSUME NEW j \in Journals, NEW s \in Steps, NEW a \in Actions
  PROVE  LET k == [j EXCEPT !.step[s] = a]
         IN  /\ k \in Journals
             /\ k.profile = j.profile
             /\ \A t \in Steps : k.step[t] = IF t = s THEN a ELSE j.step[t]
BY DEF Journals

\* It has grown when the record has.
LEMMA StepGrown ==
  ASSUME NEW j \in Journals, NEW s \in Steps, NEW a \in Actions,
         /\ j.step[s].prepared => a.prepared
         /\ j.step[s].approved # NoApproval => a.approved = j.step[s].approved
         /\ j.step[s].execution # 0 => a.execution = j.step[s].execution
         /\ j.step[s].effect # NoEffect => a.effect = j.step[s].effect
  PROVE  Grown(j, [j EXCEPT !.step[s] = a])
<1> DEFINE k == [j EXCEPT !.step[s] = a]
<1>1. /\ k \in Journals
      /\ k.profile = j.profile
      /\ \A t \in Steps : k.step[t] = IF t = s THEN a ELSE j.step[t]
  BY StepAmended
<1> HIDE DEF k
<1>2. k # NoJournal
  BY <1>1, JournalFields
<1> QED
  BY <1>1, <1>2 DEF Grown, Keeps, k

\* So has one that gets a first profile.
LEMMA ProfileAmended ==
  ASSUME NEW j \in Journals, NEW i \in 1..Services, NEW n \in Nat, j.profile[i] = 0
  PROVE  /\ [j EXCEPT !.profile[i] = n] \in Journals
         /\ [j EXCEPT !.profile[i] = n].step = j.step
         /\ Grown(j, [j EXCEPT !.profile[i] = n])
<1> DEFINE k == [j EXCEPT !.profile[i] = n]
<1>1. /\ k \in Journals
      /\ k.step = j.step
      /\ \A m \in 1..Services : k.profile[m] = IF m = i THEN n ELSE j.profile[m]
  BY DEF Journals
<1> HIDE DEF k
<1>2. k # NoJournal
  BY <1>1, JournalFields
<1>3. Grown(j, k)
  BY <1>1, <1>2 DEF Grown, Keeps
<1> QED
  BY <1>1, <1>3 DEF k

\* A first prepareOnboarding writes a journal.
LEMMA EmptyJournalType == EmptyJournal \in Journals
BY OnboardingAssumption, StepsAreNumbers DEF EmptyJournal, Journals, Actions, NoAction

--------------------------------------------------------------------------------
(* Transitions.                                                            *)

Places == {"idle", "observe", "look", "absent", "send", "sent", "effect", "profile",
           "run", "sign"} \cup Saving

\* The parts of a transition.
LEMMA TransitionFields ==
  ASSUME NEW x \in Transitions
  PROVE  /\ x.pc \in Places /\ x.kind \in Kinds /\ x.at \in Steps /\ x.send \in BOOLEAN
         /\ x.mem \in Journals \cup {NoJournal}
         /\ x.pc # "idle" => x.mem \in Journals
         /\ x = [pc |-> x.pc, kind |-> x.kind, at |-> x.at, send |-> x.send,
                 mem |-> x.mem]
BY DEF Transitions, Places

\* Parts that make a transition.
LEMMA TransitionMade ==
  ASSUME NEW p \in Places, NEW k \in Kinds, NEW s \in Steps, NEW b \in BOOLEAN,
         NEW j \in Journals
  PROVE  [pc |-> p, kind |-> k, at |-> s, send |-> b, mem |-> j] \in Transitions
BY NoJournalAssumption DEF Transitions, Places

\* No transition is one too.
LEMMA IdleIsTransition == Idle \in Transitions /\ Idle.pc = "idle"
BY StepsAreNumbers DEF Idle, Transitions, Kinds

--------------------------------------------------------------------------------
(* The invariant.                                                          *)

\* A journal names only signed transactions.
ExecutionsSigned(j) ==
  j # NoJournal => \A s \in Steps : j.step[s].execution <= Len(signed)

Walking == {"observe", "saveAgain", "look", "absent", "send", "sent", "effect", "profile",
            "saveEffect", "saveProfile"}

\* Where a transition is in its journal: reconcile comes to a step when those before it
\* are complete, acts on the transaction that is named there, and goes on from an effect;
\* what is signed had no transaction.
Walks(x) ==
  /\ x.pc \in Walking => Before(x.mem, x.at)
  /\ x.pc = "saveNew" => x.at = 0
  /\ x.pc \in {"profile", "saveEffect", "saveProfile"} => Done(x.mem, x.at)
  /\ x.pc \in {"saveAgain", "look", "absent", "send", "sent", "effect"} =>
       x.mem.step[x.at].execution # 0
  /\ x.pc = "sign" => x.mem.step[x.at].execution = 0

\* From the second writing of the journal to the broadcast, what is on disk is what the
\* transition knows, and it is there for good.
Synced(x) ==
  /\ x.send /\ x.pc \in {"look", "absent", "send"} => durable = x.mem /\ disk = x.mem
  /\ x.pc = "send" => x.send

\* What a loss of power leaves, what is on disk and what the transition knows are one
\* journal at three times.
Ordered(x) == Grown(durable, disk) /\ (x.pc # "idle" => Grown(disk, x.mem))

\* What was sent is durable, with all that it builds on.
AllSent ==
  \A h \in sent : /\ durable # NoJournal
                   /\ \E s \in Steps : durable.step[s].execution = h /\ Before(durable, s)

IInv ==
  /\ OwnAreSigned
  /\ ExecutionsSigned(disk) /\ ExecutionsSigned(durable) /\ ExecutionsSigned(op.mem)
  /\ Walks(op) /\ Synced(op) /\ Ordered(op)
  /\ AllSent

\* Nothing is written, sent or mined at first.
LEMMA InitEstablishes ==
  ASSUME Init
  PROVE  TypeOK /\ IInv
<1>1. ChainTypeOK
  BY EmptySeq DEF Init, ChainInit, ChainTypeOK
<1>2. TypeOK
  BY <1>1, IdleIsTransition DEF Init, TypeOK
<1>3. chain = <<>> /\ DOMAIN chain = {}
  BY EmptySeq DEF Init, ChainInit
<1>4. OwnAreSigned
  BY <1>3 DEF OwnAreSigned
<1>5. /\ disk = NoJournal /\ durable = NoJournal /\ sent = {}
      /\ op.pc = "idle" /\ op.mem = NoJournal /\ ~op.send
  BY DEF Init, Idle
<1> QED
  BY <1>2, <1>4, <1>5
  DEF IInv, ExecutionsSigned, Walks, Walking, Synced, Ordered, Grown, AllSent

\* A step that only moves the transition on.
LEMMA OpMoves ==
  ASSUME TypeOK, IInv, UNCHANGED <<chainVars, disk, durable, submitted, sent, breaks>>,
         op' \in Transitions, ExecutionsSigned(op'.mem), Walks(op'), Synced(op'),
         op'.pc # "idle" => Grown(disk, op'.mem)
  PROVE  TypeOK' /\ IInv'
<1>1. TypeOK'
  BY DEF TypeOK, ChainTypeOK, chainVars
<1>2. OwnAreSigned'
  BY DEF IInv, OwnAreSigned, chainVars
<1>3. /\ ExecutionsSigned(disk)' /\ ExecutionsSigned(durable)' /\ ExecutionsSigned(op.mem)'
  BY DEF IInv, ExecutionsSigned, chainVars
<1>4. Walks(op)' /\ Synced(op)'
  BY DEF Walks, Synced, Before, Done
<1>5. Ordered(op)' /\ AllSent'
  BY DEF IInv, Ordered, Grown, Keeps, AllSent, Before, Done
<1> QED
  BY <1>1, <1>2, <1>3, <1>4, <1>5 DEF IInv

\* The end of a transition that has not written.
LEMMA OpEnds ==
  ASSUME TypeOK, IInv, Unlocks, Quiet
  PROVE  TypeOK' /\ IInv'
<1>1. /\ op' = Idle /\ op'.pc = "idle" /\ op' \in Transitions
      /\ op'.mem = NoJournal /\ ~op'.send
  BY IdleIsTransition DEF Unlocks, Idle
<1>2. ExecutionsSigned(op'.mem) /\ Walks(op') /\ Synced(op')
  BY <1>1 DEF ExecutionsSigned, Walks, Walking, Synced
<1> QED
  BY <1>1, <1>2, OpMoves DEF Quiet

\* A transition goes on at another place.
LEMMA OpGoes ==
  ASSUME TypeOK, IInv, Quiet, op.pc # "idle", NEW p \in Places \ {"idle"},
         op' \in Transitions, op'.pc = p, op'.mem = op.mem, Walks(op'), Synced(op')
  PROVE  TypeOK' /\ IInv'
<1>1. ExecutionsSigned(op'.mem) /\ Grown(disk, op'.mem)
  BY DEF IInv, ExecutionsSigned, Ordered
<1> QED
  BY <1>1, OpMoves DEF Quiet

\* Goes changes the place only.
LEMMA GoesIsTransition ==
  ASSUME op \in Transitions, op.pc # "idle", NEW p \in Places \ {"idle"}, Goes(p)
  PROVE  /\ op' \in Transitions /\ op'.pc = p /\ op'.kind = op.kind /\ op'.at = op.at
         /\ op'.send = op.send /\ op'.mem = op.mem
<1>1. op = [pc |-> op.pc, kind |-> op.kind, at |-> op.at, send |-> op.send, mem |-> op.mem]
  BY TransitionFields
<1>2. op' = [pc |-> p, kind |-> op.kind, at |-> op.at, send |-> op.send, mem |-> op.mem]
  BY <1>1 DEF Goes
<1> QED
  BY <1>2, TransitionFields, TransitionMade

--------------------------------------------------------------------------------
(* One lemma per step of a transition.                                     *)

\* A transition begins with what is on disk, or with an empty journal where there is none.
LEMMA BeginKeeps ==
  ASSUME TypeOK, IInv, NEW kind \in Kinds, Begin(kind)
  PROVE  TypeOK' /\ IInv'
<1>1. CASE /\ disk = NoJournal
           /\ op' = [Idle EXCEPT !.pc = "saveNew", !.kind = kind, !.mem = EmptyJournal]
  <2>1. op' = [pc |-> "saveNew", kind |-> kind, at |-> 0, send |-> FALSE,
               mem |-> EmptyJournal]
    BY <1>1 DEF Idle
  <2>2. op' \in Transitions
    BY <2>1, EmptyJournalType, StepsAreNumbers, TransitionMade DEF Places, Saving
  <2>3. \A s \in Steps : EmptyJournal.step[s].execution = 0
    BY DEF EmptyJournal, NoAction
  <2>4. signed \in Seq(Transactions) /\ Len(signed) \in Nat
    BY LenProperties DEF TypeOK, ChainTypeOK
  <2>5. ExecutionsSigned(op'.mem)
    BY <2>1, <2>3, <2>4 DEF ExecutionsSigned
  <2>6. Walks(op') /\ Synced(op')
    BY <2>1 DEF Walks, Walking, Synced
  <2> QED
    BY <1>1, <2>2, <2>5, <2>6, OpMoves DEF Begin, Quiet, Grown
<1>2. CASE /\ disk # NoJournal
           /\ op' = [Idle EXCEPT !.pc = "observe", !.kind = kind, !.mem = disk]
  <2>1. op' = [pc |-> "observe", kind |-> kind, at |-> 0, send |-> FALSE, mem |-> disk]
    BY <1>2 DEF Idle
  <2>2. op' \in Transitions
    <3>1. disk \in Journals /\ "observe" \in Places /\ 0 \in Steps
      BY <1>2, StepsAreNumbers DEF TypeOK, Places
    <3> QED
      BY <2>1, <3>1, TransitionMade
  <2>3. Walks(op') /\ Synced(op')
    BY <2>1 DEF Walks, Walking, Synced, Before
  <2>4. ExecutionsSigned(op'.mem) /\ Grown(disk, op'.mem)
    BY <2>1, GrownIsReflexive DEF IInv
  <2> QED
    BY <2>2, <2>3, <2>4, OpMoves DEF Begin, Quiet
<1>3. CASE op' = op
  <2>1. op' \in Transitions /\ ExecutionsSigned(op'.mem) /\ Walks(op') /\ Synced(op')
    BY <1>3 DEF IInv, TypeOK
  <2>2. op'.pc # "idle" => Grown(disk, op'.mem)
    BY <1>3 DEF IInv, Ordered
  <2> QED
    BY <2>1, <2>2, OpMoves DEF Begin, Quiet
<1> QED
  BY <1>1, <1>2, <1>3 DEF Begin

\* reconcile returns to the operation or ends with it.
LEMMA ReturnsKeeps ==
  ASSUME TypeOK, IInv, op.pc # "idle", Returns, Quiet
  PROVE  TypeOK' /\ IInv'
<1>1. CASE op.send
  BY <1>1, OpEnds DEF Returns
<1>2. CASE ~op.send
  <2>1. Goes("run") /\ op \in Transitions
    BY <1>2 DEF Returns, TypeOK
  <2>2. /\ op' \in Transitions /\ op'.pc = "run" /\ op'.mem = op.mem
    BY <2>1, GoesIsTransition DEF Places
  <2>3. Walks(op') /\ Synced(op')
    BY <2>2 DEF Walks, Walking, Synced
  <2> QED
    BY <2>2, <2>3, OpGoes DEF Places
<1> QED
  BY <1>1, <1>2

\* Where a transition is after Advances: at an end or at the next step.
LEMMA AdvancesTo ==
  ASSUME op \in Transitions, op.pc # "idle", Advances
  PROVE  \/ op' = Idle
         \/ /\ op' \in Transitions /\ op'.mem = op.mem /\ op'.send = op.send
            /\ \/ op'.pc = "run"
               \/ op'.pc = "observe" /\ op'.at = op.at + 1
<1>1. CASE op.at = LastStep
  <2>1. Unlocks \/ Goes("run")
    BY <1>1 DEF Advances, Returns
  <2> QED
    BY <2>1, GoesIsTransition DEF Unlocks, Places
<1>2. CASE op.at # LastStep
  <2>1. /\ op = [pc |-> op.pc, kind |-> op.kind, at |-> op.at, send |-> op.send,
                  mem |-> op.mem]
        /\ op.at \in Steps /\ op.kind \in Kinds /\ op.send \in BOOLEAN /\ op.mem \in Journals
    BY TransitionFields
  <2>2. op' = [pc |-> "observe", kind |-> op.kind, at |-> op.at + 1, send |-> op.send,
                mem |-> op.mem]
    BY <1>2, <2>1 DEF Advances
  <2>3. op.at + 1 \in Steps
    BY <1>2, <2>1, StepsAreNumbers
  <2>4. op' \in Transitions
    BY <2>1, <2>2, <2>3, TransitionMade DEF Places
  <2> QED
    BY <2>2, <2>4
<1> QED
  BY <1>1, <1>2

\* Past a step that is complete.
LEMMA AdvancesKeeps ==
  ASSUME TypeOK, IInv, op.pc \in Walking, Done(op.mem, op.at), Advances, Quiet
  PROVE  TypeOK' /\ IInv'
<1>1. op \in Transitions /\ op.pc # "idle"
  BY DEF TypeOK, Walking
<1>2. CASE op' = Idle
  BY <1>2, OpEnds DEF Unlocks
<1>3. CASE /\ op' \in Transitions /\ op'.mem = op.mem
           /\ \/ op'.pc = "run"
              \/ op'.pc = "observe" /\ op'.at = op.at + 1
  <2>1. Before(op.mem, op.at) /\ op.at \in Nat
    BY <1>1, TransitionFields, StepsAreNumbers DEF IInv, Walks
  <2>2. Before(op.mem, op.at + 1)
    BY <2>1 DEF Before
  <2>3. Walks(op') /\ Synced(op')
    BY <1>3, <2>2 DEF Walks, Walking, Synced
  <2> QED
    BY <1>1, <1>3, <2>3, OpGoes DEF Places
<1> QED
  BY <1>1, <1>2, <1>3, AdvancesTo

\* A transition that sends writes again before it looks.
LEMMA ResyncsKeeps ==
  ASSUME TypeOK, IInv, Resyncs
  PROVE  TypeOK' /\ IInv'
<1>1. op \in Transitions /\ op.pc = "observe" /\ Before(op.mem, op.at) /\ Quiet
  BY DEF Resyncs, TypeOK, IInv, Walks, Walking
<1>2. CASE Hash = 0 /\ Returns
  BY <1>1, <1>2, ReturnsKeeps
<1>3. CASE Hash # 0 /\ Goes(IF op.send THEN "saveAgain" ELSE "look")
  <2> DEFINE p == IF op.send THEN "saveAgain" ELSE "look"
  <2>1. p \in Places \ {"idle"}
    BY DEF Places, Saving
  <2>2. /\ op' \in Transitions /\ op'.pc = p /\ op'.at = op.at
        /\ op'.send = op.send /\ op'.mem = op.mem
    BY <1>1, <1>3, <2>1, GoesIsTransition
  <2>3. Walks(op')
    BY <1>1, <1>3, <2>2 DEF Walks, Walking, Hash
  <2>4. Synced(op')
    BY <2>2 DEF Synced
  <2> QED
    BY <1>1, <2>1, <2>2, <2>3, <2>4, OpGoes
<1> QED
  BY <1>2, <1>3 DEF Resyncs

\* From a look at the hash to what is done about it.
LEMMA StaysAt ==
  ASSUME TypeOK, IInv, Quiet, op.pc \in Walking, Hash # 0, NEW p, Goes(p),
         \/ p \in {"sent", "effect"}
         \/ p = "absent" /\ op.pc = "look"
         \/ p = "send" /\ op.pc = "absent" /\ op.send
  PROVE  TypeOK' /\ IInv'
<1>1. op \in Transitions /\ op.pc # "idle" /\ p \in Places \ {"idle"} /\ Before(op.mem, op.at)
  BY DEF TypeOK, Walking, Places, IInv, Walks
<1>2. /\ op' \in Transitions /\ op'.pc = p /\ op'.at = op.at
      /\ op'.send = op.send /\ op'.mem = op.mem
  BY <1>1, GoesIsTransition
<1>3. Walks(op')
  BY <1>1, <1>2 DEF Walks, Walking, Hash
<1>4. Synced(op')
  BY <1>2 DEF Synced, IInv
<1> QED
  BY <1>1, <1>2, <1>3, <1>4, OpGoes

\* A look at the receipt.
LEMMA ObserveKeeps ==
  ASSUME TypeOK, IInv, Observe
  PROVE  TypeOK' /\ IInv'
<1>1. op.pc = "look" /\ op.pc \in Walking /\ Hash # 0 /\ Quiet
  BY DEF Observe, IInv, Walks, Walking, Hash
<1>2. Unlocks \/ Goes("effect") \/ Goes("absent")
  BY DEF Observe
<1> QED
  BY <1>1, <1>2, OpEnds, StaysAt

\* Only a transition that sends goes on to the broadcast.
LEMMA AbsentKeeps ==
  ASSUME TypeOK, IInv, Absent
  PROVE  TypeOK' /\ IInv'
<1>1. op.pc = "absent" /\ op.pc \in Walking /\ Hash # 0 /\ Quiet
  BY DEF Absent, IInv, Walks, Walking, Hash
<1>2. Unlocks \/ (op.send /\ Goes("send")) \/ Returns
  BY DEF Absent
<1> QED
  BY <1>1, <1>2, OpEnds, StaysAt, ReturnsKeeps

\* The answer to a broadcast.
LEMMA SettlesKeeps ==
  ASSUME TypeOK, IInv, Settles
  PROVE  TypeOK' /\ IInv'
<1>1. op.pc = "sent" /\ op.pc \in Walking /\ Hash # 0 /\ Quiet
  BY DEF Settles, IInv, Walks, Walking, Hash
<1>2. Unlocks \/ Goes("effect")
  BY DEF Settles
<1> QED
  BY <1>1, <1>2, OpEnds, StaysAt

\* What is sent is durable, as nothing has changed since it was written.
LEMMA SendsKeeps ==
  ASSUME TypeOK, IInv, Sends
  PROVE  TypeOK' /\ IInv'
<1>1. /\ op.pc = "send" /\ op.pc \in Walking /\ Hash # 0 /\ op.send
      /\ durable = op.mem /\ disk = op.mem /\ Before(op.mem, op.at)
  BY DEF Sends, IInv, Walks, Walking, Hash, Synced
<1>2. op \in Transitions /\ op.at \in Steps /\ op.mem \in Journals
  BY <1>1, TransitionFields DEF TypeOK
<1>3. CASE Quiet /\ (Unlocks \/ Goes("effect"))
  BY <1>1, <1>3, OpEnds, StaysAt
<1>4. CASE /\ submitted' = submitted \cup {Hash} /\ sent' = sent \cup {Hash}
           /\ wire' = wire \cup {Hash} /\ Goes("sent")
           /\ UNCHANGED <<signed, mempool, chain, foreign, reorgs, losses, disk, durable,
                          breaks>>
  <2>1. op' \in Transitions /\ op'.pc = "sent" /\ op'.at = op.at /\ op'.mem = op.mem
    BY <1>1, <1>2, <1>4, GoesIsTransition DEF Places
  <2>2. Len(signed) \in Nat /\ Hash \in Nat /\ Hash <= Len(signed)
    BY <1>1, <1>2, JournalFields, LenProperties
       DEF Hash, IInv, ExecutionsSigned, TypeOK, ChainTypeOK
  <2>3. Hash \in 1..Len(signed)
    BY <1>1, <2>2
  <2>4. TypeOK'
    BY <1>4, <2>1, <2>3 DEF TypeOK, ChainTypeOK
  <2>5. OwnAreSigned'
    BY <1>4 DEF IInv, OwnAreSigned
  <2>6. /\ ExecutionsSigned(disk)' /\ ExecutionsSigned(durable)' /\ ExecutionsSigned(op.mem)'
    BY <1>4, <2>1 DEF IInv, ExecutionsSigned
  <2>7. Walks(op)'
    BY <1>1, <2>1 DEF Walks, Walking, Hash, Before, Done
  <2>8. Synced(op)' /\ Ordered(op)'
    BY <1>1, <1>4, <2>1 DEF Synced, Ordered, IInv, Grown, Keeps
  <2>9. AllSent'
    <3>1. durable # NoJournal
      BY <1>1, <1>2, JournalFields
    <3> SUFFICES ASSUME NEW h \in sent'
                 PROVE  \E s \in Steps : durable.step[s].execution = h /\ Before(durable, s)
      BY <1>4, <3>1 DEF AllSent, Before, Done
    <3>2. CASE h \in sent
      BY <3>2 DEF IInv, AllSent
    <3>3. CASE h = Hash
      BY <1>1, <1>2, <3>3 DEF Hash
    <3> QED
      BY <1>4, <3>2, <3>3
  <2> QED
    BY <2>4, <2>5, <2>6, <2>7, <2>8, <2>9 DEF IInv
<1> QED
  BY <1>3, <1>4 DEF Sends, Quiet, chainVars

\* What a receipt says can be recorded.
LEMMA EffectType ==
  ASSUME ChainTypeOK, NEW h, Mined(h)
  PROVE  EffectOf(h) \in Effects /\ EffectOf(h) # NoEffect
<1> DEFINE i == BlockOf(h)
<1>1. i \in DOMAIN chain
  BY DEF Mined, BlockOf
<1>2. DOMAIN chain = 1..Len(chain) /\ Len(chain) \in Nat
  BY LenProperties DEF ChainTypeOK
<1> HIDE DEF i
<1>3. i \in Nat /\ chain[i] \in Blocks
  BY <1>1, <1>2, ElementOfSeq DEF ChainTypeOK
<1>4. chain[i].fork \in Nat /\ chain[i].agent \in Nat
  BY <1>3 DEF Blocks
<1>5. EffectOf(h) = [height |-> i, fork |-> chain[i].fork, agent |-> chain[i].agent]
  BY DEF EffectOf, i
<1> QED
  BY <1>3, <1>4, <1>5, NoEffectAssumption DEF Effects

\* A transition whose journal gets another record at s.
LEMMA OpAmends ==
  ASSUME TypeOK, IInv, Quiet, op.pc # "idle", NEW p \in Places \ {"idle"},
         NEW s \in Steps, NEW a \in Actions,
         op' = [op EXCEPT !.pc = p, !.mem = [op.mem EXCEPT !.step[s] = a]],
         /\ op.mem.step[s].prepared => a.prepared
         /\ op.mem.step[s].approved # NoApproval => a.approved = op.mem.step[s].approved
         /\ op.mem.step[s].execution # 0 => a.execution = op.mem.step[s].execution
         /\ op.mem.step[s].effect # NoEffect => a.effect = op.mem.step[s].effect,
         a.execution <= Len(signed),
         Walks(op'), Synced(op')
  PROVE  TypeOK' /\ IInv'
<1> DEFINE k == [op.mem EXCEPT !.step[s] = a]
<1>1. /\ op = [pc |-> op.pc, kind |-> op.kind, at |-> op.at, send |-> op.send,
                mem |-> op.mem]
      /\ op.at \in Steps /\ op.kind \in Kinds /\ op.send \in BOOLEAN /\ op.mem \in Journals
  BY TransitionFields DEF TypeOK
<1>2. /\ k \in Journals /\ Grown(op.mem, k)
      /\ \A t \in Steps : k.step[t] = IF t = s THEN a ELSE op.mem.step[t]
  BY <1>1, StepAmended, StepGrown
<1>3. op' = [pc |-> p, kind |-> op.kind, at |-> op.at, send |-> op.send, mem |-> k]
  BY <1>1
<1> HIDE DEF k
<1>4. op' \in Transitions /\ op'.mem = k
  <2>1. [pc |-> p, kind |-> op.kind, at |-> op.at, send |-> op.send, mem |-> k]
           \in Transitions
    BY <1>1, <1>2, TransitionMade
  <2>2. [pc |-> p, kind |-> op.kind, at |-> op.at, send |-> op.send, mem |-> k].mem = k
    BY Zenon
  <2> QED
    BY <1>3, <2>1, <2>2, Zenon
<1>5. ExecutionsSigned(k)
  BY <1>1, <1>2, JournalFields DEF IInv, ExecutionsSigned
<1>6. Grown(disk, k)
  BY <1>2, GrownIsTransitive DEF IInv, Ordered
<1> QED
  BY <1>4, <1>5, <1>6, OpMoves DEF Quiet

\* An effect is recorded where there was none.
LEMMA ReadEffectKeeps ==
  ASSUME TypeOK, IInv, ReadEffect
  PROVE  TypeOK' /\ IInv'
<1>1. /\ op.pc = "effect" /\ op.pc \in Walking /\ Hash # 0 /\ Quiet
      /\ Before(op.mem, op.at) /\ op \in Transitions
  BY DEF ReadEffect, IInv, Walks, Walking, Hash, TypeOK
<1>2. /\ op.at \in Steps /\ op.mem \in Journals
      /\ op = [pc |-> op.pc, kind |-> op.kind, at |-> op.at, send |-> op.send,
                mem |-> op.mem]
  BY <1>1, TransitionFields
<1>3. CASE Unlocks
  BY <1>1, <1>3, OpEnds
<1>4. CASE Done(op.mem, op.at) /\ Goes("profile")
  <2>1. op' \in Transitions /\ op'.pc = "profile" /\ op'.at = op.at /\ op'.mem = op.mem
    BY <1>1, <1>4, GoesIsTransition DEF Places
  <2>2. Walks(op') /\ Synced(op')
    BY <1>1, <1>4, <2>1 DEF Walks, Walking, Synced
  <2> QED
    BY <1>1, <2>1, <2>2, OpGoes DEF Places
<1>5. CASE /\ Mined(Hash) /\ ~Done(op.mem, op.at)
           /\ op' = [op EXCEPT !.pc = "saveEffect", !.mem.step[op.at].effect = EffectOf(Hash)]
  <2> DEFINE s == op.at
             a == [op.mem.step[s] EXCEPT !.effect = EffectOf(Hash)]
             k == [op.mem EXCEPT !.step[s] = a]
  <2>1. EffectOf(Hash) \in Effects /\ EffectOf(Hash) # NoEffect
    BY <1>5, EffectType DEF TypeOK
  <2>2. op.mem.step[s] \in Actions
    BY <1>2, JournalFields
  <2>3. /\ a \in Actions /\ a.prepared = op.mem.step[s].prepared
        /\ a.approved = op.mem.step[s].approved /\ a.execution = op.mem.step[s].execution
        /\ a.effect = EffectOf(Hash)
    BY <2>1, <2>2 DEF Actions
  <2>4. op.mem.step[s].effect = NoEffect /\ op.mem.step[s].execution <= Len(signed)
    BY <1>2, <1>5, JournalFields DEF Done, IInv, ExecutionsSigned
  <2>5. op' = [op EXCEPT !.pc = "saveEffect", !.mem = k]
    BY <1>5
  <2>6. k \in Journals /\ \A t \in Steps : k.step[t] = IF t = s THEN a ELSE op.mem.step[t]
    BY <1>2, <2>3, StepAmended
  <2>7. Grown(op.mem, k) /\ op.mem # NoJournal
    BY <1>2, <2>3, <2>4, StepGrown, JournalFields
  <2> HIDE DEF a, k
  <2>8. op'.pc = "saveEffect" /\ op'.at = s /\ op'.send = op.send /\ op'.mem = k
    BY <1>2, <2>5
  <2>9. Before(k, s)
    BY <1>1, <1>2, <2>7, BeforeGrows DEF Grown
  <2>10. Done(k, s)
    BY <1>2, <2>1, <2>3, <2>6 DEF Done
  <2>11. Walks(op') /\ Synced(op')
    BY <2>8, <2>9, <2>10 DEF Walks, Walking, Synced
  <2>12. op.mem.step[s].prepared => a.prepared
    BY <2>3
  <2> QED
    BY <1>1, <1>2, <2>3, <2>4, <2>5, <2>11, OpAmends DEF k, Places, Saving
<1> QED
  BY <1>3, <1>4, <1>5 DEF ReadEffect

\* A profile is made where there was none.
LEMMA MakesProfileKeeps ==
  ASSUME TypeOK, IInv, MakesProfile
  PROVE  TypeOK' /\ IInv'
<1> DEFINE i == ServiceOf(op.at)
           agent == op.mem.step[op.at].effect.agent
<1>1. /\ op.pc = "profile" /\ op.pc \in Walking /\ Quiet /\ op.pc # "idle"
      /\ Before(op.mem, op.at) /\ Done(op.mem, op.at) /\ op \in Transitions
  BY DEF MakesProfile, IInv, Walks, Walking, TypeOK
<1>2. /\ op.at \in Steps /\ op.mem \in Journals
      /\ op = [pc |-> op.pc, kind |-> op.kind, at |-> op.at, send |-> op.send,
                mem |-> op.mem]
      /\ op.kind \in Kinds /\ op.send \in BOOLEAN
  BY <1>1, TransitionFields
<1>3. CASE Returns
  BY <1>1, <1>3, ReturnsKeeps
<1>4. CASE Advances
  BY <1>1, <1>4, AdvancesKeeps
<1>5. CASE /\ CallOf(op.at) = "register" /\ op.mem.profile[i] = 0
           /\ op' = [op EXCEPT !.pc = "saveProfile", !.mem.profile[i] = agent]
  <2> DEFINE k == [op.mem EXCEPT !.profile[i] = agent]
  <2>1. op.at # 0
    BY <1>5 DEF CallOf
  <2>2. op.at \in CallSteps
    BY <1>2, <2>1, StepsAreNumbers DEF CallSteps
  <2>3. i \in 1..Services
    BY <2>2, ServiceOfStep
  <2>4. op.mem.step[op.at].effect \in Effects
    BY <1>1, <1>2, JournalFields DEF Done
  <2>5. agent \in Nat
    BY <2>4 DEF Effects
  <2> HIDE DEF i, agent
  <2>6. k \in Journals /\ k.step = op.mem.step /\ Grown(op.mem, k)
    BY <1>2, <1>5, <2>3, <2>5, ProfileAmended
  <2>7. op' = [pc |-> "saveProfile", kind |-> op.kind, at |-> op.at, send |-> op.send,
                mem |-> k]
    BY <1>2, <1>5 DEF i, agent
  <2> HIDE DEF k
  <2>8. [pc |-> "saveProfile", kind |-> op.kind, at |-> op.at, send |-> op.send, mem |-> k]
           \in Transitions
    BY <1>2, <2>6, TransitionMade DEF Places, Saving
  <2>9. ExecutionsSigned(k) /\ Grown(disk, k)
    BY <1>1, <1>2, <2>6, JournalFields, GrownIsTransitive DEF IInv, ExecutionsSigned, Ordered
  <2>10. Before(k, op.at) /\ Done(k, op.at)
    BY <1>1, <2>6 DEF Before, Done
  <2>11. Walks(op') /\ Synced(op')
    BY <2>7, <2>10 DEF Walks, Walking, Synced
  <2> QED
    BY <1>1, <2>7, <2>8, <2>9, <2>11, OpMoves DEF Quiet
<1> QED
  BY <1>3, <1>4, <1>5 DEF MakesProfile

\* resume walks the steps a second time.
LEMMA RunResumeKeeps ==
  ASSUME TypeOK, IInv, RunResume
  PROVE  TypeOK' /\ IInv'
<1>1. /\ op.pc = "run" /\ op.pc # "idle" /\ Quiet /\ op \in Transitions
      /\ op' = [op EXCEPT !.pc = "observe", !.at = 0, !.send = TRUE]
  BY DEF RunResume, TypeOK
<1>2. /\ op.at \in Steps /\ op.mem \in Journals /\ op.kind \in Kinds
      /\ op = [pc |-> op.pc, kind |-> op.kind, at |-> op.at, send |-> op.send,
                mem |-> op.mem]
  BY <1>1, TransitionFields
<1>3. op' = [pc |-> "observe", kind |-> op.kind, at |-> 0, send |-> TRUE, mem |-> op.mem]
  BY <1>1, <1>2
<1>4. [pc |-> "observe", kind |-> op.kind, at |-> 0, send |-> TRUE, mem |-> op.mem]
         \in Transitions
  BY <1>2, StepsAreNumbers, TransitionMade DEF Places
<1>5. Walks(op') /\ Synced(op')
  BY <1>3 DEF Walks, Walking, Synced, Before
<1> QED
  BY <1>1, <1>3, <1>4, <1>5, OpGoes DEF Places

\* prepareOnboarding does nothing more.
LEMMA RunPrepareKeeps ==
  ASSUME TypeOK, IInv, RunPrepare
  PROVE  TypeOK' /\ IInv'
BY OpEnds DEF RunPrepare

\* An operation saves what it amended: nothing is claimed of where it is.
LEMMA SaveOwn ==
  ASSUME op'.pc = "saveOwn"
  PROVE  Walks(op') /\ Synced(op')
BY DEF Walks, Walking, Synced

\* A reservation.
LEMMA RunNextKeeps ==
  ASSUME TypeOK, IInv, RunNext
  PROVE  TypeOK' /\ IInv'
<1>1. op.pc = "run" /\ op.pc # "idle" /\ Quiet /\ op \in Transitions
  BY DEF RunNext, TypeOK
<1>2. CASE Unlocks
  BY <1>1, <1>2, OpEnds
<1>3. ASSUME NEW s \in Outstanding(op.mem),
             op' = [op EXCEPT !.pc = "saveOwn", !.mem.step[s].prepared = TRUE]
      PROVE  TypeOK' /\ IInv'
  <2> DEFINE a == [op.mem.step[s] EXCEPT !.prepared = TRUE]
  <2>1. /\ s \in Steps /\ op.mem \in Journals
        /\ op = [pc |-> op.pc, kind |-> op.kind, at |-> op.at, send |-> op.send,
                  mem |-> op.mem]
    BY <1>1, StepsAreNumbers, TransitionFields DEF Outstanding
  <2>2. op.mem.step[s] \in Actions /\ op.mem.step[s].execution <= Len(signed)
    BY <2>1, JournalFields DEF IInv, ExecutionsSigned
  <2>3. /\ a \in Actions /\ a.prepared /\ a.approved = op.mem.step[s].approved
        /\ a.execution = op.mem.step[s].execution /\ a.effect = op.mem.step[s].effect
    BY <2>2 DEF Actions
  <2>4. op' = [op EXCEPT !.pc = "saveOwn", !.mem = [op.mem EXCEPT !.step[s] = a]]
    BY <1>3
  <2>5. op'.pc = "saveOwn"
    BY <2>1, <2>4
  <2> HIDE DEF a
  <2>6. Walks(op') /\ Synced(op')
    BY <2>5, SaveOwn
  <2> QED
    BY <1>1, <2>1, <2>2, <2>3, <2>4, <2>6, OpAmends DEF Places, Saving
<1> QED
  BY <1>2, <1>3 DEF RunNext

\* An approval where there was none, or the same.
LEMMA RunApproveKeeps ==
  ASSUME TypeOK, IInv, RunApprove
  PROVE  TypeOK' /\ IInv'
<1>1. op.pc = "run" /\ op.pc # "idle" /\ Quiet /\ op \in Transitions
  BY DEF RunApprove, TypeOK
<1>2. CASE Unlocks
  BY <1>1, <1>2, OpEnds
<1>3. ASSUME NEW v \in Approvals, NEW s \in Outstanding(op.mem), Approvable(s, v),
             op' = [op EXCEPT !.pc = "saveOwn", !.mem.step[s].approved = v]
      PROVE  TypeOK' /\ IInv'
  <2> DEFINE a == [op.mem.step[s] EXCEPT !.approved = v]
  <2>1. /\ s \in Steps /\ op.mem \in Journals
        /\ op = [pc |-> op.pc, kind |-> op.kind, at |-> op.at, send |-> op.send,
                  mem |-> op.mem]
    BY <1>1, StepsAreNumbers, TransitionFields DEF Outstanding
  <2>2. op.mem.step[s] \in Actions /\ op.mem.step[s].execution <= Len(signed)
    BY <2>1, JournalFields DEF IInv, ExecutionsSigned
  <2>3. /\ a \in Actions /\ a.prepared = op.mem.step[s].prepared /\ a.approved = v
        /\ a.execution = op.mem.step[s].execution /\ a.effect = op.mem.step[s].effect
    BY <2>2 DEF Actions
  <2>4. op' = [op EXCEPT !.pc = "saveOwn", !.mem = [op.mem EXCEPT !.step[s] = a]]
    BY <1>3
  <2>5. op'.pc = "saveOwn"
    BY <2>1, <2>4
  <2>6. op.mem.step[s].approved # NoApproval => a.approved = op.mem.step[s].approved
    BY <1>3, <2>3 DEF Approvable
  <2> HIDE DEF a
  <2>7. Walks(op') /\ Synced(op')
    BY <2>5, SaveOwn
  <2>8. /\ op.mem.step[s].prepared => a.prepared
        /\ op.mem.step[s].execution # 0 => a.execution = op.mem.step[s].execution
        /\ op.mem.step[s].effect # NoEffect => a.effect = op.mem.step[s].effect
        /\ a.execution <= Len(signed) /\ a \in Actions
    BY <2>2, <2>3
  <2>9. "saveOwn" \in Places \ {"idle"}
    BY DEF Places, Saving
  <2> QED
    BY <1>1, <2>1, <2>4, <2>6, <2>7, <2>8, <2>9, OpAmends
<1> QED
  BY <1>2, <1>3 DEF RunApprove

\* What is to be signed has no transaction.
LEMMA RunExecuteKeeps ==
  ASSUME TypeOK, IInv, RunExecute
  PROVE  TypeOK' /\ IInv'
<1>1. op.pc = "run" /\ op.pc # "idle" /\ Quiet /\ op \in Transitions
  BY DEF RunExecute, TypeOK
<1>2. CASE Unlocks
  BY <1>1, <1>2, OpEnds
<1>3. ASSUME NEW s \in Unfinished, Signable(s), op' = [op EXCEPT !.pc = "sign", !.at = s]
      PROVE  TypeOK' /\ IInv'
  <2>1. /\ s \in Steps /\ op.mem \in Journals /\ op.kind \in Kinds /\ op.send \in BOOLEAN
        /\ op = [pc |-> op.pc, kind |-> op.kind, at |-> op.at, send |-> op.send,
                  mem |-> op.mem]
    BY <1>1, <1>3, StepsAreNumbers, TransitionFields DEF Outstanding, Unfinished
  <2>2. op' = [pc |-> "sign", kind |-> op.kind, at |-> s, send |-> op.send, mem |-> op.mem]
    BY <1>3, <2>1
  <2>3. [pc |-> "sign", kind |-> op.kind, at |-> s, send |-> op.send, mem |-> op.mem]
           \in Transitions
    BY <2>1, TransitionMade DEF Places
  <2>4. Walks(op') /\ Synced(op')
    BY <1>3, <2>2 DEF Walks, Walking, Synced, Signable
  <2> QED
    BY <1>1, <2>2, <2>3, <2>4, OpGoes DEF Places
<1> QED
  BY <1>2, <1>3 DEF RunExecute

\* The signed transaction is new, and its step had none.
LEMMA SignKeeps ==
  ASSUME TypeOK, IInv, Sign
  PROVE  TypeOK' /\ IInv'
<1> DEFINE s == op.at
<1>1. /\ op.pc = "sign" /\ op.pc # "idle" /\ op \in Transitions
      /\ op.mem.step[s].execution = 0
  BY DEF Sign, TypeOK, IInv, Walks
<1>2. /\ s \in Steps /\ op.mem \in Journals /\ op.kind \in Kinds /\ op.send \in BOOLEAN
      /\ op = [pc |-> op.pc, kind |-> op.kind, at |-> op.at, send |-> op.send,
                mem |-> op.mem]
  BY <1>1, TransitionFields
<1>3. CASE Unlocks /\ UNCHANGED signed
  <2>1. Quiet
    BY <1>3 DEF Sign, Quiet, chainVars
  <2> QED
    BY <1>3, <2>1, OpEnds
<1>4. ASSUME ~Unlocks \/ ~UNCHANGED signed PROVE TypeOK' /\ IInv'
  <2> DEFINE t == [call |-> CallOf(s), payerNonce |-> PendingNonce,
                   safeNonce |-> IF s = 0 THEN 0 ELSE s - 1,
                   agent |-> IF CallOf(s) = "publish"
                             THEN op.mem.profile[ServiceOf(s)] ELSE 0]
             a == [op.mem.step[s] EXCEPT !.execution = Len(signed) + 1]
             k == [op.mem EXCEPT !.step[s] = a]
  <2>1. /\ signed' = Append(signed, t)
        /\ op' = [op EXCEPT !.pc = "saveOwn", !.mem = k]
        /\ UNCHANGED <<wire, mempool, chain, foreign, reorgs, losses, disk, durable,
                       submitted, sent, breaks>>
    BY <1>4 DEF Sign
  <2>2. t \in Transactions
    <3>1. CallOf(s) \in {"deploy", "register", "publish"}
      BY DEF CallOf
    <3>2. PendingNonce \in Nat
      BY PendingIsNumber DEF TypeOK
    <3>3. (IF s = 0 THEN 0 ELSE s - 1) \in Nat
      BY <1>2, StepsAreNumbers
    <3>4. CallOf(s) = "publish" => op.mem.profile[ServiceOf(s)] \in Nat
      <4> HAVE CallOf(s) = "publish"
      <4>1. s # 0
        BY DEF CallOf
      <4>2. s \in CallSteps
        BY <1>2, <4>1, StepsAreNumbers DEF CallSteps
      <4> QED
        BY <1>2, <4>2, ServiceOfStep, JournalFields
    <3> QED
      BY <3>1, <3>2, <3>3, <3>4 DEF Transactions, SafeCalls
  <2>3. op.mem.step[s] \in Actions /\ Len(signed) \in Nat /\ signed \in Seq(Transactions)
    BY <1>2, JournalFields, LenProperties DEF TypeOK, ChainTypeOK
  <2>4. /\ a \in Actions /\ a.prepared = op.mem.step[s].prepared
        /\ a.approved = op.mem.step[s].approved /\ a.execution = Len(signed) + 1
        /\ a.effect = op.mem.step[s].effect
    BY <2>3 DEF Actions
  <2> HIDE DEF t, a
  <2>5. signed' \in Seq(Transactions) /\ Len(signed') = Len(signed) + 1
    BY <2>1, <2>2, <2>3, AppendProperties
  <2>6. /\ k \in Journals /\ k # NoJournal
        /\ \A n \in Steps : k.step[n] = IF n = s THEN a ELSE op.mem.step[n]
    BY <1>2, <2>4, StepAmended, JournalFields
  <2>7. Grown(op.mem, k)
    BY <1>1, <1>2, <2>4, StepGrown
  <2> HIDE DEF k
  <2>8. op' = [pc |-> "saveOwn", kind |-> op.kind, at |-> op.at, send |-> op.send, mem |-> k]
    BY <1>2, <2>1
  <2>9. op' \in Transitions
    BY <1>2, <2>6, <2>8, TransitionMade DEF Places, Saving
  <2>10. op'.pc = "saveOwn" /\ op'.mem = k
    BY <2>8
  <2>11. \A n \in 1..Len(signed) : n \in 1..Len(signed')
    BY <2>3, <2>5
  <2>12. ChainTypeOK'
    BY <2>1, <2>5, <2>11 DEF TypeOK, ChainTypeOK
  <2>13. TypeOK'
    BY <2>1, <2>9, <2>11, <2>12 DEF TypeOK
  <2>14. OwnAreSigned'
    BY <2>1, <2>11 DEF IInv, OwnAreSigned
  <2>15. \A n \in Nat : n <= Len(signed) => n <= Len(signed')
    BY <2>3, <2>5
  <2>16. ASSUME NEW j \in Journals \cup {NoJournal}, ExecutionsSigned(j)
         PROVE  j # NoJournal => \A n \in Steps : j.step[n].execution <= Len(signed')
    BY <2>15, <2>16, JournalFields DEF ExecutionsSigned
  <2>17. ExecutionsSigned(disk)' /\ ExecutionsSigned(durable)'
    BY <2>1, <2>16 DEF IInv, TypeOK, ExecutionsSigned
  <2>18. ExecutionsSigned(op.mem)'
    <3>1. \A n \in Steps : op.mem.step[n].execution <= Len(signed')
      BY <1>2, <2>16, JournalFields DEF IInv
    <3>2. \A n \in Steps : k.step[n].execution <= Len(signed')
      BY <2>3, <2>4, <2>5, <2>6, <3>1
    <3> QED
      BY <2>10, <3>2 DEF ExecutionsSigned
  <2>19. Walks(op)' /\ Synced(op)'
    BY <2>10 DEF Walks, Walking, Synced
  <2>20. Grown(durable, disk) /\ Grown(disk, k)
    BY <1>1, <2>7, GrownIsTransitive DEF IInv, Ordered
  <2>21. Ordered(op)'
    BY <2>1, <2>10, <2>20 DEF Ordered, Grown, Keeps
  <2>22. AllSent'
    BY <2>1 DEF IInv, AllSent, Before, Done
  <2> QED
    BY <2>13, <2>14, <2>17, <2>18, <2>19, <2>21, <2>22 DEF IInv
<1> QED
  BY <1>3, <1>4

\* Where a completed or interrupted write leaves the journal, and power its reader.
LEMMA WritesKeep ==
  ASSUME TypeOK, IInv, UNCHANGED <<chainVars, sent>>,
         submitted' \in SUBSET submitted, breaks' \in Nat,
         op.pc # "idle" =>
           <<durable', disk'>> \in {<<durable, disk>>, <<durable, durable>>,
                                    <<durable, op.mem>>, <<op.mem, op.mem>>},
         op.pc = "idle" => durable' = durable /\ disk' \in {disk, durable},
         op' \in Transitions, Walks(op'), Synced(op)',
         op'.pc # "idle" => op.pc # "idle" /\ op'.mem = op.mem /\ disk' = op.mem,
         op'.pc = "idle" => op'.mem = NoJournal
  PROVE  TypeOK' /\ IInv'
<1>1. op \in Transitions
  BY DEF TypeOK
<1>2. op.pc # "idle" => op.mem \in Journals
  BY <1>1, TransitionFields
<1>3. disk' \in Journals \cup {NoJournal} /\ durable' \in Journals \cup {NoJournal}
  BY <1>2, Zenon DEF TypeOK
<1>4. TypeOK'
  BY <1>3 DEF TypeOK, ChainTypeOK, chainVars
<1>5. Grown(durable, disk) /\ (op.pc # "idle" => Grown(disk, op.mem))
  BY DEF IInv, Ordered
<1>6. op.pc # "idle" => Grown(durable, op.mem)
  BY <1>5, GrownIsTransitive
<1>7. Grown(durable, durable') /\ Grown(durable', disk')
  <2>1. CASE op.pc = "idle"
    BY <1>5, <2>1, GrownIsReflexive
  <2>2. CASE op.pc # "idle"
    BY <1>5, <1>6, <2>2, GrownIsReflexive
  <2> QED
    BY <2>1, <2>2
<1>8. op'.pc # "idle" => Grown(disk', op'.mem)
  BY GrownIsReflexive
<1>9. Ordered(op)'
  BY <1>7, <1>8 DEF Ordered, Grown, Keeps
<1>10. OwnAreSigned'
  BY DEF IInv, OwnAreSigned, chainVars
<1>11. \A j \in {disk', durable', op'.mem} : j \in {disk, durable, op.mem, NoJournal}
  <2>1. CASE op.pc = "idle"
    BY <2>1
  <2>2. CASE op.pc # "idle"
    BY <2>2
  <2> QED
    BY <2>1, <2>2
<1>12. ExecutionsSigned(disk)' /\ ExecutionsSigned(durable)' /\ ExecutionsSigned(op.mem)'
  <2>1. \A j \in {disk, durable, op.mem, NoJournal} : ExecutionsSigned(j)
    BY DEF IInv, ExecutionsSigned
  <2>2. \A j \in {disk', durable', op'.mem} : ExecutionsSigned(j)
    BY <1>11, <2>1
  <2>3. signed' = signed
    BY DEF chainVars
  <2> QED
    BY <2>2, <2>3 DEF ExecutionsSigned
<1>13. Walks(op)'
  BY DEF Walks, Before, Done
<1>14. AllSent'
  <2> SUFFICES ASSUME NEW h \in sent
               PROVE  /\ durable' # NoJournal
                      /\ \E s \in Steps :
                           durable'.step[s].execution = h /\ Before(durable', s)
    BY DEF AllSent, Before, Done
  <2>1. durable # NoJournal /\ h # 0
    <3>1. h \in 1..Len(signed) /\ Len(signed) \in Nat
      BY LenProperties DEF TypeOK, ChainTypeOK
    <3> QED
      BY <3>1 DEF IInv, AllSent
  <2>2. durable' # NoJournal /\ Keeps(durable, durable')
    BY <1>7, <2>1 DEF Grown
  <2>3. PICK s \in Steps : durable.step[s].execution = h /\ Before(durable, s)
    BY DEF IInv, AllSent
  <2>4. durable'.step[s].execution = h
    BY <2>1, <2>2, <2>3 DEF Keeps
  <2>5. Before(durable', s)
    BY <2>2, <2>3, BeforeGrows
  <2> QED
    BY <2>2, <2>4, <2>5
<1> QED
  BY <1>4, <1>9, <1>10, <1>12, <1>13, <1>14 DEF IInv

\* A completed write makes the three journals one.
LEMMA SavedKeeps ==
  ASSUME TypeOK, IInv, Saved
  PROVE  TypeOK' /\ IInv'
<1>1. /\ op.pc \in Saving /\ op.pc # "idle" /\ op \in Transitions
      /\ disk' = op.mem /\ durable' = op.mem
      /\ UNCHANGED <<chainVars, submitted, sent, breaks>>
  BY DEF Saved, Saving, TypeOK
<1>2. /\ op.at \in Steps /\ op.mem \in Journals
  BY <1>1, TransitionFields
<1>3. ASSUME op' \in Transitions, Walks(op'), Synced(op)',
             op'.pc # "idle" => op'.mem = op.mem,
             op'.pc = "idle" => op'.mem = NoJournal
      PROVE  TypeOK' /\ IInv'
  <2>1. breaks' \in Nat /\ submitted' \in SUBSET submitted
    BY <1>1 DEF TypeOK
  <2> QED
    BY <1>1, <1>3, <2>1, WritesKeep
<1>4. CASE op' = Idle
  <2>1. op' \in Transitions /\ op'.pc = "idle" /\ op'.mem = NoJournal /\ ~op'.send
    BY <1>4, IdleIsTransition DEF Idle
  <2>2. Walks(op') /\ Synced(op)'
    BY <2>1 DEF Walks, Walking, Synced
  <2> QED
    BY <1>3, <2>1, <2>2
<1>5. ASSUME NEW p \in {"observe", "look", "profile"}, Goes(p),
             p = "observe" => op.pc = "saveNew",
             p = "look" => op.pc = "saveAgain", p = "profile" => op.pc = "saveEffect"
      PROVE  TypeOK' /\ IInv'
  <2>1. /\ op' \in Transitions /\ op'.pc = p /\ op'.pc # "idle" /\ op'.at = op.at
        /\ op'.send = op.send /\ op'.mem = op.mem
    BY <1>1, <1>5, GoesIsTransition DEF Places
  <2>2. Before(op.mem, op.at)
    <3>1. CASE p = "observe"
      <4>1. op.at = 0
        BY <1>5, <3>1 DEF IInv, Walks
      <4> QED
        BY <4>1 DEF Before
    <3>2. CASE p \in {"look", "profile"}
      BY <1>5, <3>2 DEF IInv, Walks, Walking
    <3> QED
      BY <1>5, <3>1, <3>2
  <2>3. /\ p = "look" => op.mem.step[op.at].execution # 0
        /\ p = "profile" => Done(op.mem, op.at)
    BY <1>5 DEF IInv, Walks
  <2>4. Walks(op')
    BY <1>5, <2>1, <2>2, <2>3 DEF Walks, Walking
  <2>5. Synced(op)'
    BY <1>1, <1>5, <2>1 DEF Synced
  <2> QED
    BY <1>3, <2>1, <2>4, <2>5
<1>6. CASE op.pc = "saveProfile" /\ Advances
  <2>1. Before(op.mem, op.at) /\ Done(op.mem, op.at) /\ op.at \in Nat
    BY <1>2, <1>6, StepsAreNumbers DEF IInv, Walks, Walking
  <2>2. Before(op.mem, op.at + 1)
    BY <2>1 DEF Before
  <2>3. ASSUME op' \in Transitions, op'.mem = op.mem,
               \/ op'.pc = "run"
               \/ op'.pc = "observe" /\ op'.at = op.at + 1
        PROVE  TypeOK' /\ IInv'
    <3>1. Walks(op') /\ Synced(op)' /\ op'.pc # "idle"
      BY <2>2, <2>3 DEF Walks, Walking, Synced
    <3> QED
      BY <1>3, <2>3, <3>1
  <2> QED
    BY <1>1, <1>4, <1>6, <2>3, AdvancesTo
<1> QED
  BY <1>1, <1>4, <1>5, <1>6 DEF Saved, Saving, Unlocks

\* A transition that ends between two steps leaves one of the journals there were.
LEMMA BreaksKeeps ==
  ASSUME TypeOK, IInv, Breaks
  PROVE  TypeOK' /\ IInv'
<1>1. op' \in Transitions /\ op'.pc = "idle" /\ op'.mem = NoJournal /\ ~op'.send
  BY IdleIsTransition DEF Breaks, Unlocks, Idle
<1>2. Walks(op') /\ Synced(op)'
  BY <1>1 DEF Walks, Walking, Synced
<1>3. breaks' \in Nat /\ submitted' \in SUBSET submitted
  BY DEF Breaks, TypeOK
<1>4. /\ op.pc # "idle" /\ UNCHANGED <<chainVars, sent>>
      /\ <<durable', disk'>> \in {<<durable, disk>>, <<durable, op.mem>>, <<op.mem, op.mem>>}
  BY DEF Breaks
<1> QED
  BY <1>1, <1>2, <1>3, <1>4, WritesKeep

\* A loss of power goes back to what is durable.
LEMMA PowerFailsKeeps ==
  ASSUME TypeOK, IInv, PowerFails
  PROVE  TypeOK' /\ IInv'
<1>1. op' \in Transitions /\ op'.pc = "idle" /\ op'.mem = NoJournal /\ ~op'.send
  BY IdleIsTransition DEF PowerFails, Unlocks, Idle
<1>2. Walks(op') /\ Synced(op)'
  BY <1>1 DEF Walks, Walking, Synced
<1>3. breaks' \in Nat /\ submitted' \in SUBSET submitted
  BY DEF PowerFails, TypeOK
<1>4. UNCHANGED <<chainVars, sent>> /\ durable' = durable /\ disk' = durable
  BY DEF PowerFails
<1> QED
  BY <1>1, <1>2, <1>3, <1>4, WritesKeep

\* A new process has sent nothing.
LEMMA NewProcessKeeps ==
  ASSUME TypeOK, IInv, NewProcess
  PROVE  TypeOK' /\ IInv'
<1>1. /\ op.pc = "idle" /\ submitted' = {}
      /\ UNCHANGED <<chainVars, disk, durable, op, sent, breaks>>
  BY DEF NewProcess
<1>2. TypeOK'
  BY <1>1 DEF TypeOK, ChainTypeOK, chainVars
<1>3. IInv'
  BY <1>1 DEF IInv, OwnAreSigned, ExecutionsSigned, Walks, Synced, Ordered, Grown, Keeps,
              AllSent, Before, Done, chainVars
<1> QED
  BY <1>2, <1>3

\* The chain knows no journal.
LEMMA EnvironmentKeeps ==
  ASSUME TypeOK, IInv, Environment
  PROVE  TypeOK' /\ IInv'
<1>1. ChainTypeOK' /\ OwnAreSigned' /\ UNCHANGED signed
  BY EnvironmentKeepsType DEF TypeOK, IInv, Environment, ForeignKinds, ForeignSafe
<1>2. UNCHANGED <<disk, durable, op, submitted, sent, breaks>>
  BY DEF Environment, Alone
<1>3. TypeOK'
  BY <1>1, <1>2 DEF TypeOK
<1>4. IInv'
  BY <1>1, <1>2 DEF IInv, ExecutionsSigned, Walks, Synced, Ordered, Grown, Keeps,
                    AllSent, Before, Done
<1> QED
  BY <1>3, <1>4

\* Nothing happens.
LEMMA StuttersKeep ==
  ASSUME TypeOK, IInv, UNCHANGED vars
  PROVE  TypeOK' /\ IInv'
<1>1. UNCHANGED <<chainVars, disk, durable, op, submitted, sent, breaks>>
  BY DEF vars
<1>2. TypeOK'
  BY <1>1 DEF TypeOK, ChainTypeOK, chainVars
<1>3. IInv'
  BY <1>1 DEF IInv, OwnAreSigned, ExecutionsSigned, Walks, Synced, Ordered, Grown, Keeps,
              AllSent, Before, Done, chainVars
<1> QED
  BY <1>2, <1>3

\* Every step keeps the invariant.
LEMMA NextKeeps ==
  ASSUME TypeOK, IInv, [Next]_vars
  PROVE  TypeOK' /\ IInv'
<1>1. CASE \E kind \in Kinds : Begin(kind)
  BY <1>1, BeginKeeps
<1>2. CASE Progress
  BY <1>2, ResyncsKeeps, ObserveKeeps, AbsentKeeps, SendsKeeps, SettlesKeeps, ReadEffectKeeps,
     MakesProfileKeeps, RunPrepareKeeps, RunResumeKeeps, RunNextKeeps, RunApproveKeeps,
     RunExecuteKeeps, SignKeeps, SavedKeeps
  DEF Progress
<1>3. CASE Breaks \/ PowerFails \/ NewProcess \/ Environment
  BY <1>3, BreaksKeeps, PowerFailsKeeps, NewProcessKeeps, EnvironmentKeeps
<1>4. CASE UNCHANGED vars
  BY <1>4, StuttersKeep
<1> QED
  BY <1>1, <1>2, <1>3, <1>4 DEF Next

\* Only a write changes what is durable, and what it writes has grown from it.
LEMMA DurableGrows ==
  ASSUME TypeOK, IInv, [Next]_vars
  PROVE  Grown(durable, durable')
<1>1. durable' = durable \/ (op.pc # "idle" /\ durable' = op.mem)
  <2>1. CASE \E kind \in Kinds : Begin(kind)
    BY <2>1 DEF Begin, Quiet
  <2>2. CASE Progress /\ ~Saved
    BY <2>2 DEF Progress, Resyncs, Observe, Absent, Sends, Settles, ReadEffect, MakesProfile,
                RunPrepare, RunResume, RunNext, RunApprove, RunExecute, Sign, Quiet
  <2>3. CASE Saved
    BY <2>3 DEF Saved, Saving
  <2>4. CASE Breaks \/ PowerFails \/ NewProcess \/ Environment \/ UNCHANGED vars
    BY <2>4 DEF Breaks, PowerFails, NewProcess, Environment, Alone, vars
  <2> QED
    BY <2>1, <2>2, <2>3, <2>4 DEF Next, Progress
<1>2. op.pc # "idle" => Grown(durable, op.mem)
  BY GrownIsTransitive DEF IInv, Ordered
<1> QED
  BY <1>1, <1>2, GrownIsReflexive

--------------------------------------------------------------------------------
(* The theorems.                                                           *)

\* The invariant holds of every behaviour.
THEOREM Invariance == Spec => [](TypeOK /\ IInv)
<1>1. Init => TypeOK /\ IInv
  BY InitEstablishes
<1>2. TypeOK /\ IInv /\ [Next]_vars => (TypeOK /\ IInv)'
  BY NextKeeps
<1> QED
  BY <1>1, <1>2, PTL DEF Spec

\* The variables keep their shape.
THEOREM TypeCorrect == Spec => []TypeOK
BY Invariance, PTL

\* resume (onboarding.ts) sends nothing that the durable journal does not name, nor out of
\* order: through every crash, loss of power, lost reply, failed write and moved nonce.
THEOREM SentIsJournaledHolds == Spec => []SentIsJournaled
<1>1. IInv => SentIsJournaled
  BY DEF IInv, AllSent, SentIsJournaled, Before
<1> QED
  BY <1>1, Invariance, PTL

\* No write of persist (onboarding.ts), complete or interrupted, drops or replaces what
\* was durable in the journal.
THEOREM JournalNeverForgetsHolds == Spec => JournalNeverForgets
<1>1. TypeOK /\ IInv /\ [Next]_vars =>
        [durable # NoJournal =>
           /\ durable' # NoJournal
           /\ \A s \in Steps : LET a == durable.step[s]  b == durable'.step[s] IN
                /\ a.prepared => b.prepared
                /\ a.approved # NoApproval => b.approved = a.approved
                /\ a.execution # 0 => b.execution = a.execution
                /\ a.effect # NoEffect => b.effect = a.effect
           /\ \A i \in 1..Services :
                durable.profile[i] # 0 => durable'.profile[i] = durable.profile[i]]_vars
  BY DurableGrows DEF Grown, Keeps
<1> QED
  BY <1>1, Invariance, PTL DEF Spec, JournalNeverForgets

--------------------------------------------------------------------------------
(* Recorded effects are facts of the chain.                                *)

\* No transaction is in two blocks.
OneBlockEach ==
  \A i, k \in DOMAIN chain :
    chain[i].kind = "own" /\ chain[k].kind = "own" /\ chain[i].by = chain[k].by => i = k

\* So it is while no block was dropped, nor does a transaction wait that is mined.
MinedOnce == reorgs = 0 => OneBlockEach /\ \A h \in mempool : ~Mined(h)

\* e is what the chain says of the transaction h, which has succeeded.
IsFact(h, e) == Mined(h) /\ chain[BlockOf(h)].ok /\ e = EffectOf(h)

Facts(j) ==
  j # NoJournal /\ reorgs = 0 =>
    \A s \in Steps : Done(j, s) => IsFact(j.step[s].execution, j.step[s].effect)

FInv == MinedOnce /\ Facts(disk) /\ Facts(durable) /\ Facts(op.mem)

\* Nothing is recorded at first.
LEMMA InitHasFacts ==
  ASSUME Init
  PROVE  FInv
<1>1. chain = <<>> /\ DOMAIN chain = {} /\ mempool = {}
  BY EmptySeq DEF Init, ChainInit
<1>2. disk = NoJournal /\ durable = NoJournal /\ op.mem = NoJournal
  BY DEF Init, Idle
<1> QED
  BY <1>1, <1>2 DEF FInv, MinedOnce, OneBlockEach, Facts

\* A block of a transaction is one of its blocks.
LEMMA BlockOfMined ==
  ASSUME NEW h, Mined(h)
  PROVE  /\ BlockOf(h) \in DOMAIN chain
         /\ chain[BlockOf(h)].kind = "own" /\ chain[BlockOf(h)].by = h
BY DEF Mined, BlockOf

\* A block on top of the others changes no fact.
LEMMA FactsOutlastBlocks ==
  ASSUME chain \in Seq(Blocks), NEW b \in Blocks, chain' = Append(chain, b),
         OneBlockEach, b.kind = "own" => ~Mined(b.by)
  PROVE  /\ OneBlockEach'
         /\ \A h : Mined(h)' => Mined(h) \/ (b.kind = "own" /\ h = b.by)
         /\ \A h : Mined(h) => Mined(h)' /\ BlockOf(h)' = BlockOf(h)
         /\ \A h, e : IsFact(h, e) => IsFact(h, e)'
<1>1. /\ DOMAIN chain' = DOMAIN chain \cup {Len(chain) + 1}
      /\ Len(chain) + 1 \notin DOMAIN chain
      /\ \A i \in DOMAIN chain : chain'[i] = chain[i]
      /\ chain'[Len(chain) + 1] = b
  BY Added
<1>3. OneBlockEach'
  <2> SUFFICES ASSUME NEW i \in DOMAIN chain', NEW k \in DOMAIN chain',
                      chain'[i].kind = "own", chain'[k].kind = "own",
                      chain'[i].by = chain'[k].by
               PROVE  i = k
    BY DEF OneBlockEach
  <2>1. CASE i \in DOMAIN chain /\ k \in DOMAIN chain
    BY <1>1, <2>1 DEF OneBlockEach
  <2>2. CASE i \in DOMAIN chain /\ k = Len(chain) + 1
    BY <1>1, <2>2 DEF Mined
  <2>3. CASE i = Len(chain) + 1 /\ k \in DOMAIN chain
    BY <1>1, <2>3 DEF Mined
  <2> QED
    BY <1>1, <2>1, <2>2, <2>3
<1>4. \A h : Mined(h)' => Mined(h) \/ (b.kind = "own" /\ h = b.by)
  BY <1>1 DEF Mined
<1>5. ASSUME NEW h, Mined(h)
      PROVE  Mined(h)' /\ BlockOf(h)' = BlockOf(h) /\ chain'[BlockOf(h)] = chain[BlockOf(h)]
  <2> DEFINE i == BlockOf(h)
  <2>1. i \in DOMAIN chain /\ chain[i].kind = "own" /\ chain[i].by = h
    BY <1>5, BlockOfMined
  <2>2. PICK n \in DOMAIN chain : n = i
    BY <2>1
  <2>3. n \in DOMAIN chain' /\ chain'[n] = chain[n]
    BY <1>1
  <2>4. \A k \in DOMAIN chain' : chain'[k].kind = "own" /\ chain'[k].by = h => k = n
    BY <1>3, <2>1, <2>2, <2>3 DEF OneBlockEach
  <2>5. Mined(h)' /\ BlockOf(h)' = n
    BY <2>1, <2>2, <2>3, <2>4 DEF Mined, BlockOf
  <2> QED
    BY <2>2, <2>3, <2>5
<1>6. ASSUME NEW h, NEW e, IsFact(h, e) PROVE IsFact(h, e)'
  <2>1. Mined(h) /\ chain[BlockOf(h)].ok /\ e = EffectOf(h)
    BY <1>6 DEF IsFact
  <2>2. Mined(h)' /\ BlockOf(h)' = BlockOf(h) /\ chain'[BlockOf(h)] = chain[BlockOf(h)]
    BY <1>5, <2>1
  <2>3. EffectOf(h)' = EffectOf(h)
    BY <2>2 DEF EffectOf
  <2> QED
    BY <2>1, <2>2, <2>3 DEF IsFact
<1> QED
  BY <1>3, <1>4, <1>5, <1>6

\* Until a block is dropped, what happens to the chain changes no fact.
LEMMA ChainKeepsFacts ==
  ASSUME ChainTypeOK, OwnAreSigned, MinedOnce,
         NEW kinds \in SUBSET ForeignKinds, ChainNext(kinds)
  PROVE  /\ MinedOnce'
         /\ reorgs' = 0 => /\ reorgs = 0
                           /\ \A h, e : IsFact(h, e) => IsFact(h, e)'
<1>1. Waits \/ (\E b \in Blocks : Adds(b)) \/ Drops
  BY ChainMoves
<1>2. CASE Waits
  <2>1. MinedOnce'
    BY <1>2 DEF Waits, MinedOnce, OneBlockEach, Mined
  <2> QED
    BY <1>2, <2>1 DEF Waits, IsFact, Mined, BlockOf, EffectOf
<1>3. ASSUME NEW b \in Blocks, Adds(b), reorgs = 0
      PROVE  MinedOnce' /\ \A h, e : IsFact(h, e) => IsFact(h, e)'
  <2>1. OneBlockEach /\ \A h \in mempool : ~Mined(h)
    BY <1>3 DEF MinedOnce
  <2>2. /\ chain \in Seq(Blocks) /\ chain' = Append(chain, b)
        /\ b.kind = "own" => ~Mined(b.by) /\ mempool' = mempool \ {b.by}
        /\ mempool' \in SUBSET mempool
    BY <1>3, <2>1 DEF Adds, ChainTypeOK
  <2>3. /\ OneBlockEach'
        /\ \A h : Mined(h)' => Mined(h) \/ (b.kind = "own" /\ h = b.by)
        /\ \A h, e : IsFact(h, e) => IsFact(h, e)'
    BY <2>1, <2>2, FactsOutlastBlocks
  <2>4. \A h \in mempool' : ~Mined(h)'
    BY <2>1, <2>2, <2>3
  <2> QED
    BY <2>3, <2>4 DEF MinedOnce
<1>4. ASSUME NEW b \in Blocks, Adds(b), reorgs # 0 PROVE reorgs' # 0 /\ MinedOnce'
  BY <1>4 DEF Adds, MinedOnce
<1>5. CASE Drops
  BY <1>5 DEF Drops, MinedOnce
<1>6. ASSUME NEW b \in Blocks, Adds(b) PROVE reorgs' = reorgs
  BY <1>6 DEF Adds
<1> QED
  BY <1>1, <1>2, <1>3, <1>4, <1>5, <1>6 DEF Drops

\* Nothing but the chain decides what is a fact.
LEMMA FactsStay ==
  ASSUME UNCHANGED <<chain, reorgs>>, NEW j, Facts(j)
  PROVE  Facts(j)'
BY DEF Facts, IsFact, Mined, BlockOf, EffectOf, Done

\* What the node and others do changes no fact, until a block is dropped.
LEMMA EnvironmentKeepsFacts ==
  ASSUME TypeOK, IInv, FInv, Environment
  PROVE  FInv'
<1>1. UNCHANGED <<disk, durable, op>> /\ ChainNext({"payer", "safe", "registry"})
  BY DEF Environment, Alone
<1>2. /\ MinedOnce'
      /\ reorgs' = 0 => reorgs = 0 /\ \A h, e : IsFact(h, e) => IsFact(h, e)'
  BY <1>1, ChainKeepsFacts DEF TypeOK, IInv, FInv, ForeignKinds, ForeignSafe
<1> QED
  BY <1>1, <1>2 DEF FInv, Facts, Done

\* On the same chain only what a transition learns can be wrong.
LEMMA FactsOfOp ==
  ASSUME FInv, UNCHANGED <<chain, reorgs, mempool>>,
         disk' \in {disk, durable, op.mem}, durable' \in {durable, op.mem},
         Facts(op'.mem)
  PROVE  FInv'
<1>1. Facts(disk') /\ Facts(durable')
  BY DEF FInv
<1>2. MinedOnce'
  BY DEF FInv, MinedOnce, OneBlockEach, Mined
<1>3. Facts(disk)' /\ Facts(durable)' /\ Facts(op.mem)'
  BY <1>1 DEF Facts, IsFact, Mined, BlockOf, EffectOf, Done
<1> QED
  BY <1>2, <1>3 DEF FInv

\* Most steps of a transition learn nothing.
LEMMA MemKept ==
  ASSUME op \in Transitions, Unlocks \/ (\E p : Goes(p)) \/ Returns \/ Advances
  PROVE  op'.mem \in {op.mem, NoJournal}
<1>1. op = [pc |-> op.pc, kind |-> op.kind, at |-> op.at, send |-> op.send, mem |-> op.mem]
  BY TransitionFields
<1>2. CASE op' = Idle
  BY <1>2 DEF Idle
<1>3. ASSUME NEW p, Goes(p) PROVE op'.mem = op.mem
  BY <1>1, <1>3 DEF Goes
<1>4. CASE op' = [op EXCEPT !.pc = "observe", !.at = @ + 1]
  BY <1>1, <1>4
<1> QED
  BY <1>2, <1>3, <1>4 DEF Unlocks, Returns, Advances

\* Without a journal nothing is recorded.
LEMMA NoJournalHasFacts == Facts(NoJournal)
BY DEF Facts

\* The record of one step changes and remains a fact if it has an effect.
LEMMA FactsAmended ==
  ASSUME op \in Transitions, op.pc # "idle", Facts(op.mem), NEW p, NEW s \in Steps,
         NEW a \in Actions,
         op' = [op EXCEPT !.pc = p, !.mem = [op.mem EXCEPT !.step[s] = a]],
         \/ a.effect = op.mem.step[s].effect /\ a.execution = op.mem.step[s].execution
         \/ a.effect = NoEffect
         \/ IsFact(a.execution, a.effect)
  PROVE  Facts(op'.mem)
<1> DEFINE k == [op.mem EXCEPT !.step[s] = a]
<1>1. /\ op = [pc |-> op.pc, kind |-> op.kind, at |-> op.at, send |-> op.send,
                mem |-> op.mem]
      /\ op.mem \in Journals /\ op.mem # NoJournal
  BY TransitionFields, JournalFields
<1>2. \A t \in Steps : k.step[t] = IF t = s THEN a ELSE op.mem.step[t]
  BY <1>1, StepAmended
<1>3. op' = [pc |-> p, kind |-> op.kind, at |-> op.at, send |-> op.send, mem |-> k]
  BY <1>1
<1> HIDE DEF k
<1>4. [pc |-> p, kind |-> op.kind, at |-> op.at, send |-> op.send, mem |-> k].mem = k
  BY Zenon
<1>5. Facts(k)
  <2> SUFFICES ASSUME reorgs = 0, NEW t \in Steps, Done(k, t)
               PROVE  IsFact(k.step[t].execution, k.step[t].effect)
    BY DEF Facts
  <2>1. ASSUME Done(op.mem, t)
        PROVE  IsFact(op.mem.step[t].execution, op.mem.step[t].effect)
    BY <1>1, <2>1 DEF Facts
  <2>2. CASE t = s
    BY <1>2, <2>1, <2>2 DEF Done
  <2>3. CASE t # s
    BY <1>2, <2>1, <2>3 DEF Done
  <2> QED
    BY <2>2, <2>3
<1> QED
  BY <1>3, <1>4, <1>5, Zenon

\* A transition begins with what was recorded.
LEMMA BeginHasFacts ==
  ASSUME TypeOK, FInv, NEW kind \in Kinds, Begin(kind)
  PROVE  Facts(op'.mem)
<1>1. CASE op' = [Idle EXCEPT !.pc = "saveNew", !.kind = kind, !.mem = EmptyJournal]
  <2>1. op'.mem = EmptyJournal
    BY <1>1 DEF Idle
  <2>2. \A s \in Steps : ~Done(EmptyJournal, s)
    BY DEF Done, EmptyJournal, NoAction
  <2> QED
    BY <2>1, <2>2 DEF Facts
<1>2. CASE op' = [Idle EXCEPT !.pc = "observe", !.kind = kind, !.mem = disk]
  <2>1. op'.mem = disk
    BY <1>2 DEF Idle
  <2> QED
    BY <2>1 DEF FInv
<1>3. CASE op' = op
  BY <1>3 DEF FInv
<1> QED
  BY <1>1, <1>2, <1>3 DEF Begin

\* A transaction without a hash is not mined, so that a step that has none is not done.
LEMMA NoHashNoEffect ==
  ASSUME TypeOK, IInv, Facts(op.mem), op.pc # "idle", NEW s \in Steps,
         op.mem.step[s].execution = 0, reorgs = 0
  PROVE  op.mem.step[s].effect = NoEffect
<1>1. op.mem # NoJournal
  BY TransitionFields, JournalFields DEF TypeOK
<1>2. ~Mined(0)
  <2>1. \A i \in DOMAIN chain : chain[i].kind = "own" => chain[i].by \in 1..Len(signed)
    BY DEF IInv, OwnAreSigned
  <2>2. 0 \notin 1..Len(signed)
    BY LenProperties DEF TypeOK, ChainTypeOK
  <2> QED
    BY <2>1, <2>2 DEF Mined
<1> QED
  BY <1>1, <1>2 DEF Facts, Done, IsFact

\* A step of a transition records only what it has read on the chain.
LEMMA ProgressKeepsFacts ==
  ASSUME TypeOK, IInv, FInv, Progress
  PROVE  Facts(op'.mem)
<1>1. /\ op \in Transitions /\ Facts(op.mem) /\ Facts(NoJournal)
      /\ op = [pc |-> op.pc, kind |-> op.kind, at |-> op.at, send |-> op.send,
                mem |-> op.mem]
  BY NoJournalHasFacts, TransitionFields DEF TypeOK, FInv
<1>2. CASE Unlocks \/ (\E p : Goes(p)) \/ Returns \/ Advances
  BY <1>1, <1>2, MemKept
<1>3. CASE ReadEffect
  <2>1. CASE /\ Mined(Hash) /\ chain[BlockOf(Hash)].ok
             /\ op' = [op EXCEPT !.pc = "saveEffect",
                                 !.mem.step[op.at].effect = EffectOf(Hash)]
    <3> DEFINE s == op.at
               a == [op.mem.step[s] EXCEPT !.effect = EffectOf(Hash)]
    <3>1. op.pc # "idle" /\ s \in Steps /\ op.mem \in Journals
      BY <1>1, <1>3, TransitionFields DEF ReadEffect
    <3>2. EffectOf(Hash) \in Effects /\ op.mem.step[s] \in Actions
      BY <2>1, <3>1, EffectType, JournalFields DEF TypeOK
    <3>3. a \in Actions /\ a.execution = Hash /\ a.effect = EffectOf(Hash)
      BY <3>2 DEF Actions, Hash
    <3>4. op' = [op EXCEPT !.pc = "saveEffect", !.mem = [op.mem EXCEPT !.step[s] = a]]
      BY <2>1
    <3> HIDE DEF a
    <3>5. IsFact(a.execution, a.effect)
      BY <2>1, <3>3 DEF IsFact
    <3> QED
      BY <1>1, <3>1, <3>3, <3>4, <3>5, FactsAmended
  <2> QED
    BY <1>2, <1>3, <2>1 DEF ReadEffect
<1>4. CASE MakesProfile
  <2> DEFINE i == ServiceOf(op.at)
             agent == op.mem.step[op.at].effect.agent
  <2>1. CASE op' = [op EXCEPT !.pc = "saveProfile", !.mem.profile[i] = agent]
    <3> DEFINE k == [op.mem EXCEPT !.profile[i] = agent]
    <3>1. op.mem \in Journals
      BY <1>1, <1>4, TransitionFields DEF MakesProfile
    <3>2. op.mem # NoJournal
      BY <3>1, JournalFields
    <3> HIDE DEF i, agent
    <3>3. k.step = op.mem.step
      BY <3>1 DEF Journals
    <3>4. op'.mem = k
      BY <1>1, <2>1
    <3> HIDE DEF k
    <3> QED
      BY <1>1, <3>2, <3>3, <3>4 DEF Facts, Done
  <2> QED
    BY <1>2, <1>4, <2>1 DEF MakesProfile
<1>5. CASE RunResume
  <2>1. op'.mem = op.mem
    BY <1>1, <1>5 DEF RunResume
  <2> QED
    BY <1>1, <2>1
<1>6. CASE RunNext
  <2>1. ASSUME NEW s \in Outstanding(op.mem),
               op' = [op EXCEPT !.pc = "saveOwn", !.mem.step[s].prepared = TRUE]
        PROVE  Facts(op'.mem)
    <3> DEFINE a == [op.mem.step[s] EXCEPT !.prepared = TRUE]
    <3>1. op.pc # "idle" /\ s \in Steps /\ op.mem \in Journals
      BY <1>1, <1>6, TransitionFields, StepsAreNumbers DEF RunNext, Outstanding
    <3>2. op.mem.step[s] \in Actions
      BY <3>1, JournalFields
    <3>3. /\ a \in Actions /\ a.execution = op.mem.step[s].execution
          /\ a.effect = op.mem.step[s].effect
      BY <3>2 DEF Actions
    <3>4. op' = [op EXCEPT !.pc = "saveOwn", !.mem = [op.mem EXCEPT !.step[s] = a]]
      BY <2>1
    <3> HIDE DEF a
    <3> QED
      BY <1>1, <3>1, <3>3, <3>4, FactsAmended
  <2> QED
    BY <1>2, <1>6, <2>1 DEF RunNext
<1>7. CASE RunApprove
  <2>1. ASSUME NEW v \in Approvals, NEW s \in Outstanding(op.mem),
               op' = [op EXCEPT !.pc = "saveOwn", !.mem.step[s].approved = v]
        PROVE  Facts(op'.mem)
    <3> DEFINE a == [op.mem.step[s] EXCEPT !.approved = v]
    <3>1. op.pc # "idle" /\ s \in Steps /\ op.mem \in Journals
      BY <1>1, <1>7, TransitionFields, StepsAreNumbers DEF RunApprove, Outstanding
    <3>2. op.mem.step[s] \in Actions
      BY <3>1, JournalFields
    <3>3. /\ a \in Actions /\ a.execution = op.mem.step[s].execution
          /\ a.effect = op.mem.step[s].effect
      BY <3>2 DEF Actions
    <3>4. op' = [op EXCEPT !.pc = "saveOwn", !.mem = [op.mem EXCEPT !.step[s] = a]]
      BY <2>1
    <3> HIDE DEF a
    <3> QED
      BY <1>1, <3>1, <3>3, <3>4, FactsAmended
  <2> QED
    BY <1>2, <1>7, <2>1 DEF RunApprove
<1>8. CASE RunExecute
  <2>1. ASSUME NEW s, op' = [op EXCEPT !.pc = "sign", !.at = s] PROVE Facts(op'.mem)
    <3>1. op'.mem = op.mem
      BY <1>1, <2>1
    <3> QED
      BY <1>1, <3>1
  <2> QED
    BY <1>2, <1>8, <2>1 DEF RunExecute
<1>9. CASE Sign
  <2> DEFINE s == op.at
             a == [op.mem.step[s] EXCEPT !.execution = Len(signed) + 1]
  <2>1. CASE op' = [op EXCEPT !.pc = "saveOwn", !.mem.step[s].execution = Len(signed) + 1]
    <3>1. op.pc # "idle" /\ s \in Steps /\ op.mem \in Journals
          /\ op.mem.step[s].execution = 0
      BY <1>1, <1>9, TransitionFields DEF Sign, IInv, Walks
    <3>2. op.mem.step[s] \in Actions /\ Len(signed) + 1 \in Nat
      BY <3>1, JournalFields, LenProperties DEF TypeOK, ChainTypeOK
    <3>3. a \in Actions /\ a.effect = op.mem.step[s].effect
      BY <3>2 DEF Actions
    <3>4. op' = [op EXCEPT !.pc = "saveOwn", !.mem = [op.mem EXCEPT !.step[s] = a]]
      BY <2>1
    <3> HIDE DEF a
    <3>5. CASE reorgs = 0
      <4>1. a.effect = NoEffect
        BY <1>1, <3>1, <3>3, <3>5, NoHashNoEffect
      <4> QED
        BY <1>1, <3>1, <3>3, <3>4, <4>1, FactsAmended
    <3>6. CASE reorgs # 0
      BY <3>6 DEF Facts
    <3> QED
      BY <3>5, <3>6
  <2> QED
    BY <1>2, <1>9, <2>1 DEF Sign
<1>10. CASE Saved
  BY <1>2, <1>10 DEF Saved, Saving
<1>11. CASE Resyncs \/ Observe \/ Absent \/ Sends \/ Settles \/ RunPrepare
  BY <1>2, <1>11 DEF Resyncs, Observe, Absent, Sends, Settles, RunPrepare
<1> QED
  BY <1>3, <1>4, <1>5, <1>6, <1>7, <1>8, <1>9, <1>10, <1>11 DEF Progress

\* Every step keeps the facts.
LEMMA NextKeepsFacts ==
  ASSUME TypeOK, IInv, FInv, [Next]_vars
  PROVE  FInv'
<1>1. CASE \E kind \in Kinds : Begin(kind)
  <2>1. UNCHANGED <<chain, reorgs, mempool, disk, durable>>
    BY <1>1 DEF Begin, Quiet, chainVars
  <2> QED
    BY <1>1, <2>1, BeginHasFacts, FactsOfOp
<1>2. CASE Progress
  <2>1. /\ UNCHANGED <<chain, reorgs, mempool>>
        /\ disk' \in {disk, op.mem} /\ durable' \in {durable, op.mem}
    BY <1>2 DEF Progress, Resyncs, Observe, Absent, Sends, Settles, ReadEffect, MakesProfile,
                RunPrepare, RunResume, RunNext, RunApprove, RunExecute, Sign, Saved, Quiet,
                chainVars
  <2> QED
    BY <1>2, <2>1, ProgressKeepsFacts, FactsOfOp
<1>3. CASE Breaks \/ PowerFails
  <2>1. /\ UNCHANGED <<chain, reorgs, mempool>>
        /\ disk' \in {disk, durable, op.mem} /\ durable' \in {durable, op.mem}
    BY <1>3 DEF Breaks, PowerFails, chainVars
  <2>2. op'.mem = NoJournal
    BY <1>3 DEF Breaks, PowerFails, Unlocks, Idle
  <2> QED
    BY <2>1, <2>2, NoJournalHasFacts, FactsOfOp
<1>4. CASE NewProcess \/ UNCHANGED vars
  <2>1. UNCHANGED <<chain, reorgs, mempool, disk, durable, op>>
    BY <1>4 DEF NewProcess, vars, chainVars
  <2> QED
    BY <2>1, FactsOfOp DEF FInv
<1>5. CASE Environment
  BY <1>5, EnvironmentKeepsFacts
<1> QED
  BY <1>1, <1>2, <1>3, <1>4, <1>5 DEF Next

\* "Nonce movement is never success evidence" (onboarding.ts): what the journal records as
\* the effect of a step is what the chain says of the step's own, successful transaction.
THEOREM EffectsAreFactsHolds == Spec => []EffectsAreFacts
<1>1. Init => FInv
  BY InitHasFacts
<1>2. TypeOK /\ IInv /\ FInv /\ [Next]_vars => FInv'
  BY NextKeepsFacts
<1>3. FInv => EffectsAreFacts
  BY DEF FInv, Facts, IsFact, EffectsAreFacts
<1> QED
  BY <1>1, <1>2, <1>3, Invariance, PTL DEF Spec
================================================================================
