--------------------------- MODULE ChainWritersProofs ---------------------------
(***************************************************************************)
(* Theorems about the writers of the owned chain, for any number of        *)
(* services, approvals, submitting processes and disturbances.             *)
(*                                                                         *)
(* A feedback has the chain to itself.  What it answers is true because    *)
(* blocks are only added while none is dropped: a mined transaction stays  *)
(* in its block, and a nonce that was used never comes back.               *)
(*                                                                         *)
(* A migration shares the Safe with foreign transactions.  It rotates and  *)
(* then republishes because the Safe's owner is the one that the last      *)
(* call of the migration left, unless the Safe has executed something else *)
(* since: then its nonce has moved on, and no republication is signed with *)
(* the nonce of the plan.  What a migration records as done it has seen at *)
(* a block that stays.                                                     *)
(*                                                                         *)
(* Onboarding, migration and feedback are put together by who writes: the  *)
(* others' state is at rest, and of a complete onboarding its journal      *)
(* stays what it is.                                                       *)
(***************************************************************************)
EXTENDS ChainWriters, OnboardingProofs

--------------------------------------------------------------------------------
(* The modules that are instantiated see one chain with this one.          *)

\* The feedback counts and looks up as everybody does.
LEMMA FeedbackSeesTheChain ==
  /\ F!PayerNonce = PayerNonce /\ F!PendingNonce = PendingNonce
  /\ F!SafeNonce = SafeNonce /\ F!Agents = Agents
  /\ F!Deployed = Deployed /\ F!OwnAgents = OwnAgents
  /\ \A h : F!Mined(h) = Mined(h) /\ F!BlockOf(h) = BlockOf(h)
  /\ \A n : F!PrimaryAt(n) = PrimaryAt(n)
<1>1. \A S : F!Cardinality(S) = Cardinality(S)
  BY DEF F!Cardinality, Cardinality
<1>2. \A S : F!Min(S) = Min(S)
  BY DEF F!Min, Min
<1>3. \A S : F!Max(S) = Max(S)
  BY DEF F!Max, Max
<1>4. F!PayerNonce = PayerNonce
  BY <1>1 DEF F!PayerNonce, PayerNonce, F!Count, Count
<1>5. F!PendingNonce = PendingNonce
  BY <1>1, <1>2, <1>4 DEF F!PendingNonce, PendingNonce
<1>6. \A b, call : F!Own(b, call) = Own(b, call)
  BY DEF F!Own, Own
<1>7. F!SafeNonce = SafeNonce
  BY <1>1, <1>6 DEF F!SafeNonce, SafeNonce, F!Count, Count, F!SafeCalls, SafeCalls,
     F!ForeignSafe, ForeignSafe
<1>8. F!Agents = Agents
  BY <1>1, <1>6 DEF F!Agents, Agents, F!Count, Count
<1>9. F!Deployed = Deployed /\ F!OwnAgents = OwnAgents
  BY <1>6 DEF F!Deployed, Deployed, F!OwnAgents, OwnAgents
<1>10. \A h : F!Mined(h) = Mined(h) /\ F!BlockOf(h) = BlockOf(h)
  BY DEF F!Mined, Mined, F!BlockOf, BlockOf
<1>11. \A n : F!PrimaryAt(n) = PrimaryAt(n)
  BY <1>3, <1>6 DEF F!PrimaryAt, PrimaryAt, F!SelectLastInSubSeq, SelectLastInSubSeq
<1> QED
  BY <1>4, <1>5, <1>7, <1>8, <1>9, <1>10, <1>11

\* Its chain moves as this one.
LEMMA FeedbackMovesTheChain ==
  ASSUME NEW kinds, F!ChainNext(kinds)
  PROVE  ChainNext(kinds)
<1>1. \A t : F!Succeeds(t) = Succeeds(t)
  BY FeedbackSeesTheChain DEF F!Succeeds, Succeeds, F!Own, Own
<1>2. \A k, h, ok, a : F!Extend(k, h, ok, a) = Extend(k, h, ok, a)
  BY DEF F!Extend, Extend
<1>3. \A h : F!Deliver(h) = Deliver(h) /\ F!Lose(h) = Lose(h)
  BY FeedbackSeesTheChain DEF F!Deliver, Deliver, F!Lose, Lose
<1>4. \A h : F!Mine(h) = Mine(h)
  BY <1>1, <1>2, FeedbackSeesTheChain DEF F!Mine, Mine
<1>5. \A k : F!Interferes(k) = Interferes(k)
  BY <1>2, FeedbackSeesTheChain DEF F!Interferes, Interferes, F!ForeignSafe, ForeignSafe
<1>6. F!Reorg = Reorg
  BY DEF F!Reorg, Reorg, F!Front, Front, F!Last, Last
<1> QED
  BY <1>3, <1>4, <1>5, <1>6 DEF F!ChainNext, ChainNext

--------------------------------------------------------------------------------
(* Feedback.                                                               *)

Trying == {"receipt", "latest", "pending", "lookup", "recheck", "send"}

\* What an ask knows: it is about a transaction that was signed; an observed result is
\* a fact of the chain, a consumed nonce is behind the account's, and a replaced
\* transaction is on no block.
AskHolds(p) ==
  LET r == ask[p]  h == prepared[r.of]
  IN /\ r.pc # "idle" => h # 0
     /\ r.answer # "none" => r.pc = "done"
     /\ r.pc \in Trying => r.attempt < Attempts
     /\ reorgs = 0 =>
          /\ r.answer = "observed" =>
               Mined(h) /\ chain[BlockOf(h)].ok /\ F!ResultOf(h) = r.result
          /\ r.consumed => h # 0 /\ PayerNonce > signed[h].payerNonce
          /\ r.answer = "replaced" /\ r.consumed => ~Mined(h)

ReviewInv ==
  /\ ChainTypeOK /\ OwnAreSigned /\ MinedOnce
  /\ F!TypeOK
  /\ \A p \in Submitters : AskHolds(p)

\* Only a behaviour that starts with a feedback has one.
FeedbackInv == IF writer = "feedback" THEN ReviewInv ELSE F!OwnInit

\* The fields of an ask.
LEMMA AskFields ==
  ASSUME F!TypeOK, NEW p \in Submitters
  PROVE  /\ ask[p] \in F!Submissions
         /\ ask[p].of \in {"feedback", "revoke"}
         /\ ask[p].attempt \in 0..Attempts
         /\ ask[p].result \in F!Results \cup {NoResult}
         /\ prepared[ask[p].of] \in 0..Len(signed)
<1>1. ask[p] \in F!Submissions
  BY DEF F!TypeOK
<1>2. ask[p].of \in {"feedback", "revoke"}
  BY <1>1 DEF F!Submissions, F!Operations
<1>3. ask[p].attempt \in 0..Attempts /\ ask[p].result \in F!Results \cup {NoResult}
  BY <1>1 DEF F!Submissions
<1>4. prepared[ask[p].of] \in 0..Len(signed)
  BY <1>2 DEF F!TypeOK, F!Operations
<1> QED
  BY <1>1, <1>2, <1>3, <1>4

\* The result of a transaction is what is known of its receipt.
LEMMA ResultIsEffect ==
  ASSUME NEW h
  PROVE  F!ResultOf(h) = [height |-> EffectOf(h).height, fork |-> EffectOf(h).fork]
<1>1. F!BlockOf(h) = BlockOf(h)
  BY FeedbackSeesTheChain
<1> QED
  BY <1>1 DEF F!ResultOf, EffectOf

\* A step of one ask leaves the others as they are.
LEMMA OneAskMoves ==
  ASSUME ReviewInv, UNCHANGED <<signed, mempool, chain, foreign, reorgs, losses>>,
         wire' \in SUBSET (1..Len(signed)),
         UNCHANGED <<prepared, original>>, asks' \in 0..MaxAsks,
         NEW p \in Submitters, NEW r \in F!Submissions, ask' = [ask EXCEPT ![p] = r],
         AskHolds(p)'
  PROVE  ReviewInv'
<1>1. ChainTypeOK' /\ OwnAreSigned' /\ MinedOnce'
  BY DEF ReviewInv, ChainTypeOK, OwnAreSigned, MinedOnce, OneBlockEach, Mined
<1>2. F!TypeOK'
  BY DEF ReviewInv, F!TypeOK
<1>3. \A q \in Submitters \ {p} : AskHolds(q)'
  <2> TAKE q \in Submitters \ {p}
  <2>1. ask'[q] = ask[q] /\ AskHolds(q)
    BY DEF ReviewInv, F!TypeOK
  <2> QED
    BY <2>1 DEF AskHolds, Mined, BlockOf, PayerNonce, Count, F!ResultOf, F!BlockOf
<1> QED
  BY <1>1, <1>2, <1>3 DEF ReviewInv
Reading == {"receipt", "latest", "pending", "lookup", "recheck", "poll", "lastReceipt",
            "lastLatest", "lastPending", "lastLookup"}

\* An ask goes on to another read, or to the sending.
LEMMA AskGoes ==
  ASSUME ReviewInv, F!Quiet, NEW p \in Submitters, ask[p].pc \notin {"idle", "done"},
         NEW pc \in Reading \cup {"send"}, pc \in Trying => ask[p].attempt < Attempts,
         F!Goes(p, pc)
  PROVE  ReviewInv'
<1> DEFINE r == [ask[p] EXCEPT !.pc = pc]
<1>1. F!TypeOK
  BY DEF ReviewInv
<1>2. r \in F!Submissions /\ ask' = [ask EXCEPT ![p] = r]
  BY <1>1, AskFields DEF F!Submissions, F!Goes, Reading
<1>3. /\ ask'[p].pc = pc /\ ask'[p].of = ask[p].of /\ ask'[p].attempt = ask[p].attempt
      /\ ask'[p].answer = ask[p].answer /\ ask'[p].consumed = ask[p].consumed
  BY <1>1, <1>2, AskFields DEF F!TypeOK, F!Submissions
<1>4. UNCHANGED <<chainVars, prepared, original, asks>>
  BY DEF F!Quiet, F!chainVars, chainVars
<1>5. AskHolds(p)'
  <2>1. AskHolds(p)
    BY DEF ReviewInv
  <2>2. ask[p].answer = "none"
    BY <2>1 DEF AskHolds
  <2> QED
    BY <1>3, <1>4, <2>1, <2>2
    DEF AskHolds, chainVars, Mined, PayerNonce, Count
<1>6. asks' \in 0..MaxAsks /\ wire' \in SUBSET (1..Len(signed))
  BY <1>4 DEF ReviewInv, F!TypeOK, ChainTypeOK, chainVars
<1> HIDE DEF r
<1> QED
  BY <1>2, <1>4, <1>5, <1>6, OneAskMoves DEF chainVars

\* An ask ends with an answer that claims nothing about the chain.
LEMMA AskEnds ==
  ASSUME ReviewInv, F!Quiet, NEW p \in Submitters, ask[p].pc # "idle",
         NEW answer \in {"reverted", "replaced", "unresolved"},
         answer = "replaced" => ~Mined(prepared[ask[p].of]),
         F!Answers(p, answer)
  PROVE  ReviewInv'
<1> DEFINE r == [ask[p] EXCEPT !.pc = "done", !.answer = answer]
<1>1. F!TypeOK
  BY DEF ReviewInv
<1>2. r \in F!Submissions /\ ask' = [ask EXCEPT ![p] = r]
  BY <1>1, AskFields DEF F!Submissions, F!Answers
<1>3. /\ ask'[p].pc = "done" /\ ask'[p].of = ask[p].of
      /\ ask'[p].answer = answer /\ ask'[p].consumed = ask[p].consumed
  BY <1>1, <1>2, AskFields DEF F!TypeOK, F!Submissions
<1>4. UNCHANGED <<chainVars, prepared, original, asks>>
  BY DEF F!Quiet, F!chainVars, chainVars
<1>5. AskHolds(p)'
  <2>1. AskHolds(p)
    BY DEF ReviewInv
  <2> QED
    BY <1>3, <1>4, <2>1 DEF AskHolds, chainVars, Mined, PayerNonce, Count, Trying
<1>6. asks' \in 0..MaxAsks /\ wire' \in SUBSET (1..Len(signed))
  BY <1>4 DEF ReviewInv, F!TypeOK, ChainTypeOK, chainVars
<1> HIDE DEF r
<1> QED
  BY <1>2, <1>4, <1>5, <1>6, OneAskMoves DEF chainVars

\* What is mined decides; otherwise the ask goes on.
LEMMA LookKeeps ==
  ASSUME ReviewInv, F!Quiet, NEW p \in Submitters, ask[p].pc \notin {"idle", "done"},
         NEW pc \in Reading \cup {"send"}, pc \in Trying => ask[p].attempt < Attempts,
         F!Looks(p, pc)
  PROVE  ReviewInv'
<1> DEFINE h == prepared[ask[p].of]
<1>1. CASE ~Mined(h)
  <2>1. F!Goes(p, pc)
    BY <1>1, FeedbackSeesTheChain DEF F!Looks
  <2> QED
    BY <2>1, AskGoes
<1>2. CASE Mined(h) /\ ~chain[BlockOf(h)].ok
  <2>1. F!Answers(p, "reverted")
    BY <1>2, FeedbackSeesTheChain DEF F!Looks
  <2> QED
    BY <2>1, AskEnds
<1>3. CASE Mined(h) /\ chain[BlockOf(h)].ok
  <2> DEFINE r == [ask[p] EXCEPT !.pc = "done", !.answer = "observed",
                                 !.result = F!ResultOf(h)]
  <2>1. F!TypeOK /\ ChainTypeOK
    BY DEF ReviewInv
  <2>2. ask' = [ask EXCEPT ![p] = r]
    BY <1>3, FeedbackSeesTheChain DEF F!Looks
  <2>3. F!ResultOf(h) \in F!Results
    <3>1. EffectOf(h) \in Effects
      BY <1>3, <2>1, EffectType
    <3> QED
      BY <3>1, ResultIsEffect DEF Effects, F!Results
  <2>4. r \in F!Submissions
    BY <2>1, <2>3, AskFields DEF F!Submissions
  <2>5. /\ ask'[p].pc = "done" /\ ask'[p].of = ask[p].of /\ ask'[p].answer = "observed"
        /\ ask'[p].result = F!ResultOf(h) /\ ask'[p].consumed = ask[p].consumed
    BY <2>1, <2>2, <2>4, AskFields DEF F!TypeOK, F!Submissions
  <2>6. UNCHANGED <<chainVars, prepared, original, asks>>
    BY DEF F!Quiet, F!chainVars, chainVars
  <2>7. AskHolds(p)'
    <3>1. AskHolds(p)
      BY DEF ReviewInv
    <3>2. F!ResultOf(h)' = F!ResultOf(h)
      BY <2>5, <2>6 DEF chainVars, F!ResultOf, F!BlockOf
    <3>3. prepared'[ask'[p].of] = h
      BY <2>5, <2>6
    <3>4. Mined(h)' /\ chain'[BlockOf(h)'].ok
      BY <1>3, <2>5, <2>6 DEF chainVars, Mined, BlockOf
    <3>5. PayerNonce' = PayerNonce
      BY <2>6 DEF chainVars, PayerNonce, Count
    <3> HIDE DEF h
    <3> QED
      BY <2>5, <2>6, <3>1, <3>2, <3>3, <3>4, <3>5 DEF AskHolds, chainVars, Trying, h
  <2>8. asks' \in 0..MaxAsks /\ wire' \in SUBSET (1..Len(signed))
    BY <2>1, <2>6 DEF F!TypeOK, ChainTypeOK, chainVars
  <2> HIDE DEF r
  <2> QED
    BY <2>2, <2>4, <2>6, <2>7, <2>8, OneAskMoves DEF chainVars
<1> QED
  BY <1>1, <1>2, <1>3

\* The nonce of the account is found to be consumed, or not.
LEMMA ConsumedKeeps ==
  ASSUME ReviewInv, NEW p \in Submitters, F!Consumed(p)
  PROVE  ReviewInv'
<1> DEFINE h == prepared[ask[p].of]
<1>1. F!TypeOK /\ F!Quiet /\ ask[p].pc = "latest" /\ AskHolds(p)
  BY DEF ReviewInv, F!Consumed
<1>2. h # 0 /\ ask[p].answer = "none" /\ ask[p].attempt < Attempts
  BY <1>1 DEF AskHolds, Trying
<1>3. CASE ~(PayerNonce > signed[h].payerNonce)
  <2>1. F!Goes(p, "pending")
    BY <1>3, FeedbackSeesTheChain DEF F!Consumed, F!Nonce
  <2> QED
    BY <1>1, <1>2, <2>1, AskGoes DEF Reading
<1>4. CASE PayerNonce > signed[h].payerNonce
  <2> DEFINE r == [ask[p] EXCEPT !.pc = "recheck", !.consumed = TRUE]
  <2>1. ask' = [ask EXCEPT ![p] = r]
    BY <1>4, FeedbackSeesTheChain DEF F!Consumed, F!Nonce
  <2>2. r \in F!Submissions
    BY <1>1, AskFields DEF F!Submissions
  <2>3. /\ ask'[p].pc = "recheck" /\ ask'[p].of = ask[p].of /\ ask'[p].answer = "none"
        /\ ask'[p].attempt = ask[p].attempt
    BY <1>1, <1>2, <2>1, <2>2, AskFields DEF F!TypeOK, F!Submissions
  <2>4. UNCHANGED <<chainVars, prepared, original, asks>>
    BY <1>1 DEF F!Quiet, F!chainVars, chainVars
  <2>5. AskHolds(p)'
    BY <1>2, <1>4, <2>3, <2>4 DEF AskHolds, chainVars, PayerNonce, Count
  <2>6. asks' \in 0..MaxAsks /\ wire' \in SUBSET (1..Len(signed))
    BY <2>4 DEF ReviewInv, F!TypeOK, ChainTypeOK, chainVars
  <2> HIDE DEF r
  <2> QED
    BY <2>1, <2>2, <2>4, <2>5, <2>6, OneAskMoves DEF chainVars
<1> QED
  BY <1>3, <1>4

\* The retained bytes leave for the node, or are lost.
LEMMA SendsAgainKeeps ==
  ASSUME ReviewInv, NEW p \in Submitters, F!Sends(p)
  PROVE  ReviewInv'
<1> DEFINE r == [ask[p] EXCEPT !.pc = "poll", !.attempt = @ + 1]
<1>1. F!TypeOK /\ ChainTypeOK /\ AskHolds(p) /\ ask[p].pc = "send"
  BY DEF ReviewInv, F!Sends
<1>2. ask' = [ask EXCEPT ![p] = r]
  BY DEF F!Sends
<1>3. ask[p].attempt \in 0..Attempts /\ ask[p].attempt < Attempts
      /\ ask[p].answer = "none" /\ prepared[ask[p].of] \in 1..Len(signed)
  BY <1>1, AskFields DEF AskHolds, Trying
<1>4. ask[p].attempt + 1 \in 0..Attempts
  BY <1>3, WritersAssumption
<1>5. r \in F!Submissions
  BY <1>1, <1>4, AskFields DEF F!Submissions
<1>6. /\ ask'[p].pc = "poll" /\ ask'[p].of = ask[p].of /\ ask'[p].answer = "none"
      /\ ask'[p].consumed = ask[p].consumed
  BY <1>1, <1>2, <1>3, <1>5, AskFields DEF F!TypeOK, F!Submissions
<1>7. UNCHANGED <<signed, mempool, chain, foreign, reorgs, losses, prepared, original, asks>>
  BY DEF F!Sends
<1>8. wire' \in SUBSET (1..Len(signed))
  BY <1>1, <1>3 DEF F!Sends, ChainTypeOK
<1>9. AskHolds(p)'
  BY <1>1, <1>6, <1>7 DEF AskHolds, Trying, PayerNonce, Count
<1>10. asks' \in 0..MaxAsks
  BY <1>1, <1>7 DEF F!TypeOK
<1> HIDE DEF r
<1> QED
  BY <1>2, <1>5, <1>7, <1>8, <1>9, <1>10, OneAskMoves

\* Every step of an ask.
LEMMA AskStepsKeep ==
  ASSUME ReviewInv, NEW p \in Submitters, F!Steps(p)
  PROVE  ReviewInv'
<1> DEFINE h == prepared[ask[p].of]
<1>1. AskHolds(p) /\ F!TypeOK
  BY DEF ReviewInv
<1>2. ask[p].attempt \in 0..Attempts
  BY <1>1, AskFields
<1>3. CASE F!FindsReceipt(p)
  <2>1. ask[p].pc = "receipt" /\ F!Looks(p, "latest") /\ F!Quiet
    BY <1>3 DEF F!FindsReceipt
  <2>2. ask[p].attempt < Attempts
    BY <1>1, <2>1 DEF AskHolds, Trying
  <2> QED
    BY <2>1, <2>2, LookKeeps DEF Reading
<1>4. CASE F!Consumed(p)
  BY <1>4, ConsumedKeeps
<1>5. CASE F!Competes(p)
  <2>1. ask[p].pc = "pending" /\ F!Quiet
    BY <1>5 DEF F!Competes
  <2>2. PICK pc \in {"lookup", "send"} : F!Goes(p, pc)
    BY <1>5 DEF F!Competes
  <2>3. ask[p].attempt < Attempts
    BY <1>1, <2>1 DEF AskHolds, Trying
  <2> QED
    BY <2>1, <2>2, <2>3, AskGoes DEF Reading
<1>6. CASE F!LooksUp(p)
  <2>1. ask[p].pc = "lookup" /\ F!Quiet
    BY <1>6 DEF F!LooksUp
  <2>2. PICK pc \in {"send", "recheck"} : F!Goes(p, pc)
    BY <1>6 DEF F!LooksUp
  <2>3. ask[p].attempt < Attempts
    BY <1>1, <2>1 DEF AskHolds, Trying
  <2> QED
    BY <2>1, <2>2, <2>3, AskGoes DEF Reading
<1>7. CASE F!Rechecks(p)
  <2>1. ask[p].pc = "recheck" /\ F!Quiet
    BY <1>7 DEF F!Rechecks
  <2>2. ask[p].attempt < Attempts
    BY <1>1, <2>1 DEF AskHolds, Trying
  <2>3. CASE Mined(h)
    <3>1. F!Looks(p, "recheck")
      BY <1>7, <2>3, FeedbackSeesTheChain DEF F!Rechecks
    <3> QED
      BY <2>1, <2>2, <3>1, LookKeeps DEF Reading
  <2>4. CASE ~Mined(h)
    <3>1. F!Answers(p, "replaced")
      BY <1>7, <2>4, FeedbackSeesTheChain DEF F!Rechecks
    <3> QED
      BY <2>1, <2>4, <3>1, AskEnds
  <2> QED
    BY <2>3, <2>4
<1>8. CASE F!Sends(p)
  BY <1>8, SendsAgainKeeps
<1>9. CASE F!Polls(p)
  <2>1. ask[p].pc = "poll" /\ F!Quiet
    BY <1>9 DEF F!Polls
  <2>2. PICK pc \in {"poll", "receipt", "lastReceipt"} :
          F!Looks(p, pc) /\ (pc = "receipt" => ask[p].attempt < Attempts)
    BY <1>9 DEF F!Polls
  <2> QED
    BY <2>1, <2>2, LookKeeps DEF Reading, Trying
<1>10. CASE F!LastReceipt(p)
  BY <1>10, LookKeeps DEF F!LastReceipt, Reading, Trying
<1>11. CASE F!LastNonce(p)
  <2>1. ask[p].pc \in {"lastLatest", "lastPending", "lastLookup"} /\ F!Quiet
    BY <1>11 DEF F!LastNonce
  <2>2. \/ F!Answers(p, "unresolved")
        \/ \E pc \in {"lastPending", "lastLookup"} : F!Goes(p, pc)
    BY <1>11 DEF F!LastNonce
  <2> QED
    BY <2>1, <2>2, AskGoes, AskEnds DEF Reading, Trying
<1> QED
  BY <1>3, <1>4, <1>5, <1>6, <1>7, <1>8, <1>9, <1>10, <1>11 DEF F!Steps

\* A process submits, again perhaps.
LEMMA SubmitKeeps ==
  ASSUME ReviewInv, NEW p \in Submitters, NEW call \in F!Operations, F!Submit(p, call)
  PROVE  ReviewInv'
<1>1. F!TypeOK /\ ChainTypeOK
  BY DEF ReviewInv
<1>2. PICK pc \in {"done", "receipt"}, answer \in {"refused", "none"} :
        /\ ask' = [ask EXCEPT ![p] = [F!NoSubmission EXCEPT !.of = call, !.pc = pc,
                                                            !.answer = answer]]
        /\ answer = "none" \/ pc = "done"
  <2>1. [F!NoSubmission EXCEPT !.of = call, !.pc = "receipt"] =
          [F!NoSubmission EXCEPT !.of = call, !.pc = "receipt", !.answer = "none"]
    <3>1. F!NoSubmission.answer = "none" /\ "answer" \in DOMAIN F!NoSubmission
      BY DEF F!NoSubmission
    <3> DEFINE x == [F!NoSubmission EXCEPT !.of = call, !.pc = "receipt"]
               y == [F!NoSubmission EXCEPT !.of = call, !.pc = "receipt", !.answer = "none"]
    <3>2. DOMAIN x = DOMAIN F!NoSubmission /\ DOMAIN y = DOMAIN F!NoSubmission
      OBVIOUS
    <3>3. \A f \in DOMAIN F!NoSubmission : x[f] = y[f]
      BY <3>1
    <3>4. x = [f \in DOMAIN x |-> x[f]] /\ y = [f \in DOMAIN y |-> y[f]]
      OBVIOUS
    <3> HIDE DEF x, y
    <3>5. x = y
      BY <3>2, <3>3, <3>4
    <3> QED
      BY <3>5 DEF x, y
  <2>2. [F!NoSubmission EXCEPT !.of = call, !.pc = "done", !.answer = "refused"] =
          [F!NoSubmission EXCEPT !.of = call, !.pc = "done", !.answer = "refused"]
    OBVIOUS
  <2>3. \/ ask' = [ask EXCEPT ![p] = [F!NoSubmission EXCEPT !.of = call, !.pc = "receipt"]]
        \/ ask' = [ask EXCEPT ![p] = [F!NoSubmission EXCEPT !.of = call, !.pc = "done",
                                                            !.answer = "refused"]]
    BY DEF F!Submit
  <2> QED
    BY <2>1, <2>3
<1> DEFINE r == [F!NoSubmission EXCEPT !.of = call, !.pc = pc, !.answer = answer]
<1>3. 0 \in 0..Attempts /\ 0 < Attempts
  BY WritersAssumption
<1>4. r \in F!Submissions
  BY <1>3 DEF F!NoSubmission, F!Submissions
<1>5. /\ ask'[p].pc = pc /\ ask'[p].of = call /\ ask'[p].answer = answer
      /\ ask'[p].consumed = FALSE /\ ask'[p].attempt = 0
  BY <1>1, <1>2, <1>4 DEF F!TypeOK, F!NoSubmission
<1>6. UNCHANGED <<chainVars, prepared, original>> /\ prepared[call] # 0
  BY DEF F!Submit, F!chainVars, chainVars
<1>7. AskHolds(p)'
  BY <1>2, <1>3, <1>5, <1>6 DEF AskHolds, Trying
<1>8. asks' \in 0..MaxAsks
  BY <1>1, WritersAssumption DEF F!Submit, F!TypeOK
<1>9. wire' \in SUBSET (1..Len(signed))
  BY <1>1, <1>6 DEF ChainTypeOK, chainVars
<1> HIDE DEF r
<1>10. ask' = [ask EXCEPT ![p] = r]
  BY <1>2 DEF r
<1> QED
  BY <1>4, <1>6, <1>7, <1>8, <1>9, <1>10, OneAskMoves DEF chainVars

\* A transaction is prepared and signed, once.
LEMMA SignsKeeps ==
  ASSUME ReviewInv, NEW call \in F!Operations, F!Signs(call),
         original' \in F!Results \cup {NoResult}
  PROVE  ReviewInv'
<1> DEFINE t == [call |-> call, payerNonce |-> PendingNonce, safeNonce |-> 0, agent |-> 0]
           n == Len(signed) + 1
<1>1. F!TypeOK /\ ChainTypeOK /\ OwnAreSigned /\ MinedOnce
  BY DEF ReviewInv
<1>2. /\ signed' = Append(signed, t) /\ prepared' = [prepared EXCEPT ![call] = n]
      /\ prepared[call] = 0
      /\ UNCHANGED <<wire, mempool, chain, foreign, reorgs, losses, ask, asks>>
  BY FeedbackSeesTheChain DEF F!Signs
<1>3. t \in Transactions
  BY <1>1, PendingIsNumber DEF Transactions, F!Operations
<1> HIDE DEF t
<1>4. /\ signed' \in Seq(Transactions) /\ Len(signed') = n /\ Len(signed) \in Nat
      /\ \A h \in 1..Len(signed) : signed'[h] = signed[h]
  <2>1. signed \in Seq(Transactions)
    BY <1>1 DEF ChainTypeOK
  <2> QED
    BY <1>2, <1>3, <2>1, AppendProperties, LenProperties
<1>5. ChainTypeOK' /\ OwnAreSigned' /\ MinedOnce'
  BY <1>1, <1>2, <1>4 DEF ChainTypeOK, OwnAreSigned, MinedOnce, OneBlockEach, Mined
<1>6. F!TypeOK'
  <2>1. prepared \in [F!Operations -> 0..Len(signed)]
    BY <1>1 DEF F!TypeOK
  <2>2. prepared' \in [F!Operations -> 0..Len(signed')]
    BY <1>2, <1>4, <2>1
  <2> QED
    BY <1>1, <1>2, <2>2 DEF F!TypeOK
<1>7. \A p \in Submitters : AskHolds(p)'
  <2> TAKE p \in Submitters
  <2>1. AskHolds(p) /\ ask'[p] = ask[p] /\ prepared[ask[p].of] \in 0..Len(signed)
    BY <1>1, <1>2, AskFields DEF ReviewInv
  <2>2. F!ResultOf(prepared[ask[p].of])' = F!ResultOf(prepared'[ask[p].of])
    BY <1>2 DEF F!ResultOf, F!BlockOf
  <2>3. PayerNonce' = PayerNonce
    BY <1>2 DEF PayerNonce, Count
  <2>4. CASE ask[p].of = call
    BY <1>2, <2>1, <2>4 DEF AskHolds, Trying
  <2>5. CASE ask[p].of # call
    <3>1. prepared'[ask[p].of] = prepared[ask[p].of]
      BY <1>1, <1>2, <2>5, AskFields DEF F!TypeOK
    <3>2. prepared[ask[p].of] # 0 =>
            signed'[prepared[ask[p].of]] = signed[prepared[ask[p].of]]
      BY <1>4, <2>1
    <3> DEFINE h == prepared[ask[p].of]
    <3>3. ask'[p].of = ask[p].of
      BY <2>1
    <3>4. Mined(h)' = Mined(h) /\ BlockOf(h)' = BlockOf(h)
          /\ F!ResultOf(h)' = F!ResultOf(h)
      BY <1>2, <3>1, <3>3 DEF Mined, BlockOf, F!ResultOf, F!BlockOf
    <3>5. prepared'[ask'[p].of] = h
      BY <3>1, <3>3
    <3> HIDE DEF h
    <3> QED
      BY <1>2, <2>1, <2>3, <3>2, <3>3, <3>4, <3>5 DEF AskHolds, h
  <2> QED
    BY <2>4, <2>5
<1> QED
  BY <1>5, <1>6, <1>7 DEF ReviewInv

\* A nonce of the account that was used stays used while blocks are only added.
LEMMA NonceAdvances ==
  ASSUME ChainTypeOK, NEW b \in Blocks, chain' = Append(chain, b), UNCHANGED signed
  PROVE  /\ PayerNonce' \in Nat /\ PayerNonce \in Nat /\ PayerNonce' >= PayerNonce
         /\ b.kind \in {"own", "payer"} => PayerNonce' = PayerNonce + 1
<1> DEFINE moves(x) == x.kind \in {"own", "payer"}
           A == {i \in DOMAIN chain : moves(chain[i])}
           B == {i \in DOMAIN chain' : moves(chain'[i])}
           n == Len(chain) + 1
<1>1. /\ DOMAIN chain' = DOMAIN chain \cup {n} /\ n \notin DOMAIN chain
      /\ \A i \in DOMAIN chain : chain'[i] = chain[i]
      /\ chain'[n] = b /\ DOMAIN chain = 1..Len(chain) /\ Len(chain) \in Nat
  BY Added DEF ChainTypeOK
<1>2. IsFiniteSet(DOMAIN chain)
  BY <1>1, FS_Interval
<1>3. IsFiniteSet(A)
  BY <1>2, FS_Subset
<1>4. B = IF moves(b) THEN A \cup {n} ELSE A
  BY <1>1
<1>5. n \notin A
  BY <1>1
<1>6. Cardinality(A \cup {n}) = Cardinality(A) + 1 /\ Cardinality(A) \in Nat
  BY <1>3, <1>5, FS_AddElement, FS_CardinalityType
<1>7. PayerNonce = Cardinality(A) /\ PayerNonce' = Cardinality(B)
  BY DEF PayerNonce, Count
<1> HIDE DEF A, B, n
<1> QED
  BY <1>4, <1>6, <1>7

\* What an ask knows outlasts a block.
LEMMA BlockKeepsAsk ==
  ASSUME ReviewInv, reorgs = 0, reorgs' = 0, NEW b \in Blocks, Adds(b), UNCHANGED signed,
         UNCHANGED <<prepared, ask>>, NEW p \in Submitters
  PROVE  AskHolds(p)'
<1>0. PICK h : h = prepared[ask[p].of]
  OBVIOUS
<1>1. /\ ChainTypeOK /\ F!TypeOK /\ AskHolds(p)
      /\ OneBlockEach /\ \A k \in mempool : ~Mined(k)
  BY DEF ReviewInv, MinedOnce
<1>2. /\ chain' = Append(chain, b) /\ chain \in Seq(Blocks)
      /\ b.kind = "own" => ~Mined(b.by) /\ signed[b.by].payerNonce = PayerNonce
  BY <1>1 DEF Adds, ChainTypeOK
<1>3. /\ \A k : Mined(k)' => Mined(k) \/ (b.kind = "own" /\ k = b.by)
      /\ \A k, e : IsFact(k, e) => IsFact(k, e)'
  BY <1>1, <1>2, FactsOutlastBlocks
<1>4. PayerNonce' \in Nat /\ PayerNonce \in Nat /\ PayerNonce' >= PayerNonce
  BY <1>1, <1>2, NonceAdvances
<1>5. prepared'[ask'[p].of] = h /\ ask'[p] = ask[p]
  BY <1>0
<1>6. ASSUME ask[p].answer = "observed"
      PROVE  Mined(h)' /\ (chain[BlockOf(h)].ok)' /\ F!ResultOf(h)' = ask[p].result
  <2>1. Mined(h) /\ chain[BlockOf(h)].ok /\ F!ResultOf(h) = ask[p].result
    BY <1>0, <1>1, <1>6 DEF AskHolds
  <2>0. PICK e : e = EffectOf(h)
    OBVIOUS
  <2>2. IsFact(h, e)
    BY <2>0, <2>1 DEF IsFact
  <2>3. IsFact(h, e)'
    BY <1>3, <2>2
  <2>4. Mined(h)' /\ (chain[BlockOf(h)].ok)' /\ e = EffectOf(h)'
    BY <2>3 DEF IsFact
  <2>5. F!ResultOf(h)' = [height |-> EffectOf(h)'.height, fork |-> EffectOf(h)'.fork]
    BY DEF F!ResultOf, F!BlockOf, EffectOf, BlockOf
  <2> QED
    BY <2>0, <2>1, <2>4, <2>5, ResultIsEffect
<1>7. ASSUME ask[p].consumed
      PROVE  /\ h # 0 /\ PayerNonce' > signed'[h].payerNonce
             /\ ~Mined(h) => ~Mined(h)'
  <2>1. h # 0 /\ PayerNonce > signed[h].payerNonce
    BY <1>0, <1>1, <1>7 DEF AskHolds
  <2>2. signed[h].payerNonce \in Nat
    <3>1. h \in 1..Len(signed)
      BY <1>0, <1>1, <2>1, AskFields
    <3>2. signed[h] \in Transactions
      BY <1>1, <3>1, ElementOfSeq DEF ChainTypeOK
    <3> QED
      BY <3>2 DEF Transactions
  <2>3. ~(b.kind = "own" /\ h = b.by)
    BY <1>2, <1>4, <2>1, <2>2
  <2>4. ~Mined(h) => ~Mined(h)'
    BY <1>3, <1>5, <2>3
  <2> QED
    BY <1>4, <2>1, <2>2, <2>4
<1> QED
  BY <1>0, <1>1, <1>5, <1>6, <1>7 DEF AskHolds

\* What the chain does leaves what the asks know.
LEMMA ChainKeepsAsks ==
  ASSUME ReviewInv, F!ChainNext({"payer", "registry"}), UNCHANGED F!ownVars
  PROVE  ReviewInv'
<1> DEFINE kinds == {"payer", "registry"}
<1>1. ChainNext(kinds) /\ kinds \in SUBSET ForeignKinds
  BY FeedbackMovesTheChain DEF ForeignKinds
<1> HIDE DEF kinds
<1>2. UNCHANGED <<prepared, original, ask, asks>>
  BY DEF F!ownVars
<1>3. ChainTypeOK' /\ OwnAreSigned' /\ UNCHANGED signed
  BY <1>1, EnvironmentKeepsType DEF ReviewInv
<1>4. MinedOnce' /\ (reorgs' = 0 => reorgs = 0)
  BY <1>1, ChainKeepsFacts DEF ReviewInv
<1>5. F!TypeOK'
  BY <1>2, <1>3 DEF F!TypeOK, ReviewInv
<1>6. \A p \in Submitters : AskHolds(p)'
  <2> TAKE p \in Submitters
  <2>1. AskHolds(p)
    BY DEF ReviewInv
  <2>2. CASE reorgs' # 0
    BY <1>2, <2>1, <2>2 DEF AskHolds
  <2>3. CASE reorgs' = 0 /\ UNCHANGED chain
    BY <1>2, <1>3, <1>4, <2>1, <2>3
    DEF AskHolds, Mined, BlockOf, F!ResultOf, F!BlockOf, PayerNonce, Count
  <2>4. CASE reorgs' = 0 /\ \E b \in Blocks : Adds(b)
    <3>1. PICK b \in Blocks : Adds(b)
      BY <2>4
    <3> QED
      BY <1>2, <1>3, <1>4, <2>4, <3>1, BlockKeepsAsk
  <2>5. (\E b \in Blocks : Adds(b)) \/ Waits \/ Drops
    BY <1>1, ChainMoves DEF ReviewInv
  <2> QED
    BY <2>2, <2>3, <2>4, <2>5 DEF Waits, Drops
<1> QED
  BY <1>3, <1>4, <1>5, <1>6 DEF ReviewInv

\* So does every step of a feedback.
LEMMA ReviewKeeps ==
  ASSUME ReviewInv, F!Next
  PROVE  ReviewInv'
<1>1. CASE F!PreparePublication
  <2>1. F!Signs("feedback") /\ "feedback" \in F!Operations
        /\ original' \in F!Results \cup {NoResult}
    BY <1>1 DEF F!PreparePublication, F!Operations, ReviewInv, F!TypeOK
  <2> QED
    BY <2>1, SignsKeeps
<1>2. CASE F!PrepareRevocation
  <2>1. F!Signs("revoke") /\ "revoke" \in F!Operations
    BY <1>2 DEF F!PrepareRevocation, F!Operations
  <2>2. PICK p \in Submitters : original' = ask[p].result
    BY <1>2 DEF F!PrepareRevocation
  <2>3. ask[p].result \in F!Results \cup {NoResult}
    BY AskFields DEF ReviewInv
  <2> QED
    BY <2>1, <2>2, <2>3, SignsKeeps
<1>3. CASE \E p \in Submitters : F!Steps(p)
  BY <1>3, AskStepsKeep
<1>4. CASE \E p \in Submitters : \E call \in F!Operations : F!Submit(p, call)
  BY <1>4, SubmitKeeps
<1>5. CASE F!ChainNext({"payer", "registry"}) /\ UNCHANGED F!ownVars
  BY <1>5, ChainKeepsAsks
<1> QED
  BY <1>1, <1>2, <1>3, <1>4, <1>5 DEF F!Next

\* Before anything is asked the state of a feedback is of its type.
LEMMA NothingAskedIsTyped ==
  ASSUME ChainTypeOK, F!OwnInit
  PROVE  F!TypeOK
<1>1. 0 \in 0..Attempts /\ 0 \in 0..MaxAsks /\ Len(signed) \in Nat
  BY WritersAssumption, LenProperties DEF ChainTypeOK
<1>2. F!NoSubmission \in F!Submissions
  BY <1>1 DEF F!NoSubmission, F!Submissions, F!Operations
<1> QED
  BY <1>1, <1>2 DEF F!OwnInit, F!TypeOK

\* Nothing is asked at first.
LEMMA ReviewStarts ==
  ASSUME WritersInit
  PROVE  FeedbackInv
<1> SUFFICES ASSUME writer = "feedback" PROVE ReviewInv
  BY DEF WritersInit, FeedbackInv
<1>1. Init /\ F!OwnInit
  BY DEF WritersInit
<1>2. TypeOK /\ IInv /\ FInv
  BY <1>1, InitEstablishes, InitHasFacts
<1>3. ChainTypeOK /\ OwnAreSigned /\ MinedOnce
  BY <1>2 DEF TypeOK, IInv, FInv
<1>4. F!TypeOK
  BY <1>1, <1>3, NothingAskedIsTyped
<1>5. \A p \in Submitters : AskHolds(p)
  <2>1. 0 < Attempts
    BY WritersAssumption
  <2> QED
    BY <1>1, <2>1 DEF F!OwnInit, F!NoSubmission, AskHolds, Trying
<1> QED
  BY <1>3, <1>4, <1>5 DEF ReviewInv

\* The invariant holds, whoever writes.
THEOREM FeedbackInvariance == WritersSpec => []FeedbackInv
<1>1. WritersInit => FeedbackInv
  BY ReviewStarts
<1>2. FeedbackInv /\ [WritersNext]_writerVars => FeedbackInv'
  <2> SUFFICES ASSUME FeedbackInv, [WritersNext]_writerVars PROVE FeedbackInv'
    OBVIOUS
  <2>1. CASE UNCHANGED <<writer, feedbackVars>> /\ writer # "feedback"
    BY <2>1 DEF FeedbackInv, F!OwnInit, feedbackVars
  <2>2. CASE Reviews(F!Next)
    BY <2>2, ReviewKeeps DEF Reviews, FeedbackInv
  <2>3. CASE HandOver
    BY <2>3 DEF HandOver, FeedbackInv, F!OwnInit, feedbackVars
  <2>4. CASE UNCHANGED writerVars /\ writer = "feedback"
    <3>1. UNCHANGED <<chainVars, writer, feedbackVars>>
      BY <2>4 DEF writerVars, vars
    <3>2. ReviewInv
      BY <2>4 DEF FeedbackInv
    <3>3. ReviewInv'
      BY <3>1, <3>2
      DEF ReviewInv, chainVars, feedbackVars, ChainTypeOK, OwnAreSigned, MinedOnce,
          OneBlockEach, Mined, F!TypeOK, AskHolds, BlockOf, F!ResultOf, F!BlockOf,
          PayerNonce, Count
    <3> QED
      BY <2>4, <3>1, <3>3 DEF FeedbackInv
  <2>5. CASE Onboards(Next) \/ Migrates(M!Next)
    BY <2>1, <2>5 DEF Onboards, Migrates
  <2> QED
    BY <2>1, <2>2, <2>3, <2>4, <2>5 DEF WritersNext, writerVars
<1> QED
  BY <1>1, <1>2, PTL DEF WritersSpec

\* AnswersAreTrue, the answers of submitPreparedFeedback (demo/feedbackPublication.ts
\* 284-293): for any number of processes, attempts, lost requests and other uses of the
\* nonce, what was answered stays true while no block is dropped.
THEOREM AnswersAreTrueHolds == WritersSpec => []AnswersAreTrue
<1>1. FeedbackInv => AnswersAreTrue
  <2> SUFFICES ASSUME FeedbackInv PROVE AnswersAreTrue
    OBVIOUS
  <2>1. CASE writer = "feedback"
    BY <2>1, FeedbackSeesTheChain
    DEF FeedbackInv, ReviewInv, AskHolds, AnswersAreTrue, F!AnswersAreTrue
  <2>2. CASE writer # "feedback"
    BY <2>2
    DEF FeedbackInv, F!OwnInit, F!NoSubmission, AnswersAreTrue, F!AnswersAreTrue
  <2> QED
    BY <2>1, <2>2
<1> QED
  BY <1>1, FeedbackInvariance, PTL

--------------------------------------------------------------------------------
(* What a look at the chain says, and for how long.                        *)

\* A set of numbers up to n that is not empty has a greatest one.
LEMMA MaxOfInterval ==
  ASSUME NEW n \in Nat, NEW T \in SUBSET (1..n), T # {}
  PROVE  Max(T) \in T
<1> DEFINE D == {n - x : x \in T}
<1>1. D \in SUBSET Nat /\ D # {}
  <2>1. \A x \in T : n - x \in Nat
    OBVIOUS
  <2> QED
    BY <2>1
<1>2. \E d \in D : \A e \in D : ~(<<e, d>> \in OpToRel(<, Nat))
  BY <1>1, NatLessThanWellFounded, WFMin
<1>3. PICK x \in T : \A y \in T : ~(<<n - y, n - x>> \in OpToRel(<, Nat))
  BY <1>2
<1>4. \A y \in T : x >= y
  <2> SUFFICES ASSUME NEW y \in T PROVE x >= y
    OBVIOUS
  <2>1. n - y \in Nat /\ n - x \in Nat /\ x \in Nat /\ y \in Nat
    OBVIOUS
  <2>2. ~(n - y < n - x)
    BY <1>3, <2>1 DEF OpToRel
  <2> QED
    BY <2>1, <2>2
<1> QED
  BY <1>4 DEF Max

\* The last number of a set, if it has one.
LastIn(I) == IF I # {} THEN Max(I) ELSE 0

\* It is one of the set, or zero.
LEMMA LastOfInterval ==
  ASSUME NEW n \in Nat, NEW I \in SUBSET (1..n)
  PROVE  LastIn(I) \in 0..n /\ (LastIn(I) # 0 => LastIn(I) \in I)
<1>1. CASE I = {}
  BY <1>1 DEF LastIn
<1>2. CASE I # {}
  <2>1. LastIn(I) \in I
    BY <1>2, MaxOfInterval DEF LastIn
  <2>2. 1..n \subseteq 0..n
    OBVIOUS
  <2> QED
    BY <2>1, <2>2
<1> QED
  BY <1>1, <1>2

Moves(b) == b.kind \in ForeignSafe \/ \E call \in SafeCalls : Own(b, call)
Sets(b) == b.kind = "rotate" \/ Own(b, "swap")
Shows(b, agent) == /\ b.agent = agent
                   /\ b.kind = "edit" \/ Own(b, "publish") \/ Own(b, "republish")

\* The blocks up to n that make an owner, or show a profile.
Settings(n) == {i \in 1..n : Sets(chain[i])}
Showings(n, agent) == {i \in 1..n : Shows(chain[i], agent)}

\* The first owner and a profile are those of the last such block.
LEMMA ViewOfBlocks ==
  ASSUME NEW n, NEW agent
  PROVE  /\ PrimaryAt(n) = LET i == LastIn(Settings(n))
                           IN IF i = 0 THEN "retired"
                              ELSE IF chain[i].kind = "own" THEN "replacement" ELSE "other"
         /\ ProfileAt(n, agent) = LET i == LastIn(Showings(n, agent))
                                  IN IF i = 0 THEN "none"
                                     ELSE IF chain[i].kind = "own"
                                          THEN signed[chain[i].by].call ELSE "other"
  BY DEF PrimaryAt, ProfileAt, SelectLastInSubSeq, LastIn, Settings, Showings, Sets, Shows

\* They stay as they are while the blocks up to n and their transactions do.
LEMMA ViewStays ==
  ASSUME NEW n \in Nat, NEW agent, \A i \in 1..n : chain'[i] = chain[i],
         \A i \in 1..n : chain[i].kind = "own" =>
           signed'[chain[i].by] = signed[chain[i].by]
  PROVE  PrimaryAt(n)' = PrimaryAt(n) /\ ProfileAt(n, agent)' = ProfileAt(n, agent)
<1>1. Settings(n)' = Settings(n) /\ Showings(n, agent)' = Showings(n, agent)
  BY DEF Settings, Showings, Sets, Shows, Own
<1> DEFINE s == LastIn(Settings(n))
           p == LastIn(Showings(n, agent))
<1>2. s' = s /\ p' = p
  BY <1>1 DEF LastIn
<1>3. s = 0 \/ s \in 1..n
  BY LastOfInterval DEF Settings
<1>4. p = 0 \/ p \in 1..n
  BY LastOfInterval DEF Showings
<1>5. /\ PrimaryAt(n) = IF s = 0 THEN "retired"
                       ELSE IF chain[s].kind = "own" THEN "replacement" ELSE "other"
      /\ ProfileAt(n, agent) = IF p = 0 THEN "none"
                              ELSE IF chain[p].kind = "own"
                                   THEN signed[chain[p].by].call ELSE "other"
  BY ViewOfBlocks
<1>6. /\ PrimaryAt(n)' = IF s' = 0 THEN "retired"
                        ELSE IF chain'[s'].kind = "own" THEN "replacement" ELSE "other"
      /\ ProfileAt(n, agent)' = IF p' = 0 THEN "none"
                               ELSE IF chain'[p'].kind = "own"
                                    THEN signed'[chain'[p'].by].call ELSE "other"
  BY DEF PrimaryAt, ProfileAt, SelectLastInSubSeq, LastIn, Settings, Showings, Sets, Shows
<1> HIDE DEF s, p
<1> QED
  BY <1>2, <1>3, <1>4, <1>5, <1>6

\* A new block changes nothing of what is seen before it, and only a rotation or a swap
\* makes another owner.
LEMMA ViewsOutlastBlocks ==
  ASSUME chain \in Seq(Blocks), NEW b \in Blocks, chain' = Append(chain, b),
         UNCHANGED signed
  PROVE  /\ \A n \in 0..Len(chain) : \A agent :
              PrimaryAt(n)' = PrimaryAt(n) /\ ProfileAt(n, agent)' = ProfileAt(n, agent)
         /\ ~Sets(b) => PrimaryAt(Len(chain))' = PrimaryAt(Len(chain))
<1>1. /\ Len(chain) \in Nat /\ DOMAIN chain = 1..Len(chain)
      /\ \A i \in 1..Len(chain) : chain'[i] = chain[i]
      /\ chain'[Len(chain) + 1] = b /\ Len(chain') = Len(chain) + 1
  BY Added
<1>2. \A n \in 0..Len(chain) : \A agent :
        PrimaryAt(n)' = PrimaryAt(n) /\ ProfileAt(n, agent)' = ProfileAt(n, agent)
  <2> TAKE n \in 0..Len(chain)
  <2> TAKE agent
  <2>1. n \in Nat /\ \A i \in 1..n : chain'[i] = chain[i]
    BY <1>1
  <2> QED
    BY <2>1, ViewStays
<1>3. ASSUME ~Sets(b) PROVE PrimaryAt(Len(chain))' = PrimaryAt(Len(chain))
  <2>0. PICK n : n = Len(chain)
    OBVIOUS
  <2>1. Settings(Len(chain))' = Settings(n)
    <3>1. 1..Len(chain') = 1..n \cup {n + 1}
      BY <1>1, <2>0
    <3>2. ~Sets(b)'
      BY <1>3 DEF Sets, Own
    <3>3. \A i \in 1..n : chain'[i] = chain[i] /\ Sets(chain[i])' = Sets(chain[i])
      BY <1>1, <2>0 DEF Sets, Own
    <3>4. chain'[n + 1] = b
      BY <1>1, <2>0
    <3>5. Settings(Len(chain))' = {i \in 1..Len(chain') : Sets(chain[i])'}
      BY DEF Settings
    <3>6. Settings(n) = {i \in 1..n : Sets(chain[i])}
      BY DEF Settings
    <3>7. Sets(chain[n + 1])' = Sets(b)'
      BY <3>4 DEF Sets, Own
    <3> QED
      BY <3>1, <3>2, <3>3, <3>5, <3>6, <3>7
  <2> DEFINE s == LastIn(Settings(n))
  <2>2. s = 0 \/ s \in 1..n
    BY <1>1, <2>0, LastOfInterval DEF Settings
  <2>3. PrimaryAt(n) = IF s = 0 THEN "retired"
                       ELSE IF chain[s].kind = "own" THEN "replacement" ELSE "other"
    BY ViewOfBlocks
  <2>4. PrimaryAt(Len(chain))' =
          LET k == LastIn(Settings(Len(chain))')
          IN IF k = 0 THEN "retired"
             ELSE IF chain'[k].kind = "own" THEN "replacement" ELSE "other"
    BY DEF PrimaryAt, SelectLastInSubSeq, LastIn, Settings, Sets
  <2> HIDE DEF s
  <2>5. LastIn(Settings(Len(chain))') = s
    BY <2>1 DEF s
  <2> QED
    BY <1>1, <2>0, <2>2, <2>3, <2>4, <2>5
<1> QED
  BY <1>2, <1>3

\* Neither does another signature.
LEMMA ViewsOutlastSigning ==
  ASSUME ChainTypeOK, OwnAreSigned, UNCHANGED chain, NEW t, signed' = Append(signed, t)
  PROVE  /\ \A n \in 0..Len(chain) : \A agent :
              PrimaryAt(n)' = PrimaryAt(n) /\ ProfileAt(n, agent)' = ProfileAt(n, agent)
         /\ PrimaryAt(Len(chain))' = PrimaryAt(Len(chain))
         /\ SafeNonce' = SafeNonce
<1>1. /\ Len(chain) \in Nat /\ DOMAIN chain = 1..Len(chain)
      /\ \A i \in DOMAIN chain : chain[i].kind = "own" =>
           signed'[chain[i].by] = signed[chain[i].by]
  BY LenProperties DEF ChainTypeOK, OwnAreSigned
<1>2. \A n \in 0..Len(chain) : \A agent :
        PrimaryAt(n)' = PrimaryAt(n) /\ ProfileAt(n, agent)' = ProfileAt(n, agent)
  <2> TAKE n \in 0..Len(chain)
  <2> TAKE agent
  <2>1. n \in Nat /\ 1..n \subseteq 1..Len(chain)
    <3>1. Len(chain) \in Nat
      BY <1>1
    <3> QED
      BY <3>1
  <2>2. \A i \in 1..n : chain[i].kind = "own" =>
          signed'[chain[i].by] = signed[chain[i].by]
    BY <1>1, <2>1
  <2> QED
    BY <2>1, <2>2, ViewStays
<1>3. PrimaryAt(Len(chain))' = PrimaryAt(Len(chain))
  <2>1. PICK n : n = Len(chain)
    OBVIOUS
  <2>2. n \in 0..Len(chain)
    BY <1>1, <2>1
  <2>3. PrimaryAt(Len(chain))' = PrimaryAt(n)'
    BY <2>1 DEF PrimaryAt
  <2> QED
    BY <1>2, <2>1, <2>2, <2>3
<1>4. SafeNonce' = SafeNonce
  <2>1. \A i \in DOMAIN chain : Moves(chain[i])' = Moves(chain[i])
    BY <1>1 DEF Moves, Own
  <2> QED
    BY <2>1 DEF SafeNonce, Count, Moves
<1> QED
  BY <1>2, <1>3, <1>4

\* The nonce of the Safe counts what it has executed.
LEMMA SafeNonceAdvances ==
  ASSUME ChainTypeOK, NEW b \in Blocks, chain' = Append(chain, b), UNCHANGED signed
  PROVE  /\ SafeNonce \in Nat
         /\ SafeNonce' = IF Moves(b) THEN SafeNonce + 1 ELSE SafeNonce
<1> DEFINE A == {i \in DOMAIN chain : Moves(chain[i])}
           B == {i \in DOMAIN chain' : Moves(chain[i])'}
           n == Len(chain) + 1
<1>1. /\ DOMAIN chain' = DOMAIN chain \cup {n} /\ n \notin DOMAIN chain
      /\ \A i \in DOMAIN chain : chain'[i] = chain[i]
      /\ chain'[n] = b /\ DOMAIN chain = 1..Len(chain) /\ Len(chain) \in Nat
  BY Added DEF ChainTypeOK
<1>2. IsFiniteSet(DOMAIN chain)
  BY <1>1, FS_Interval
<1>3. IsFiniteSet(A)
  BY <1>2, FS_Subset
<1>4. B = IF Moves(b) THEN A \cup {n} ELSE A
  <2>1. \A i \in DOMAIN chain : Moves(chain[i])' = Moves(chain[i])
    BY <1>1 DEF Moves, Own
  <2>2. Moves(b) <=> \E k \in {n} : Moves(chain[k])'
    BY <1>1 DEF Moves, Own
  <2> QED
    BY <1>1, <2>1, <2>2
<1>5. n \notin A
  BY <1>1
<1>6. Cardinality(A \cup {n}) = Cardinality(A) + 1 /\ Cardinality(A) \in Nat
  BY <1>3, <1>5, FS_AddElement, FS_CardinalityType
<1>7. SafeNonce = Cardinality(A)
  BY DEF SafeNonce, Count, Moves
<1>8. SafeNonce' = Cardinality(B)
  BY DEF SafeNonce, Count, Moves
<1> HIDE DEF A, B, n
<1> QED
  BY <1>4, <1>6, <1>7, <1>8

--------------------------------------------------------------------------------
(* The order in which the Safe hands over.                                 *)

MigrationCalls == {"swap", "republish"}

\* While no block is dropped: the owner of the Safe is still the one that the last call
\* of a migration has left, unless the Safe has executed something else since; and a
\* republication was signed when its nonce was due and the replacement owned the Safe.
SafeOrder ==
  reorgs = 0 =>
    /\ \A i \in DOMAIN chain :
         /\ chain[i].kind = "own" /\ chain[i].ok
         /\ signed[chain[i].by].call \in MigrationCalls
         => LET n == signed[chain[i].by].safeNonce IN
              /\ SafeNonce > n
              /\ SafeNonce = n + 1 => PrimaryAt(Len(chain)) = PrimaryAt(i)
    /\ \A h \in 1..Len(signed) : signed[h].call = "republish" =>
         /\ SafeNonce >= signed[h].safeNonce
         /\ SafeNonce = signed[h].safeNonce => PrimaryAt(Len(chain)) = "replacement"
    /\ \A i \in DOMAIN chain : Own(chain[i], "republish") => PrimaryAt(i) = "replacement"

\* So it stays when a block is added: what makes an owner uses a nonce.
LEMMA BlockKeepsSafeOrder ==
  ASSUME ChainTypeOK, OwnAreSigned, SafeOrder, UNCHANGED signed, NEW b \in Blocks, Adds(b),
         mempool \in SUBSET (1..Len(signed)), reorgs = 0
  PROVE  SafeOrder'
<1>0. PICK L : L = Len(chain)
  OBVIOUS
<1>1. /\ L \in Nat /\ DOMAIN chain = 1..L /\ DOMAIN chain' = DOMAIN chain \cup {L + 1}
      /\ \A i \in DOMAIN chain : chain'[i] = chain[i]
      /\ chain'[L + 1] = b /\ Len(chain') = L + 1
  BY <1>0, Added DEF Adds, ChainTypeOK
<1>2. SafeNonce \in Nat /\ SafeNonce' = IF Moves(b) THEN SafeNonce + 1 ELSE SafeNonce
  BY SafeNonceAdvances DEF Adds
<1>3. /\ \A n \in 0..L : PrimaryAt(n)' = PrimaryAt(n)
      /\ ~Sets(b) => PrimaryAt(Len(chain))' = PrimaryAt(Len(chain))
  BY <1>0, ViewsOutlastBlocks DEF Adds, ChainTypeOK
<1>4. \A h \in 1..Len(signed) : signed[h].safeNonce \in Nat
  <2>1. \A h \in 1..Len(signed) : signed[h] \in Transactions
    BY ElementOfSeq DEF ChainTypeOK
  <2> QED
    BY <2>1 DEF Transactions
<1>5. ~Moves(b) => ~Sets(b)
  BY DEF Moves, Sets, ForeignSafe, SafeCalls
<1>6. ASSUME b.kind = "own", b.ok, signed[b.by].call \in MigrationCalls
      PROVE  /\ b.by \in 1..Len(signed) /\ Moves(b)
             /\ SafeNonce = signed[b.by].safeNonce
  <2>1. b.by \in 1..Len(signed) /\ Succeeds(signed[b.by])
    BY <1>6 DEF Adds
  <2>2. CASE signed[b.by].call = "swap"
    <3>1. SafeNonce = signed[b.by].safeNonce
      BY <2>1, <2>2 DEF Succeeds
    <3>2. Moves(b)
      BY <1>6, <2>2 DEF Moves, Own, SafeCalls
    <3> QED
      BY <2>1, <3>1, <3>2
  <2>3. CASE signed[b.by].call = "republish"
    <3>1. SafeNonce = signed[b.by].safeNonce
      BY <2>1, <2>3 DEF Succeeds
    <3>2. Moves(b)
      BY <1>6, <2>3 DEF Moves, Own, SafeCalls
    <3> QED
      BY <2>1, <3>1, <3>2
  <2> QED
    BY <1>6, <2>2, <2>3 DEF MigrationCalls
<1>7. PrimaryAt(Len(chain))' = PrimaryAt(L + 1)'
  BY <1>1 DEF PrimaryAt
<1>8. ASSUME NEW i \in DOMAIN chain', chain'[i].kind = "own", chain'[i].ok,
             signed[chain'[i].by].call \in MigrationCalls,
             NEW n, n = signed[chain'[i].by].safeNonce
      PROVE  SafeNonce' > n /\ (SafeNonce' = n + 1 => PrimaryAt(Len(chain))' = PrimaryAt(i)')
  <2>1. CASE i = L + 1
    <3>1. SafeNonce = n /\ Moves(b)
      BY <1>1, <1>6, <1>8, <2>1
    <3> QED
      BY <1>2, <1>7, <2>1, <3>1
  <2>2. CASE i \in DOMAIN chain
    <3>1. chain'[i] = chain[i] /\ i \in 0..L
      BY <1>1, <2>2
    <3>2. SafeNonce > n /\ (SafeNonce = n + 1 => PrimaryAt(L) = PrimaryAt(i))
      BY <1>0, <1>8, <2>2, <3>1 DEF SafeOrder
    <3>3. n \in Nat
      BY <1>4, <1>8, <2>2, <3>1 DEF OwnAreSigned
    <3>4. CASE Moves(b)
      BY <1>2, <3>2, <3>3, <3>4
    <3>5. CASE ~Moves(b)
      BY <1>0, <1>2, <1>3, <1>5, <3>1, <3>2, <3>5
    <3> QED
      BY <3>4, <3>5
  <2> QED
    BY <1>1, <2>1, <2>2
<1>9. ASSUME NEW h \in 1..Len(signed), signed[h].call = "republish"
      PROVE  /\ SafeNonce' >= signed[h].safeNonce
             /\ SafeNonce' = signed[h].safeNonce => PrimaryAt(Len(chain))' = "replacement"
  <2>1. /\ SafeNonce >= signed[h].safeNonce
        /\ SafeNonce = signed[h].safeNonce => PrimaryAt(L) = "replacement"
    BY <1>0, <1>9 DEF SafeOrder
  <2>2. signed[h].safeNonce \in Nat
    BY <1>4
  <2>3. CASE Moves(b)
    BY <1>2, <2>1, <2>2, <2>3
  <2>4. CASE ~Moves(b)
    BY <1>0, <1>2, <1>3, <1>5, <2>1, <2>4
  <2> QED
    BY <2>3, <2>4
<1>10. ASSUME NEW i \in DOMAIN chain', Own(chain'[i], "republish")
       PROVE  PrimaryAt(i)' = "replacement"
  <2>1. CASE i = L + 1
    <3>1. b.kind = "own" /\ b.ok /\ signed[b.by].call = "republish"
      BY <1>1, <1>10, <2>1 DEF Own
    <3>2. b.by \in 1..Len(signed) /\ SafeNonce = signed[b.by].safeNonce
      BY <1>6, <3>1 DEF MigrationCalls
    <3>3. PrimaryAt(L) = "replacement"
      BY <1>0, <3>1, <3>2 DEF SafeOrder
    <3>4. ~Sets(b)
      BY <3>1 DEF Sets, Own
    <3>5. PrimaryAt(L + 1)' = "replacement"
      BY <1>0, <1>3, <1>7, <3>3, <3>4
    <3> QED
      BY <2>1, <3>5 DEF PrimaryAt
  <2>2. CASE i \in DOMAIN chain
    <3>1. Own(chain[i], "republish") /\ i \in 0..L
      BY <1>1, <1>10, <2>2 DEF Own
    <3> QED
      BY <1>3, <2>2, <3>1 DEF SafeOrder
  <2> QED
    BY <1>1, <2>1, <2>2
<1>11. reorgs' = 0
  BY DEF Adds
<1> QED
  BY <1>8, <1>9, <1>10, <1>11 DEF SafeOrder, Own

\* Whatever the chain does, it stays.
LEMMA ChainKeepsSafeOrder ==
  ASSUME ChainTypeOK, OwnAreSigned, SafeOrder, NEW kinds \in SUBSET ForeignKinds,
         ChainNext(kinds)
  PROVE  SafeOrder'
<1>1. /\ UNCHANGED signed
      /\ Waits \/ (\E b \in Blocks : b.kind \in kinds \cup {"own"} /\ Adds(b)) \/ Drops
  BY ChainMoves
<1>2. CASE Waits
  <2>1. UNCHANGED <<chain, reorgs, signed>>
    BY <1>1, <1>2 DEF Waits
  <2>2. \A n : PrimaryAt(n)' = PrimaryAt(n)
    BY <2>1 DEF PrimaryAt, SelectLastInSubSeq, Own
  <2>3. SafeNonce' = SafeNonce /\ PrimaryAt(Len(chain))' = PrimaryAt(Len(chain))
    BY <2>1 DEF SafeNonce, Count, PrimaryAt, SelectLastInSubSeq, Own
  <2> QED
    BY <2>1, <2>2, <2>3 DEF SafeOrder, Own
<1>3. CASE Drops
  BY <1>3 DEF Drops, SafeOrder
<1>4. CASE \E b \in Blocks : Adds(b)
  <2>1. PICK b \in Blocks : Adds(b)
    BY <1>4
  <2>2. mempool \in SUBSET (1..Len(signed)) /\ reorgs' = reorgs
    BY <2>1 DEF ChainTypeOK, Adds
  <2>3. CASE reorgs = 0
    BY <1>1, <2>1, <2>2, <2>3, BlockKeepsSafeOrder
  <2>4. CASE reorgs # 0
    BY <2>2, <2>4 DEF SafeOrder
  <2> QED
    BY <2>3, <2>4
<1> QED
  BY <1>1, <1>2, <1>3, <1>4

\* A republication is signed when its nonce is due and the replacement owns the Safe.
LEMMA SigningKeepsSafeOrder ==
  ASSUME ChainTypeOK, OwnAreSigned, SafeOrder, UNCHANGED <<chain, reorgs>>,
         NEW t \in Transactions, signed' = Append(signed, t),
         t.call = "republish" /\ reorgs = 0 =>
           SafeNonce = t.safeNonce /\ PrimaryAt(Len(chain)) = "replacement"
  PROVE  SafeOrder'
<1>0. PICK L : L = Len(chain)
  OBVIOUS
<1>1. /\ \A n \in 0..L : PrimaryAt(n)' = PrimaryAt(n)
      /\ PrimaryAt(Len(chain))' = PrimaryAt(Len(chain))
      /\ SafeNonce' = SafeNonce
  BY <1>0, ViewsOutlastSigning
<1>2. /\ L \in Nat /\ DOMAIN chain = 1..L
      /\ Len(signed) \in Nat /\ Len(signed') = Len(signed) + 1
      /\ signed'[Len(signed) + 1] = t
      /\ \A h \in 1..Len(signed) : signed'[h] = signed[h]
  <2>1. signed \in Seq(Transactions) /\ chain \in Seq(Blocks)
    BY DEF ChainTypeOK
  <2> QED
    BY <1>0, <2>1, AppendProperties, LenProperties
<1>3. \A i \in DOMAIN chain : chain[i].kind = "own" =>
        signed'[chain[i].by] = signed[chain[i].by]
  BY <1>2 DEF OwnAreSigned
<1>4. \A i \in DOMAIN chain : i \in 0..L
  BY <1>2
<1>5. SUFFICES ASSUME reorgs = 0 PROVE SafeOrder'
  BY DEF SafeOrder
<1>6. \A i \in DOMAIN chain :
        chain[i].kind = "own" /\ chain[i].ok /\ signed'[chain[i].by].call \in MigrationCalls
        => LET n == signed'[chain[i].by].safeNonce IN
             /\ SafeNonce' > n
             /\ SafeNonce' = n + 1 => PrimaryAt(Len(chain))' = PrimaryAt(i)'
  BY <1>1, <1>3, <1>4, <1>5 DEF SafeOrder
<1>7. \A h \in 1..Len(signed') : signed'[h].call = "republish" =>
        /\ SafeNonce' >= signed'[h].safeNonce
        /\ SafeNonce' = signed'[h].safeNonce => PrimaryAt(Len(chain))' = "replacement"
  <2> TAKE h \in 1..Len(signed')
  <2>1. CASE h = Len(signed) + 1
    <3>1. t.safeNonce \in Nat
      BY DEF Transactions
    <3> QED
      BY <1>1, <1>2, <1>5, <2>1, <3>1
  <2>2. CASE h \in 1..Len(signed)
    BY <1>1, <1>2, <1>5, <2>2 DEF SafeOrder
  <2> QED
    BY <1>2, <2>1, <2>2
<1>8. \A i \in DOMAIN chain : Own(chain[i], "republish")' => PrimaryAt(i)' = "replacement"
  BY <1>1, <1>3, <1>4, <1>5 DEF SafeOrder, Own
<1> QED
  BY <1>6, <1>7, <1>8 DEF SafeOrder

--------------------------------------------------------------------------------
(* Migration.                                                              *)

\* The migration counts and looks up as everybody does.
LEMMA MigrationSeesTheChain ==
  /\ M!PayerNonce = PayerNonce /\ M!PendingNonce = PendingNonce
  /\ M!SafeNonce = SafeNonce /\ M!Agents = Agents
  /\ M!Deployed = Deployed /\ M!OwnAgents = OwnAgents
  /\ \A h : M!Mined(h) = Mined(h) /\ M!BlockOf(h) = BlockOf(h)
  /\ \A n : M!PrimaryAt(n) = PrimaryAt(n)
  /\ \A n, agent : M!ProfileAt(n, agent) = ProfileAt(n, agent)
  /\ \A t : M!Succeeds(t) = Succeeds(t)
<1>1. \A S : M!Cardinality(S) = Cardinality(S)
  BY DEF M!Cardinality, Cardinality
<1>2. \A S : M!Min(S) = Min(S)
  BY DEF M!Min, Min
<1>3. \A S : M!Max(S) = Max(S)
  BY DEF M!Max, Max
<1>4. M!PayerNonce = PayerNonce
  BY <1>1 DEF M!PayerNonce, PayerNonce, M!Count, Count
<1>5. M!PendingNonce = PendingNonce
  BY <1>1, <1>2, <1>4 DEF M!PendingNonce, PendingNonce
<1>6. \A b, call : M!Own(b, call) = Own(b, call)
  BY DEF M!Own, Own
<1>7. M!SafeNonce = SafeNonce
  BY <1>1, <1>6 DEF M!SafeNonce, SafeNonce, M!Count, Count, M!SafeCalls, SafeCalls,
     M!ForeignSafe, ForeignSafe
<1>8. M!Agents = Agents
  BY <1>1, <1>6 DEF M!Agents, Agents, M!Count, Count
<1>9. M!Deployed = Deployed /\ M!OwnAgents = OwnAgents
  BY <1>6 DEF M!Deployed, Deployed, M!OwnAgents, OwnAgents
<1>10. \A h : M!Mined(h) = Mined(h) /\ M!BlockOf(h) = BlockOf(h)
  BY DEF M!Mined, Mined, M!BlockOf, BlockOf
<1>11. \A n : M!PrimaryAt(n) = PrimaryAt(n)
  BY <1>3, <1>6 DEF M!PrimaryAt, PrimaryAt, M!SelectLastInSubSeq, SelectLastInSubSeq
<1>12. \A n, agent : M!ProfileAt(n, agent) = ProfileAt(n, agent)
  <2> TAKE n, agent
  <2>1. M!ProfileAt(n, agent) =
          LET i == LastIn({k \in 1..n : /\ chain[k].agent = agent
                                        /\ \/ chain[k].kind = "edit"
                                           \/ M!Own(chain[k], "publish")
                                           \/ M!Own(chain[k], "republish")})
          IN IF i = 0 THEN "none"
             ELSE IF chain[i].kind = "own" THEN signed[chain[i].by].call ELSE "other"
    BY <1>3 DEF M!ProfileAt, M!SelectLastInSubSeq, LastIn
  <2> QED
    BY <1>6, <2>1, ViewOfBlocks DEF Showings, Shows
<1>13. \A t : M!Succeeds(t) = Succeeds(t)
  BY <1>6, <1>7, <1>9, <1>11 DEF M!Succeeds, Succeeds
<1> QED
  BY <1>4, <1>5, <1>7, <1>8, <1>9, <1>10, <1>11, <1>12, <1>13

\* Its chain moves as this one.
LEMMA MigrationMovesTheChain ==
  ASSUME NEW kinds, M!ChainNext(kinds)
  PROVE  ChainNext(kinds)
<1>1. \A k, h, ok, a : M!Extend(k, h, ok, a) = Extend(k, h, ok, a)
  BY DEF M!Extend, Extend
<1>2. \A h : M!Deliver(h) = Deliver(h) /\ M!Lose(h) = Lose(h)
  BY MigrationSeesTheChain DEF M!Deliver, Deliver, M!Lose, Lose
<1>3. \A h : M!Mine(h) = Mine(h)
  BY <1>1, MigrationSeesTheChain DEF M!Mine, Mine
<1>4. \A k : M!Interferes(k) = Interferes(k)
  BY <1>1, MigrationSeesTheChain DEF M!Interferes, Interferes, M!ForeignSafe, ForeignSafe
<1>5. M!Reorg = Reorg
  BY DEF M!Reorg, Reorg, M!Front, Front, M!Last, Last
<1> QED
  BY <1>2, <1>3, <1>4, <1>5 DEF M!ChainNext, ChainNext

\* The journal of a migration only grows.
MigrationKeeps(a, b) ==
  \A s \in M!Steps :
    /\ a[s].basis # NoPoint => b[s].basis = a[s].basis
    /\ a[s].approved # NoApproval => b[s].approved = a[s].approved
    /\ a[s].execution # 0 => b[s].execution = a[s].execution
    /\ a[s].effect # NoEffect => b[s].effect = a[s].effect
MigrationGrown(a, b) == a # NoJournal => b # NoJournal /\ MigrationKeeps(a, b)

Earlier(j, s) == \A p \in 0..(s - 1) : M!Done(j, p)

\* Where a command is in its journal: it comes to a step when those before it are done,
\* acts on the transaction named there, and signs only where there is none.
Acting == {"absent", "owners", "profiles", "saveAgain", "send", "sent", "effect"}
MigrationWalks(x) ==
  /\ x.pc \in Acting \cup {"observe", "saveEffect", "sign"} => Earlier(x.mem, x.at)
  /\ x.pc \in Acting => x.mem[x.at].execution # 0
  /\ x.pc = "saveEffect" => M!Done(x.mem, x.at)
  /\ x.pc = "sign" => x.mem[x.at].execution = 0 /\ ~M!Done(x.mem, x.at)

\* What is about to be sent is on disk for good.
MigrationSynced(x) == x.pc = "send" => migrationDurable = x.mem /\ migration = x.mem

MigrationOrdered(x) ==
  /\ MigrationGrown(migrationDurable, migration)
  /\ x.pc # "idle" => MigrationGrown(migration, x.mem)

\* The first half of RotatesThenRepublishes.
HandOverIsJournaled ==
  \A h \in sent : signed[h].call \in MigrationCalls =>
    /\ migrationDurable # NoJournal
    /\ \E s \in M!Steps : migrationDurable[s].execution = h /\ Earlier(migrationDurable, s)

\* The execution of a step is the call of that step, at the nonce of that step.
Executed(j) ==
  j # NoJournal => \A s \in M!Steps : j[s].execution # 0 =>
    /\ j[s].execution <= Len(signed)
    /\ signed[j[s].execution].call = M!CallOf(s)
    /\ signed[j[s].execution].safeNonce = config.safeNonce + s

\* What the chain shows of a step that is done, while no block is dropped.
IsVerified(s, h, e) ==
  /\ Mined(h) /\ chain[BlockOf(h)].ok
  /\ e = M!PointAt(BlockOf(h))
  /\ PrimaryAt(BlockOf(h)) = "replacement"
  /\ s > 0 => ProfileAt(BlockOf(h), s) = "republish"
Verified(j) ==
  j # NoJournal /\ reorgs = 0 =>
    \A s \in M!Steps : M!Done(j, s) => IsVerified(s, j[s].execution, j[s].effect)

MigrationInv ==
  /\ config \in M!Configs /\ M!TypeOK
  /\ Executed(migration) /\ Executed(migrationDurable) /\ Executed(migrating.mem)
  /\ Verified(migration) /\ Verified(migrationDurable) /\ Verified(migrating.mem)
  /\ MigrationWalks(migrating) /\ MigrationSynced(migrating) /\ MigrationOrdered(migrating)
  /\ HandOverIsJournaled

ChainInv ==
  /\ ChainTypeOK /\ OwnAreSigned /\ MinedOnce /\ SafeOrder
  /\ sent \in SUBSET (1..Len(signed))

\* Steps are numbers, of which the swap is the first.
LEMMA MigrationSteps ==
  Services \in Nat \ {0} /\ M!Steps = 0..Services /\ M!Steps \subseteq Nat /\ 0 \in M!Steps
  BY OnboardingAssumption DEF M!Steps

\* The fields of a journal.
LEMMA MigrationJournalFields ==
  ASSUME NEW j \in M!Journals
  PROVE  /\ j # NoJournal
         /\ \A s \in M!Steps : /\ j[s] \in M!Actions
                               /\ j[s].basis \in M!Points \cup {NoPoint}
                               /\ j[s].approved \in Approvals \cup {NoApproval}
                               /\ j[s].execution \in Nat
                               /\ j[s].effect \in M!Points \cup {NoEffect}
  BY NoMigrationAssumption DEF M!Journals, M!Actions

MigrationPlaces ==
  {"idle", "validate", "observe", "absent", "owners", "profiles", "send", "sent", "effect",
   "lastOwners", "lastProfiles", "nonces", "run", "sign", "prepare"} \cup M!Saving

\* The fields of a command.
LEMMA MigrationFields ==
  ASSUME NEW x \in M!Transitions
  PROVE  /\ x.pc \in MigrationPlaces /\ x.kind \in M!Commands /\ x.fresh \in BOOLEAN
         /\ x.at \in M!Steps /\ x.mem \in M!Journals \cup {NoJournal}
         /\ x.pc # "idle" => x.mem \in M!Journals
         /\ x = [pc |-> x.pc, kind |-> x.kind, fresh |-> x.fresh, at |-> x.at,
                 mem |-> x.mem]
  BY DEF M!Transitions, MigrationPlaces

\* They make one.
LEMMA MigrationMade ==
  ASSUME NEW p \in MigrationPlaces, NEW k \in M!Commands, NEW f \in BOOLEAN,
         NEW s \in M!Steps, NEW j \in M!Journals
  PROVE  [pc |-> p, kind |-> k, fresh |-> f, at |-> s, mem |-> j] \in M!Transitions
  BY MigrationJournalFields DEF M!Transitions, MigrationPlaces

\* The idle one and the empty journal are well typed.
LEMMA MigrationBegins ==
  /\ M!Idle \in M!Transitions /\ M!Idle.pc = "idle" /\ M!Idle.mem = NoJournal
  /\ M!EmptyJournal \in M!Journals
<1>1. M!Idle \in M!Transitions /\ M!Idle.pc = "idle" /\ M!Idle.mem = NoJournal
  BY MigrationSteps DEF M!Idle, M!Transitions, M!Commands
<1>2. M!NoAction \in M!Actions
  BY DEF M!NoAction, M!Actions
<1> QED
  BY <1>1, <1>2 DEF M!EmptyJournal, M!Journals

\* A step of the journal is amended.
LEMMA MigrationAmended ==
  ASSUME NEW j \in M!Journals, NEW s \in M!Steps, NEW a \in M!Actions,
         /\ j[s].basis # NoPoint => a.basis = j[s].basis
         /\ j[s].approved # NoApproval => a.approved = j[s].approved
         /\ j[s].execution # 0 => a.execution = j[s].execution
         /\ j[s].effect # NoEffect => a.effect = j[s].effect
  PROVE  LET k == [j EXCEPT ![s] = a]
         IN  /\ k \in M!Journals
             /\ \A t \in M!Steps : k[t] = IF t = s THEN a ELSE j[t]
             /\ MigrationGrown(j, k)
<1> DEFINE k == [j EXCEPT ![s] = a]
<1>1. k \in M!Journals
  BY DEF M!Journals
<1>2. \A t \in M!Steps : k[t] = IF t = s THEN a ELSE j[t]
  BY DEF M!Journals
<1>3. k # NoJournal
  BY <1>1, MigrationJournalFields
<1> HIDE DEF k
<1>4. MigrationGrown(j, k)
  BY <1>2, <1>3 DEF MigrationGrown, MigrationKeeps
<1> QED
  BY <1>1, <1>2, <1>4 DEF k

\* Growing is reflexive and transitive, and what was done earlier stays so.
LEMMA MigrationOrder ==
  /\ \A a : MigrationGrown(a, a)
  /\ \A a, b, c : MigrationGrown(a, b) /\ MigrationGrown(b, c) => MigrationGrown(a, c)
  /\ \A a, b : \A s \in M!Steps :
       MigrationKeeps(a, b) /\ Earlier(a, s) => Earlier(b, s)
<1>1. \A a : MigrationGrown(a, a)
  BY DEF MigrationGrown, MigrationKeeps
<1>2. \A a, b, c : MigrationGrown(a, b) /\ MigrationGrown(b, c) => MigrationGrown(a, c)
  BY DEF MigrationGrown, MigrationKeeps
<1>3. ASSUME NEW a, NEW b, NEW s \in M!Steps, MigrationKeeps(a, b), Earlier(a, s)
      PROVE  Earlier(b, s)
  <2>1. \A p \in 0..(s - 1) : p \in M!Steps
    BY MigrationSteps
  <2> QED
    BY <1>3, <2>1 DEF MigrationKeeps, Earlier, M!Done
<1> QED
  BY <1>1, <1>2, <1>3

\* What is invariant while a migration writes.
MigrationState == ChainInv /\ MigrationInv

\* What sends or writes moves nothing of the chain.
LEMMA QuietChain ==
  ASSUME ChainInv, UNCHANGED <<signed, mempool, chain, foreign, reorgs, losses>>,
         wire' \in SUBSET (1..Len(signed)), sent' \in SUBSET (1..Len(signed))
  PROVE  ChainInv' /\ \A s, h, e : IsVerified(s, h, e)' = IsVerified(s, h, e)
<1>1. ChainTypeOK' /\ OwnAreSigned' /\ sent' \in SUBSET (1..Len(signed'))
  BY DEF ChainInv, ChainTypeOK, OwnAreSigned
<1>2. MinedOnce'
  BY DEF ChainInv, MinedOnce, OneBlockEach, Mined
<1>3. \A n : PrimaryAt(n)' = PrimaryAt(n)
  BY DEF PrimaryAt, SelectLastInSubSeq, Own
<1>4. SafeNonce' = SafeNonce /\ PrimaryAt(Len(chain))' = PrimaryAt(Len(chain))
  BY DEF SafeNonce, Count, PrimaryAt, SelectLastInSubSeq, Own
<1>5. SafeOrder'
  BY <1>3, <1>4 DEF ChainInv, SafeOrder, Own
<1>6. \A s, h, e : IsVerified(s, h, e)' = IsVerified(s, h, e)
  BY DEF IsVerified, Mined, BlockOf, M!PointAt, PrimaryAt, ProfileAt, SelectLastInSubSeq, Own
<1> QED
  BY <1>1, <1>2, <1>5, <1>6 DEF ChainInv

\* A part of a command moves nothing but the command.
LEMMA CommandMoves ==
  ASSUME MigrationState,
         UNCHANGED <<chainVars, config, migration, migrationDurable, sent>>,
         migrating' \in M!Transitions, Executed(migrating'.mem), Verified(migrating'.mem),
         MigrationWalks(migrating'), MigrationSynced(migrating'),
         migrating'.pc # "idle" => MigrationGrown(migration, migrating'.mem)
  PROVE  MigrationState'
<1>1. ChainInv' /\ \A s, h, e : IsVerified(s, h, e)' = IsVerified(s, h, e)
  <2>1. UNCHANGED <<signed, mempool, chain, foreign, reorgs, losses>>
        /\ wire' \in SUBSET (1..Len(signed)) /\ sent' \in SUBSET (1..Len(signed))
    BY DEF chainVars, MigrationState, ChainInv, ChainTypeOK
  <2> QED
    BY <2>1, QuietChain DEF MigrationState
<1>2. config' \in M!Configs /\ M!TypeOK'
  BY DEF MigrationState, MigrationInv, M!TypeOK
<1>3. Executed(migration)' /\ Executed(migrationDurable)' /\ Executed(migrating.mem)'
  BY DEF MigrationState, MigrationInv, Executed, chainVars
<1>4. Verified(migration)' /\ Verified(migrationDurable)' /\ Verified(migrating.mem)'
  BY <1>1 DEF MigrationState, MigrationInv, Verified, chainVars
<1>5. MigrationWalks(migrating)' /\ MigrationSynced(migrating)' /\ MigrationOrdered(migrating)'
  BY DEF MigrationState, MigrationInv, MigrationWalks, MigrationSynced, MigrationOrdered,
     Earlier
<1>6. HandOverIsJournaled'
  BY DEF MigrationState, MigrationInv, HandOverIsJournaled, Earlier, chainVars
<1> QED
  BY <1>1, <1>2, <1>3, <1>4, <1>5, <1>6 DEF MigrationState, MigrationInv

\* A command ends.
LEMMA CommandEnds ==
  ASSUME MigrationState, M!Unlocks, M!Quiet
  PROVE  MigrationState'
<1>1. UNCHANGED <<chainVars, config, migration, migrationDurable, sent>>
  BY DEF M!Quiet, M!chainVars, chainVars
<1>2. /\ migrating' = M!Idle /\ migrating' \in M!Transitions
      /\ migrating'.pc = "idle" /\ migrating'.mem = NoJournal
  BY MigrationBegins DEF M!Unlocks
<1>3. Executed(migrating'.mem) /\ Verified(migrating'.mem)
  BY <1>2 DEF Executed, Verified
<1>4. MigrationWalks(migrating') /\ MigrationSynced(migrating')
  BY <1>2 DEF MigrationWalks, MigrationSynced, Acting
<1> QED
  BY <1>1, <1>2, <1>3, <1>4, CommandMoves

\* A command goes on with the journal as it knows it.
LEMMA CommandGoesTo ==
  ASSUME MigrationState, M!Quiet, migrating.pc # "idle",
         NEW p \in MigrationPlaces \ {"idle"}, NEW s \in M!Steps,
         migrating' = [migrating EXCEPT !.pc = p, !.at = s],
         /\ p \in Acting \cup {"observe", "saveEffect", "sign"} => Earlier(migrating.mem, s)
         /\ p \in Acting => migrating.mem[s].execution # 0
         /\ p = "saveEffect" => M!Done(migrating.mem, s)
         /\ p = "sign" => migrating.mem[s].execution = 0 /\ ~M!Done(migrating.mem, s),
         p # "send"
  PROVE  MigrationState'
<1>1. UNCHANGED <<chainVars, config, migration, migrationDurable, sent>>
  BY DEF M!Quiet, M!chainVars, chainVars
<1>2. migrating \in M!Transitions
  BY DEF MigrationState, MigrationInv, M!TypeOK
<1>3. /\ migrating' \in M!Transitions /\ migrating'.pc = p /\ migrating'.at = s
      /\ migrating'.mem = migrating.mem
  <2>1. migrating = [pc |-> migrating.pc, kind |-> migrating.kind,
                     fresh |-> migrating.fresh, at |-> migrating.at,
                     mem |-> migrating.mem]
    BY <1>2, MigrationFields
  <2>2. migrating' = [pc |-> p, kind |-> migrating.kind, fresh |-> migrating.fresh,
                      at |-> s, mem |-> migrating.mem]
    BY <2>1
  <2>3. /\ migrating.kind \in M!Commands /\ migrating.fresh \in BOOLEAN
        /\ migrating.mem \in M!Journals /\ p \in MigrationPlaces
    BY <1>2, MigrationFields
  <2>4. [pc |-> p, kind |-> migrating.kind, fresh |-> migrating.fresh, at |-> s,
         mem |-> migrating.mem] \in M!Transitions
    BY <2>3, MigrationMade, Zenon
  <2> QED
    BY <2>2, <2>4
<1>4. Executed(migrating'.mem) /\ Verified(migrating'.mem)
      /\ MigrationGrown(migration, migrating'.mem)
  BY <1>3 DEF MigrationState, MigrationInv, MigrationOrdered
<1>5. MigrationWalks(migrating') /\ MigrationSynced(migrating')
  BY <1>3 DEF MigrationWalks, MigrationSynced
<1> QED
  BY <1>1, <1>3, <1>4, <1>5, CommandMoves

\* Goes is such a step.
LEMMA CommandGoes ==
  ASSUME MigrationState, M!Quiet, migrating.pc # "idle",
         NEW p \in MigrationPlaces \ {"idle", "send", "saveEffect", "sign"}, M!Goes(p),
         /\ p \in Acting \cup {"observe"} => Earlier(migrating.mem, migrating.at)
         /\ p \in Acting => migrating.mem[migrating.at].execution # 0
  PROVE  MigrationState'
<1>1. migrating \in M!Transitions
  BY DEF MigrationState, MigrationInv, M!TypeOK
<1>2. migrating.at \in M!Steps
  BY <1>1, MigrationFields
<1>3. migrating' = [migrating EXCEPT !.pc = p, !.at = migrating.at]
  <2>1. /\ migrating.kind \in M!Commands /\ migrating.fresh \in BOOLEAN
        /\ migrating = [pc |-> migrating.pc, kind |-> migrating.kind,
                        fresh |-> migrating.fresh, at |-> migrating.at,
                        mem |-> migrating.mem]
    BY <1>1, MigrationFields
  <2> QED
    BY <2>1 DEF M!Goes
<1> QED
  BY <1>2, <1>3, CommandGoesTo

\* A check passes or ends the command.
LEMMA CommandPasses ==
  ASSUME MigrationState, M!Quiet, migrating.pc # "idle", NEW ok,
         NEW p \in MigrationPlaces \ {"idle", "send", "saveEffect", "sign"}, M!Passes(ok, p),
         /\ p \in Acting \cup {"observe"} => Earlier(migrating.mem, migrating.at)
         /\ p \in Acting => migrating.mem[migrating.at].execution # 0
  PROVE  MigrationState'
<1>1. M!Goes(p) \/ M!Unlocks
  BY DEF M!Passes
<1> QED
  BY <1>1, CommandGoes, CommandEnds

\* A command amends what it knows of a step.
LEMMA CommandAmends ==
  ASSUME MigrationState, M!Quiet, migrating.pc # "idle",
         NEW p \in {"prepare", "saveOwn", "saveEffect"},
         NEW s \in M!Steps, NEW t \in M!Steps, NEW a \in M!Actions,
         migrating' = [pc |-> p, kind |-> migrating.kind, fresh |-> migrating.fresh,
                       at |-> t, mem |-> [migrating.mem EXCEPT ![s] = a]],
         /\ migrating.mem[s].basis # NoPoint => a.basis = migrating.mem[s].basis
         /\ migrating.mem[s].approved # NoApproval =>
              a.approved = migrating.mem[s].approved
         /\ a.execution = migrating.mem[s].execution
         /\ migrating.mem[s].effect # NoEffect => a.effect = migrating.mem[s].effect,
         \/ a.effect = migrating.mem[s].effect
         \/ IsVerified(s, a.execution, a.effect),
         p = "saveEffect" => t = s /\ Earlier(migrating.mem, s) /\ a.effect # NoEffect
  PROVE  MigrationState'
<1> DEFINE k == [migrating.mem EXCEPT ![s] = a]
<1>1. UNCHANGED <<chainVars, config, migration, migrationDurable, sent>>
  BY DEF M!Quiet, M!chainVars, chainVars
<1>2. migrating \in M!Transitions
  BY DEF MigrationState, MigrationInv, M!TypeOK
<1>3. /\ migrating.kind \in M!Commands /\ migrating.fresh \in BOOLEAN
      /\ migrating.mem \in M!Journals
  BY <1>2, MigrationFields
<1>4. /\ k \in M!Journals
      /\ \A r \in M!Steps : k[r] = IF r = s THEN a ELSE migrating.mem[r]
      /\ MigrationGrown(migrating.mem, k)
  BY <1>3, MigrationAmended
<1> HIDE DEF k
<1>5. migrating' = [pc |-> p, kind |-> migrating.kind, fresh |-> migrating.fresh,
                    at |-> t, mem |-> k]
  BY DEF k
<1>6. migrating'.pc = p /\ migrating'.at = t /\ migrating'.mem = k
  BY <1>5
<1>7. migrating' \in M!Transitions
  <2>1. p \in MigrationPlaces
    BY DEF MigrationPlaces, M!Saving
  <2>2. [pc |-> p, kind |-> migrating.kind, fresh |-> migrating.fresh, at |-> t, mem |-> k]
          \in M!Transitions
    BY <1>3, <1>4, <2>1, MigrationMade, Zenon
  <2> QED
    BY <1>5, <2>2
<1>8. Executed(k)
  <2>1. Executed(migrating.mem) /\ migrating.mem # NoJournal
    BY <1>3, MigrationJournalFields DEF MigrationState, MigrationInv
  <2> QED
    BY <1>4, <2>1 DEF Executed
<1>9. Verified(k)
  <2>1. Verified(migrating.mem) /\ migrating.mem # NoJournal
    BY <1>3, MigrationJournalFields DEF MigrationState, MigrationInv
  <2> SUFFICES ASSUME reorgs = 0, NEW r \in M!Steps, M!Done(k, r)
               PROVE  IsVerified(r, k[r].execution, k[r].effect)
    BY DEF Verified
  <2>2. CASE r = s
    BY <1>4, <2>1, <2>2 DEF Verified, M!Done
  <2>3. CASE r # s
    BY <1>4, <2>1, <2>3 DEF Verified, M!Done
  <2> QED
    BY <2>2, <2>3
<1>10. MigrationWalks(migrating') /\ MigrationSynced(migrating')
  <2>1. p = "saveEffect" => Earlier(k, t) /\ M!Done(k, t)
    <3> SUFFICES ASSUME p = "saveEffect" PROVE Earlier(k, t) /\ M!Done(k, t)
      OBVIOUS
    <3>1. MigrationKeeps(migrating.mem, k)
      BY <1>3, <1>4, MigrationJournalFields DEF MigrationGrown
    <3> QED
      BY <1>4, <3>1, MigrationOrder DEF M!Done
  <2> QED
    BY <1>6, <2>1 DEF MigrationWalks, MigrationSynced, Acting
<1>11. MigrationGrown(migration, k)
  BY <1>4, MigrationOrder DEF MigrationState, MigrationInv, MigrationOrdered
<1> QED
  BY <1>1, <1>6, <1>7, <1>8, <1>9, <1>10, <1>11, CommandMoves

--------------------------------------------------------------------------------
(* One lemma per step of a command.                                        *)

\* A command begins with what is on disk, or with an empty journal where there is none.
LEMMA CommandBegins ==
  ASSUME MigrationState, NEW kind \in M!Commands, M!Begin(kind)
  PROVE  MigrationState'
<1>0. M!Quiet /\ migrating.pc = "idle"
  BY DEF M!Begin
<1>1. UNCHANGED <<chainVars, config, migration, migrationDurable, sent>>
  BY <1>0 DEF M!Quiet, M!chainVars, chainVars
<1>2. CASE \E j \in M!Journals, fresh \in BOOLEAN :
             /\ migrating' = [pc |-> "validate", kind |-> kind, fresh |-> fresh,
                              at |-> 0, mem |-> j]
             /\ j = migration \/ (migration = NoJournal /\ j = M!EmptyJournal)
  <2>1. PICK j \in M!Journals, fresh \in BOOLEAN :
             /\ migrating' = [pc |-> "validate", kind |-> kind, fresh |-> fresh,
                              at |-> 0, mem |-> j]
             /\ j = migration \/ (migration = NoJournal /\ j = M!EmptyJournal)
    BY <1>2
  <2>2. migrating' \in M!Transitions
    <3>1. "validate" \in MigrationPlaces
      BY DEF MigrationPlaces
    <3>2. [pc |-> "validate", kind |-> kind, fresh |-> fresh, at |-> 0, mem |-> j]
            \in M!Transitions
      BY <3>1, MigrationSteps, MigrationMade, Zenon
    <3> QED
      BY <2>1, <3>2
  <2>3. migrating'.pc = "validate" /\ migrating'.mem = j
    BY <2>1
  <2>4. \A s \in M!Steps :
          M!EmptyJournal[s].execution = 0 /\ M!EmptyJournal[s].effect = NoEffect
    BY DEF M!EmptyJournal, M!NoAction
  <2>5. Executed(j) /\ Verified(j)
    BY <2>1, <2>4 DEF MigrationState, MigrationInv, Executed, Verified, M!Done
  <2>6. MigrationGrown(migration, j)
    BY <2>1, MigrationOrder DEF MigrationGrown
  <2> QED
    BY <1>1, <2>2, <2>3, <2>5, <2>6, CommandMoves
    DEF MigrationWalks, MigrationSynced, Acting
<1>3. CASE migrating' = migrating
  BY <1>0, <1>1, <1>3, CommandMoves DEF MigrationState, MigrationInv, M!TypeOK
<1>4. CASE migrating' = [M!Idle EXCEPT !.pc = "validate", !.kind = kind, !.fresh = TRUE,
                                       !.mem = M!EmptyJournal] /\ migration = NoJournal
  <2>1. migrating' = [pc |-> "validate", kind |-> kind, fresh |-> TRUE, at |-> 0,
                      mem |-> M!EmptyJournal]
    BY <1>4 DEF M!Idle
  <2> QED
    BY <1>2, <1>4, <2>1, MigrationBegins
<1>5. CASE migrating' = [M!Idle EXCEPT !.pc = "validate", !.kind = kind,
                                       !.mem = migration] /\ migration # NoJournal
  <2>1. migrating' = [pc |-> "validate", kind |-> kind, fresh |-> FALSE, at |-> 0,
                      mem |-> migration]
    BY <1>5 DEF M!Idle
  <2>2. migration \in M!Journals
    BY <1>5 DEF MigrationState, MigrationInv, M!TypeOK
  <2> QED
    BY <1>2, <2>1, <2>2
<1> QED
  BY <1>3, <1>4, <1>5 DEF M!Begin

\* What every step below may use.
LEMMA CommandFacts ==
  ASSUME MigrationState, migrating.pc # "idle"
  PROVE  /\ migrating \in M!Transitions /\ migrating.mem \in M!Journals
         /\ migrating.at \in M!Steps /\ migrating.mem # NoJournal
         /\ MigrationWalks(migrating) /\ MigrationOrdered(migrating)
         /\ Executed(migrating.mem) /\ Verified(migrating.mem)
<1>1. migrating \in M!Transitions
  BY DEF MigrationState, MigrationInv, M!TypeOK
<1> QED
  BY <1>1, MigrationFields, MigrationJournalFields DEF MigrationState, MigrationInv

\* The reads that only pass or end.
LEMMA ChecksKeep ==
  ASSUME MigrationState,
         \/ M!Validates \/ M!Observe \/ M!Absent \/ M!ChecksOwners \/ M!ChecksProfiles
         \/ M!Settles \/ M!LastOwners \/ M!LastProfiles \/ M!ChecksNonces \/ M!Reports
         \/ M!Prepares
  PROVE  MigrationState'
<1>1. CASE M!Validates
  <2>1. migrating.pc = "validate" /\ M!Quiet
    BY <1>1 DEF M!Validates
  <2>2. CASE migrating' = [migrating EXCEPT !.pc = "observe", !.at = 0]
    <3>1. Earlier(migrating.mem, 0)
      BY DEF Earlier
    <3>2. "observe" \in MigrationPlaces \ {"idle"} /\ "observe" \notin Acting
      BY DEF MigrationPlaces, Acting
    <3> QED
      BY <2>1, <2>2, <3>1, <3>2, MigrationSteps, CommandGoesTo
  <2> QED
    BY <1>1, <2>1, <2>2, CommandEnds DEF M!Validates
<1>2. CASE M!Observe
  <2>1. migrating.pc = "observe" /\ M!Quiet
    BY <1>2 DEF M!Observe
  <2>2. Earlier(migrating.mem, migrating.at)
    BY <2>1, CommandFacts DEF MigrationWalks
  <2>3. CASE M!Goes("lastOwners")
    BY <2>1, <2>3, CommandGoes DEF MigrationPlaces, Acting
  <2>4. CASE M!Hash # 0 /\ M!Goes("effect")
    BY <2>1, <2>2, <2>4, CommandGoes DEF MigrationPlaces, Acting, M!Hash
  <2>5. CASE M!Hash # 0 /\ M!Passes(~M!Done(migrating.mem, migrating.at), "absent")
    BY <2>1, <2>2, <2>5, CommandPasses DEF MigrationPlaces, Acting, M!Hash
  <2> QED
    BY <1>2, <2>3, <2>4, <2>5 DEF M!Observe
<1>3. CASE M!Absent
  <2>1. migrating.pc = "absent" /\ M!Quiet
    BY <1>3 DEF M!Absent
  <2>2. Earlier(migrating.mem, migrating.at) /\ migrating.mem[migrating.at].execution # 0
    BY <2>1, CommandFacts DEF MigrationWalks, Acting
  <2>3. CASE M!Goes("owners")
    BY <2>1, <2>2, <2>3, CommandGoes DEF MigrationPlaces
  <2>4. CASE M!Goes("lastOwners")
    BY <2>1, <2>2, <2>4, CommandGoes DEF MigrationPlaces
  <2> QED
    BY <1>3, <2>1, <2>3, <2>4, CommandEnds DEF M!Absent
<1>4. CASE M!ChecksOwners
  <2>1. /\ migrating.pc = "owners" /\ M!Quiet
        /\ \E ok \in {TRUE, FALSE} : M!Passes(ok, "profiles")
    BY <1>4 DEF M!ChecksOwners, M!Passes
  <2>2. Earlier(migrating.mem, migrating.at) /\ migrating.mem[migrating.at].execution # 0
    BY <2>1, CommandFacts DEF MigrationWalks, Acting
  <2> QED
    BY <2>1, <2>2, CommandPasses DEF MigrationPlaces
<1>5. CASE M!ChecksProfiles
  <2>1. /\ migrating.pc = "profiles" /\ M!Quiet
        /\ \E ok \in {TRUE, FALSE} : M!Passes(ok, "saveAgain")
    BY <1>5 DEF M!ChecksProfiles, M!Passes
  <2>2. Earlier(migrating.mem, migrating.at) /\ migrating.mem[migrating.at].execution # 0
    BY <2>1, CommandFacts DEF MigrationWalks, Acting
  <2> QED
    BY <2>1, <2>2, CommandPasses DEF MigrationPlaces, M!Saving
<1>6. CASE M!Settles
  <2>1. /\ migrating.pc = "sent" /\ M!Quiet
        /\ \E ok \in {TRUE, FALSE} : M!Passes(ok, "effect")
    BY <1>6 DEF M!Settles, M!Passes
  <2>2. Earlier(migrating.mem, migrating.at) /\ migrating.mem[migrating.at].execution # 0
    BY <2>1, CommandFacts DEF MigrationWalks, Acting
  <2> QED
    BY <2>1, <2>2, CommandPasses DEF MigrationPlaces
<1>7. CASE M!LastOwners
  <2>1. /\ migrating.pc = "lastOwners" /\ M!Quiet
        /\ \E ok \in {TRUE, FALSE} : M!Passes(ok, "lastProfiles")
    BY <1>7 DEF M!LastOwners, M!Passes
  <2> QED
    BY <2>1, CommandPasses DEF MigrationPlaces, Acting
<1>8. CASE M!LastProfiles
  <2>1. /\ migrating.pc = "lastProfiles" /\ M!Quiet
        /\ M!Goes("nonces") \/ M!Goes("run") \/ M!Unlocks
    BY <1>8 DEF M!LastProfiles, M!Passes
  <2> QED
    BY <2>1, CommandGoes, CommandEnds DEF MigrationPlaces, Acting
<1>9. CASE M!ChecksNonces
  <2>1. /\ migrating.pc = "nonces" /\ M!Quiet
        /\ \E ok \in {TRUE, FALSE} : M!Passes(ok, "saveNew")
    BY <1>9 DEF M!ChecksNonces, M!Passes
  <2> QED
    BY <2>1, CommandPasses DEF MigrationPlaces, Acting, M!Saving
<1>10. CASE M!Reports
  BY <1>10, CommandEnds DEF M!Reports
<1>11. CASE M!Prepares
  <2>1. /\ migrating.pc = "prepare" /\ M!Quiet
        /\ \E ok \in {TRUE, FALSE} : M!Passes(ok, "saveOwn")
    BY <1>11 DEF M!Prepares, M!Passes
  <2> QED
    BY <2>1, CommandPasses DEF MigrationPlaces, Acting, M!Saving
<1> QED
  BY <1>1, <1>2, <1>3, <1>4, <1>5, <1>6, <1>7, <1>8, <1>9, <1>10, <1>11

\* A point is a height and a fork, and so never the null effect.
LEMMA PointsAreTyped ==
  ASSUME ChainTypeOK
  PROVE  /\ \A h : Mined(h) => M!PointAt(BlockOf(h)) \in M!Points
         /\ M!HeadPoint \in M!Points
<1>1. /\ Len(chain) \in Nat /\ DOMAIN chain = 1..Len(chain)
      /\ \A i \in DOMAIN chain : chain[i].fork \in Nat
  <2>1. chain \in Seq(Blocks)
    BY DEF ChainTypeOK
  <2>2. Len(chain) \in Nat /\ DOMAIN chain = 1..Len(chain)
        /\ \A i \in 1..Len(chain) : chain[i] \in Blocks
    BY <2>1, LenProperties, ElementOfSeq
  <2> QED
    BY <2>2 DEF Blocks
<1>2. \A n \in 0..Len(chain) : M!PointAt(n) \in M!Points
  <2> TAKE n \in 0..Len(chain)
  <2>1. n = 0 \/ n \in DOMAIN chain
    BY <1>1
  <2>2. n \in Nat
    BY <1>1
  <2> QED
    BY <1>1, <2>1, <2>2 DEF M!PointAt, M!Points
<1>3. \A h : Mined(h) => BlockOf(h) \in 0..Len(chain)
  <2> TAKE h
  <2>1. Mined(h) => BlockOf(h) \in DOMAIN chain
    BY BlockOfMined
  <2>2. \A i \in DOMAIN chain : i \in 0..Len(chain)
    BY <1>1
  <2> QED
    BY <2>1, <2>2
<1>4. Len(chain) \in 0..Len(chain)
  BY <1>1
<1> QED
  BY <1>2, <1>3, <1>4 DEF M!HeadPoint

\* The next step is reached when the one before it is done.
LEMMA NextIsReached ==
  ASSUME NEW j, NEW s \in M!Steps, s # Services, Earlier(j, s), M!Done(j, s)
  PROVE  s + 1 \in M!Steps /\ Earlier(j, s + 1)
<1>1. s + 1 \in M!Steps
  BY MigrationSteps
<1>2. \A p \in 0..((s + 1) - 1) : p = s \/ p \in 0..(s - 1)
  BY MigrationSteps
<1>3. \A p \in 0..(s - 1) : M!Done(j, p)
  BY DEF Earlier
<1>4. \A p \in 0..((s + 1) - 1) : M!Done(j, p)
  BY <1>2, <1>3
<1> QED
  BY <1>1, <1>4 DEF Earlier

\* On to the next step.
LEMMA CommandAdvances ==
  ASSUME MigrationState, M!Quiet, migrating.pc \in {"effect", "saveEffect"}, M!Advances,
         M!Done(migrating.mem, migrating.at)
  PROVE  MigrationState'
<1>1. Earlier(migrating.mem, migrating.at) /\ migrating.at \in M!Steps
  BY CommandFacts DEF MigrationWalks, Acting
<1>2. CASE M!Goes("lastOwners")
  BY <1>2, CommandGoes DEF MigrationPlaces, Acting
<1>3. CASE migrating.at # Services
           /\ migrating' = [migrating EXCEPT !.pc = "observe", !.at = migrating.at + 1]
  <2>1. migrating.at + 1 \in M!Steps /\ Earlier(migrating.mem, migrating.at + 1)
    BY <1>1, <1>3, NextIsReached
  <2>2. "observe" \in MigrationPlaces \ {"idle"} /\ "observe" \notin Acting
    BY DEF MigrationPlaces, Acting
  <2> QED
    BY <1>3, <2>1, <2>2, CommandGoesTo
<1> QED
  BY <1>2, <1>3 DEF M!Advances

\* The effect is read off the receipt, or is the one that is known.
LEMMA EffectIsReadKeeps ==
  ASSUME MigrationState, M!ReadEffect
  PROVE  MigrationState'
<1> DEFINE j == migrating.mem
           s == migrating.at
           h == M!Hash
           e == M!PointAt(BlockOf(h))
<1>1. migrating.pc = "effect" /\ M!Quiet
  BY DEF M!ReadEffect
<1>2. /\ migrating \in M!Transitions /\ j \in M!Journals /\ s \in M!Steps
      /\ Earlier(j, s) /\ j[s].execution # 0
  BY <1>1, CommandFacts DEF MigrationWalks, Acting
<1>3. CASE M!Unlocks
  BY <1>1, <1>3, CommandEnds
<1>4. CASE M!Done(j, s) /\ M!Advances
  BY <1>1, <1>4, CommandAdvances
<1>5. CASE /\ M!Proven(h, s) /\ ~M!Done(j, s)
           /\ migrating' = [migrating EXCEPT !.pc = "saveEffect", !.mem[s].effect = e]
  <2> DEFINE a == [j[s] EXCEPT !.effect = e]
  <2>1. IsVerified(s, h, e)
    BY <1>5, MigrationSeesTheChain DEF M!Proven, IsVerified
  <2>2. e \in M!Points /\ e # NoEffect
    BY <2>1, PointsAreTyped, NoMigrationAssumption
    DEF MigrationState, ChainInv, IsVerified
  <2>3. j[s] \in M!Actions
    BY <1>2, MigrationJournalFields
  <2>4. /\ a \in M!Actions /\ a.effect = e /\ a.basis = j[s].basis
        /\ a.approved = j[s].approved /\ a.execution = j[s].execution
    <3> HIDE DEF e, j, s
    <3> QED
      BY <2>2, <2>3 DEF M!Actions
  <2>5. j[s].effect = NoEffect
    BY <1>5 DEF M!Done
  <2>6. migrating' = [pc |-> "saveEffect", kind |-> migrating.kind,
                      fresh |-> migrating.fresh, at |-> s, mem |-> [j EXCEPT ![s] = a]]
    <3>1. migrating = [pc |-> migrating.pc, kind |-> migrating.kind,
                       fresh |-> migrating.fresh, at |-> migrating.at,
                       mem |-> migrating.mem]
      BY <1>2, MigrationFields
    <3> HIDE DEF e
    <3> QED
      BY <1>5, <3>1
  <2>7. h = a.execution
    BY <2>4 DEF M!Hash
  <2> HIDE DEF a, e, h
  <2> QED
    BY <1>1, <1>2, <2>1, <2>2, <2>4, <2>5, <2>6, <2>7, CommandAmends
<1>6. h = j[s].execution
  BY DEF M!Hash
<1> HIDE DEF e, h
<1> QED
  BY <1>3, <1>4, <1>5, MigrationSeesTheChain DEF M!ReadEffect, e, h

\* A step is reserved where the account was read.
LEMMA ReservesKeeps ==
  ASSUME MigrationState, M!Reserves
  PROVE  MigrationState'
<1> DEFINE j == migrating.mem
<1>1. migrating.pc = "run" /\ M!Quiet
  BY DEF M!Reserves
<1>2. migrating \in M!Transitions /\ j \in M!Journals
  BY <1>1, CommandFacts
<1>3. PICK s \in M!Outstanding(j) :
        /\ ~M!Prepared(j, s)
        /\ \/ migrating' = [migrating EXCEPT !.pc = "prepare", !.at = s,
                                             !.mem[s].basis = M!HeadPoint]
           \/ M!Unlocks
  BY DEF M!Reserves
<1>4. CASE M!Unlocks
  BY <1>1, <1>4, CommandEnds
<1>5. CASE migrating' = [migrating EXCEPT !.pc = "prepare", !.at = s,
                                          !.mem[s].basis = M!HeadPoint]
  <2> DEFINE a == [j[s] EXCEPT !.basis = M!HeadPoint]
  <2>1. s \in M!Steps /\ j[s] \in M!Actions
    BY <1>2, <1>3, MigrationJournalFields DEF M!Outstanding
  <2>2. M!HeadPoint \in M!Points
    BY PointsAreTyped DEF MigrationState, ChainInv
  <2>3. /\ a \in M!Actions /\ a.effect = j[s].effect
        /\ a.approved = j[s].approved /\ a.execution = j[s].execution
    <3> HIDE DEF j
    <3> QED
      BY <2>1, <2>2 DEF M!Actions
  <2>4. j[s].basis = NoPoint
    BY <1>3 DEF M!Prepared
  <2>5. migrating' = [pc |-> "prepare", kind |-> migrating.kind,
                      fresh |-> migrating.fresh, at |-> s, mem |-> [j EXCEPT ![s] = a]]
    <3>1. migrating = [pc |-> migrating.pc, kind |-> migrating.kind,
                       fresh |-> migrating.fresh, at |-> migrating.at,
                       mem |-> migrating.mem]
      BY <1>2, MigrationFields
    <3> QED
      BY <1>5, <3>1
  <2> HIDE DEF a
  <2> QED
    BY <1>1, <2>1, <2>3, <2>4, <2>5, CommandAmends
<1> QED
  BY <1>3, <1>4, <1>5

\* The backup owner approves once.
LEMMA ApprovesKeeps ==
  ASSUME MigrationState, M!Approves
  PROVE  MigrationState'
<1> DEFINE j == migrating.mem
<1>1. migrating.pc = "run" /\ M!Quiet
  BY DEF M!Approves
<1>2. migrating \in M!Transitions /\ j \in M!Journals /\ migrating.at \in M!Steps
  BY <1>1, CommandFacts
<1>3. PICK s \in M!Outstanding(j), b \in Approvals :
        \/ /\ j[s].approved \in {NoApproval, b}
           /\ migrating' = [migrating EXCEPT !.pc = "saveOwn", !.mem[s].approved = b]
        \/ M!Unlocks
  BY DEF M!Approves
<1>4. CASE M!Unlocks
  BY <1>1, <1>4, CommandEnds
<1>5. CASE /\ j[s].approved \in {NoApproval, b}
           /\ migrating' = [migrating EXCEPT !.pc = "saveOwn", !.mem[s].approved = b]
  <2> DEFINE a == [j[s] EXCEPT !.approved = b]
  <2>1. s \in M!Steps /\ j[s] \in M!Actions
    BY <1>2, <1>3, MigrationJournalFields DEF M!Outstanding
  <2>2. /\ a \in M!Actions /\ a.effect = j[s].effect /\ a.approved = b
        /\ a.basis = j[s].basis /\ a.execution = j[s].execution
    <3> HIDE DEF j
    <3> QED
      BY <2>1 DEF M!Actions
  <2>3. migrating' = [pc |-> "saveOwn", kind |-> migrating.kind,
                      fresh |-> migrating.fresh, at |-> migrating.at,
                      mem |-> [j EXCEPT ![s] = a]]
    <3>1. migrating = [pc |-> migrating.pc, kind |-> migrating.kind,
                       fresh |-> migrating.fresh, at |-> migrating.at,
                       mem |-> migrating.mem]
      BY <1>2, MigrationFields
    <3> QED
      BY <1>5, <3>1
  <2>4. j[s].approved # NoApproval => a.approved = j[s].approved
    BY <1>5, <2>2
  <2>5. migrating.pc # "idle" /\ "saveOwn" \in {"prepare", "saveOwn", "saveEffect"}
    BY <1>1
  <2> HIDE DEF a
  <2> QED
    BY <1>1, <1>2, <2>1, <2>2, <2>3, <2>4, <2>5, CommandAmends
<1> QED
  BY <1>3, <1>4, <1>5

\* A step is signed where there is no transaction, with those before it done.
LEMMA ExecutesKeeps ==
  ASSUME MigrationState, M!Executes
  PROVE  MigrationState'
<1> DEFINE j == migrating.mem
<1>1. migrating.pc = "run" /\ M!Quiet
  BY DEF M!Executes
<1>2. PICK s \in M!Outstanding(j) :
        \/ j[s].execution = 0 /\ migrating' = [migrating EXCEPT !.pc = "sign", !.at = s]
        \/ M!Unlocks
  BY DEF M!Executes
<1>3. CASE M!Unlocks
  BY <1>1, <1>3, CommandEnds
<1>4. CASE j[s].execution = 0 /\ migrating' = [migrating EXCEPT !.pc = "sign", !.at = s]
  <2>1. s \in M!Steps /\ ~M!Done(j, s) /\ Earlier(j, s)
    BY <1>2 DEF M!Outstanding, Earlier
  <2>2. "sign" \in MigrationPlaces \ {"idle"} /\ "sign" \notin Acting
    BY DEF MigrationPlaces, Acting
  <2> QED
    BY <1>1, <1>4, <2>1, <2>2, CommandGoesTo
<1> QED
  BY <1>2, <1>3, <1>4

\* When the nonce of a later step is due, the replacement owns the Safe: the step before
\* it was the last that the Safe has executed.
LEMMA DueIsOwned ==
  ASSUME ChainInv, config \in M!Configs, NEW j \in M!Journals, Executed(j), Verified(j),
         NEW s \in M!Steps \ {0}, Earlier(j, s), SafeNonce = config.safeNonce + s,
         reorgs = 0
  PROVE  PrimaryAt(Len(chain)) = "replacement"
<1> DEFINE p == s - 1
           h == j[p].execution
           i == BlockOf(h)
<1>1. p \in M!Steps /\ p \in 0..(s - 1) /\ p + 1 = s /\ s \in Nat /\ p \in Nat
  BY MigrationSteps
<1>2. j # NoJournal
  BY MigrationJournalFields
<1>3. IsVerified(p, h, j[p].effect)
  BY <1>1, <1>2 DEF Verified, Earlier
<1>4. Mined(h) /\ chain[i].ok /\ PrimaryAt(i) = "replacement"
  BY <1>3 DEF IsVerified
<1>5. i \in DOMAIN chain /\ chain[i].kind = "own" /\ chain[i].by = h
  BY <1>4, BlockOfMined
<1>6. h \in 1..Len(signed)
  BY <1>5 DEF ChainInv, OwnAreSigned
<1>7. h # 0
  BY <1>6
<1>8. signed[h].call = M!CallOf(p) /\ signed[h].safeNonce = config.safeNonce + p
  BY <1>1, <1>2, <1>7 DEF Executed
<1>9. signed[h].call \in MigrationCalls
  BY <1>8 DEF M!CallOf, MigrationCalls
<1>10. config.safeNonce \in Nat
  BY DEF M!Configs
<1>11. SafeNonce = signed[h].safeNonce + 1
  BY <1>1, <1>8, <1>10
<1> HIDE DEF p, h, i
<1> QED
  BY <1>4, <1>5, <1>9, <1>11 DEF ChainInv, SafeOrder

\* Another signature changes nothing of what a journal says.
LEMMA SigningKeepsJournals ==
  ASSUME ChainInv, config \in M!Configs, UNCHANGED <<chain, config, reorgs>>,
         NEW t, signed' = Append(signed, t)
  PROVE  /\ \A h \in Nat : h # 0 /\ h <= Len(signed) =>
              h <= Len(signed') /\ signed'[h] = signed[h]
         /\ \A s, h, e : IsVerified(s, h, e) => IsVerified(s, h, e)'
<1>1. /\ Len(signed) \in Nat /\ Len(signed') = Len(signed) + 1
      /\ \A h \in 1..Len(signed) : signed'[h] = signed[h]
  BY AppendProperties, LenProperties DEF ChainInv, ChainTypeOK
<1>2. ASSUME NEW h \in Nat, h # 0, h <= Len(signed)
      PROVE  h <= Len(signed') /\ signed'[h] = signed[h]
  BY <1>1, <1>2
<1>3. ASSUME NEW s, NEW h, NEW e, IsVerified(s, h, e) PROVE IsVerified(s, h, e)'
  <2>1. PICK i : i = BlockOf(h)
    OBVIOUS
  <2>2. Mined(h) /\ i \in DOMAIN chain
    BY <1>3, <2>1, BlockOfMined DEF IsVerified
  <2>3. i \in 0..Len(chain)
    BY <2>2, LenProperties DEF ChainInv, ChainTypeOK
  <2>4. PrimaryAt(i)' = PrimaryAt(i) /\ ProfileAt(i, s)' = ProfileAt(i, s)
    BY <2>3, ViewsOutlastSigning DEF ChainInv
  <2>5. Mined(h)' /\ BlockOf(h)' = i
    BY <2>1, <2>2 DEF Mined, BlockOf
  <2>6. chain[i].ok /\ e = M!PointAt(i) /\ PrimaryAt(i) = "replacement"
        /\ (s > 0 => ProfileAt(i, s) = "republish")
    BY <1>3, <2>1 DEF IsVerified
  <2>7. e = M!PointAt(i)'
    BY <2>6 DEF M!PointAt
  <2> QED
    BY <2>4, <2>5, <2>6, <2>7 DEF IsVerified
<1> QED
  BY <1>2, <1>3

\* A transaction is signed.
LEMMA SigningKeepsChain ==
  ASSUME ChainInv, UNCHANGED <<wire, mempool, chain, foreign, reorgs, losses, sent>>,
         NEW t \in Transactions, signed' = Append(signed, t),
         t.call = "republish" /\ reorgs = 0 =>
           SafeNonce = t.safeNonce /\ PrimaryAt(Len(chain)) = "replacement"
  PROVE  ChainInv'
<1>1. signed \in Seq(Transactions) /\ Len(signed) \in Nat
  BY LenProperties DEF ChainInv, ChainTypeOK
<1>2. signed' \in Seq(Transactions) /\ Len(signed') = Len(signed) + 1
  BY <1>1, AppendProperties
<1>3. \A n \in 1..Len(signed) : n \in 1..Len(signed')
  BY <1>1, <1>2
<1>4. ChainTypeOK' /\ sent' \in SUBSET (1..Len(signed'))
  BY <1>2, <1>3 DEF ChainInv, ChainTypeOK
<1>5. OwnAreSigned'
  BY <1>3 DEF ChainInv, OwnAreSigned
<1>6. MinedOnce'
  BY DEF ChainInv, MinedOnce, OneBlockEach, Mined
<1>7. SafeOrder'
  BY SigningKeepsSafeOrder DEF ChainInv
<1> QED
  BY <1>4, <1>5, <1>6, <1>7 DEF ChainInv

\* A step is signed where there was no transaction, at its own nonce.
LEMMA CommandSigns ==
  ASSUME MigrationState, M!Sign
  PROVE  MigrationState'
<1> DEFINE s == migrating.at
           j == migrating.mem
           t == [call |-> M!CallOf(s), payerNonce |-> M!PendingNonce,
                 safeNonce |-> config.safeNonce + s, agent |-> s]
           n == Len(signed) + 1
           a == [j[s] EXCEPT !.execution = n]
           k == [j EXCEPT ![s] = a]
<1>1. migrating.pc = "sign"
  BY DEF M!Sign
<1>2. /\ migrating \in M!Transitions /\ j \in M!Journals /\ s \in M!Steps
      /\ Executed(j) /\ Verified(j) /\ MigrationOrdered(migrating)
      /\ Earlier(j, s) /\ j[s].execution = 0 /\ ~M!Done(j, s)
  BY <1>1, CommandFacts DEF MigrationWalks
<1>3. ChainInv /\ config \in M!Configs
  BY DEF MigrationState, MigrationInv
<1>4. CASE M!Unlocks /\ UNCHANGED signed
  <2>1. M!Quiet
    BY <1>4 DEF M!Sign, M!Quiet, M!chainVars
  <2> QED
    BY <1>4, <2>1, CommandEnds
<1>5. CASE /\ M!Succeeds(t) /\ signed' = Append(signed, t)
           /\ migrating' = [migrating EXCEPT !.pc = "saveOwn",
                                             !.mem[s].execution = n]
  <2>0. UNCHANGED <<wire, mempool, chain, foreign, reorgs, losses, config, migration,
                    migrationDurable, sent>>
    BY DEF M!Sign
  <2>1. Len(signed) \in Nat /\ n \in Nat /\ n # 0
    BY <1>3, LenProperties DEF ChainInv, ChainTypeOK
  <2>2. t \in Transactions
    <3>1. M!CallOf(s) \in SafeCalls
      BY DEF M!CallOf, SafeCalls
    <3>2. M!PendingNonce \in Nat
      BY <1>3, PendingIsNumber, MigrationSeesTheChain DEF ChainInv
    <3>3. config.safeNonce + s \in Nat /\ s \in Nat
      BY <1>2, <1>3, MigrationSteps DEF M!Configs
    <3> QED
      BY <3>1, <3>2, <3>3 DEF Transactions
  <2>3. /\ t.call = M!CallOf(s) /\ t.safeNonce = config.safeNonce + s
    OBVIOUS
  <2>4. Succeeds(t)
    BY <1>5, MigrationSeesTheChain
  <2> HIDE DEF t
  <2>5. ASSUME t.call = "republish", reorgs = 0
        PROVE  SafeNonce = t.safeNonce /\ PrimaryAt(Len(chain)) = "replacement"
    <3>1. SafeNonce = config.safeNonce + s
      BY <2>3, <2>4, <2>5 DEF Succeeds
    <3>2. s # 0
      BY <2>3, <2>5 DEF M!CallOf
    <3> HIDE DEF s, j
    <3>3. PrimaryAt(Len(chain)) = "replacement"
      BY <1>2, <1>3, <2>5, <3>1, <3>2, DueIsOwned
    <3> QED
      BY <2>3, <3>1, <3>3
  <2>6. ChainInv'
    BY <1>3, <1>5, <2>0, <2>2, <2>5, SigningKeepsChain
  <2>7. /\ \A h \in Nat : h # 0 /\ h <= Len(signed) =>
              h <= Len(signed') /\ signed'[h] = signed[h]
        /\ \A r, h, e : IsVerified(r, h, e) => IsVerified(r, h, e)'
    BY <1>3, <1>5, <2>0, SigningKeepsJournals
  <2>8. Len(signed') = n /\ signed'[n] = t
    BY <1>3, <1>5, <2>2, AppendProperties DEF ChainInv, ChainTypeOK
  <2>9. j[s] \in M!Actions
    BY <1>2, MigrationJournalFields
  <2>10. /\ a \in M!Actions /\ a.basis = j[s].basis /\ a.approved = j[s].approved
         /\ a.execution = n /\ a.effect = j[s].effect
    <3> HIDE DEF j, s, n
    <3> QED
      BY <2>1, <2>9 DEF M!Actions
  <2>11. migrating' = [pc |-> "saveOwn", kind |-> migrating.kind,
                       fresh |-> migrating.fresh, at |-> s, mem |-> k]
    <3>1. migrating = [pc |-> migrating.pc, kind |-> migrating.kind,
                       fresh |-> migrating.fresh, at |-> migrating.at,
                       mem |-> migrating.mem]
      BY <1>2, MigrationFields
    <3> HIDE DEF n
    <3> QED
      BY <1>5, <3>1
  <2> HIDE DEF a
  <2>12. /\ k \in M!Journals /\ k # NoJournal
         /\ \A r \in M!Steps : k[r] = IF r = s THEN a ELSE j[r]
         /\ MigrationGrown(j, k)
    BY <1>2, <2>10, MigrationAmended, MigrationJournalFields
  <2> HIDE DEF k
  <2>13. migrating'.pc = "saveOwn" /\ migrating'.mem = k
    BY <2>11
  <2>14. migrating' \in M!Transitions
    <3>1. "saveOwn" \in MigrationPlaces
      BY DEF MigrationPlaces, M!Saving
    <3>2. migrating.kind \in M!Commands /\ migrating.fresh \in BOOLEAN
      BY <1>2, MigrationFields
    <3>3. [pc |-> "saveOwn", kind |-> migrating.kind, fresh |-> migrating.fresh, at |-> s,
           mem |-> k] \in M!Transitions
      BY <1>2, <2>12, <3>1, <3>2, MigrationMade, Zenon
    <3> QED
      BY <2>11, <3>3
  <2>15. config' \in M!Configs /\ M!TypeOK'
    BY <2>0, <2>14 DEF MigrationState, MigrationInv, M!TypeOK
  <2>16. migration \in M!Journals \cup {NoJournal}
         /\ migrationDurable \in M!Journals \cup {NoJournal}
    BY DEF MigrationState, MigrationInv, M!TypeOK
  <2>17. \A i \in M!Journals \cup {NoJournal} :
           Executed(i) /\ i # NoJournal => \A r \in M!Steps : i[r].execution # 0 =>
             /\ i[r].execution <= Len(signed')
             /\ signed'[i[r].execution].call = M!CallOf(r)
             /\ signed'[i[r].execution].safeNonce = config.safeNonce + r
    BY <2>7, MigrationJournalFields DEF Executed
  <2>18. Executed(migration)' /\ Executed(migrationDurable)'
    BY <2>0, <2>16, <2>17 DEF Executed, MigrationState, MigrationInv
  <2>19. Executed(migrating.mem)'
    <3>1. \A r \in M!Steps : k[r].execution # 0 =>
            /\ k[r].execution <= Len(signed')
            /\ signed'[k[r].execution].call = M!CallOf(r)
            /\ signed'[k[r].execution].safeNonce = config.safeNonce + r
      <4> TAKE r \in M!Steps
      <4> HAVE k[r].execution # 0
      <4>1. CASE r = s
        BY <2>1, <2>3, <2>8, <2>10, <2>12, <4>1
      <4>2. CASE r # s
        BY <1>2, <2>12, <2>17, <4>2, MigrationJournalFields
      <4> QED
        BY <4>1, <4>2
    <3> QED
      BY <2>0, <2>13, <3>1 DEF Executed
  <2>20. Verified(migration)' /\ Verified(migrationDurable)'
    BY <2>0, <2>7 DEF Verified, M!Done, MigrationState, MigrationInv, M!Sign
  <2>21. Verified(migrating.mem)'
    <3>0. PICK i : i = k
      OBVIOUS
    <3>1. ASSUME reorgs = 0, NEW r \in M!Steps, i[r].effect # NoEffect
          PROVE  IsVerified(r, i[r].execution, i[r].effect)'
      <4>1. r # s
        BY <1>2, <2>10, <2>12, <3>0, <3>1 DEF M!Done
      <4>2. i[r] = j[r] /\ M!Done(j, r) /\ j # NoJournal
        BY <1>2, <2>12, <3>0, <3>1, <4>1, MigrationJournalFields DEF M!Done
      <4>3. IsVerified(r, j[r].execution, j[r].effect)
        BY <1>2, <3>1, <4>2 DEF Verified
      <4>4. IsVerified(r, i[r].execution, i[r].effect)
        BY <4>2, <4>3
      <4> QED
        BY <2>7, <4>4
    <3>2. reorgs' = reorgs /\ migrating'.mem = i
      BY <2>0, <2>13, <3>0 DEF M!Sign
    <3> QED
      BY <3>1, <3>2 DEF Verified, M!Done
  <2>22. MigrationWalks(migrating)' /\ MigrationSynced(migrating)'
    BY <2>13 DEF MigrationWalks, MigrationSynced, Acting
  <2>23. MigrationOrdered(migrating)'
    <3>1. MigrationGrown(migration, k) /\ MigrationGrown(migrationDurable, migration)
      BY <1>1, <1>2, <2>12, MigrationOrder DEF MigrationOrdered
    <3> QED
      BY <2>0, <2>13, <3>1 DEF MigrationOrdered, MigrationGrown, MigrationKeeps
  <2>24. HandOverIsJournaled'
    <3>1. \A h \in sent : h \in Nat /\ h # 0 /\ h <= Len(signed)
      BY <1>3, <2>1 DEF ChainInv
    <3> QED
      BY <2>0, <2>7, <3>1 DEF HandOverIsJournaled, MigrationState, MigrationInv, Earlier, M!Done
  <2> QED
    BY <2>6, <2>15, <2>18, <2>19, <2>20, <2>21, <2>22, <2>23, <2>24
    DEF MigrationState, MigrationInv
<1> QED
  BY <1>4, <1>5 DEF M!Sign

\* A write, complete or interrupted, or a loss of power leaves one of the journals there
\* were, and the durable one has grown.
LEMMA CommandWrites ==
  ASSUME MigrationState, UNCHANGED <<chainVars, config, sent>>,
         \/ UNCHANGED <<migration, migrationDurable>>
         \/ UNCHANGED migrationDurable /\ migration' = migrationDurable
         \/ /\ migrating.pc # "idle" /\ migration' = migrating.mem
            /\ migrationDurable' \in {migrationDurable, migrating.mem},
         migrating' \in M!Transitions, migrating'.mem \in {migrating.mem, NoJournal},
         MigrationWalks(migrating'), MigrationSynced(migrating)',
         migrating'.pc # "idle" => MigrationGrown(migration', migrating'.mem)
  PROVE  MigrationState'
<1>1. ChainInv' /\ \A s, h, e : IsVerified(s, h, e)' = IsVerified(s, h, e)
  <2>1. UNCHANGED <<signed, mempool, chain, foreign, reorgs, losses>>
        /\ wire' \in SUBSET (1..Len(signed)) /\ sent' \in SUBSET (1..Len(signed))
    BY DEF chainVars, MigrationState, ChainInv, ChainTypeOK
  <2> QED
    BY <2>1, QuietChain DEF MigrationState
<1>2. /\ migration \in M!Journals \cup {NoJournal}
      /\ migrationDurable \in M!Journals \cup {NoJournal}
      /\ migrating \in M!Transitions
      /\ Executed(migration) /\ Executed(migrationDurable) /\ Executed(migrating.mem)
      /\ Verified(migration) /\ Verified(migrationDurable) /\ Verified(migrating.mem)
      /\ MigrationGrown(migrationDurable, migration)
      /\ migrating.pc # "idle" => MigrationGrown(migration, migrating.mem)
  BY DEF MigrationState, MigrationInv, M!TypeOK, MigrationOrdered
<1>3. migrating.pc # "idle" => migrating.mem \in M!Journals
  BY <1>2, MigrationFields
<1>4. /\ MigrationGrown(migrationDurable, migrationDurable')
      /\ MigrationGrown(migrationDurable', migration')
  BY <1>2, MigrationOrder
<1>5. config' \in M!Configs /\ M!TypeOK'
  <2>1. config' \in M!Configs
    BY DEF MigrationState, MigrationInv
  <2> QED
    BY <1>2, <1>3, <2>1 DEF M!TypeOK
<1>6. Executed(migration') /\ Executed(migrationDurable') /\ Executed(migrating'.mem)
  <2>1. Executed(NoJournal)
    BY DEF Executed
  <2> QED
    BY <1>2, <2>1
<1>7. Executed(migration)' /\ Executed(migrationDurable)' /\ Executed(migrating.mem)'
  BY <1>6 DEF Executed, chainVars
<1>8. Verified(migration') /\ Verified(migrationDurable') /\ Verified(migrating'.mem)
  <2>1. Verified(NoJournal)
    BY DEF Verified
  <2> QED
    BY <1>2, <2>1
<1>9. Verified(migration)' /\ Verified(migrationDurable)' /\ Verified(migrating.mem)'
  BY <1>1, <1>8 DEF Verified, M!Done, chainVars
<1>10. HandOverIsJournaled'
  <2> SUFFICES ASSUME NEW h \in sent, signed[h].call \in MigrationCalls
               PROVE  /\ migrationDurable' # NoJournal
                      /\ \E s \in M!Steps : /\ migrationDurable'[s].execution = h
                                            /\ Earlier(migrationDurable', s)
    BY DEF HandOverIsJournaled, Earlier, M!Done, chainVars
  <2>1. PICK s \in M!Steps : migrationDurable[s].execution = h
                             /\ Earlier(migrationDurable, s)
    BY DEF MigrationState, MigrationInv, HandOverIsJournaled
  <2>2. h # 0 /\ migrationDurable # NoJournal
    BY DEF MigrationState, MigrationInv, HandOverIsJournaled, ChainInv
  <2>3. migrationDurable' # NoJournal /\ MigrationKeeps(migrationDurable, migrationDurable')
    BY <1>4, <2>2 DEF MigrationGrown
  <2>4. migrationDurable'[s].execution = h
    BY <2>1, <2>2, <2>3 DEF MigrationKeeps
  <2>5. Earlier(migrationDurable', s)
    BY <2>1, <2>3, MigrationOrder
  <2> QED
    BY <2>3, <2>4, <2>5
<1>11. MigrationWalks(migrating)' /\ MigrationOrdered(migrating)'
  BY <1>4 DEF MigrationWalks, MigrationOrdered, Earlier, M!Done
<1> QED
  BY <1>1, <1>5, <1>7, <1>9, <1>10, <1>11 DEF MigrationState, MigrationInv

\* The journal is written and the command goes on with it.
LEMMA CommandSaves ==
  ASSUME MigrationState, M!Saved
  PROVE  MigrationState'
<1> DEFINE j == migrating.mem
<1>1. /\ migrating.pc \in M!Saving /\ migration' = j /\ migrationDurable' = j
      /\ UNCHANGED <<chainVars, config, sent>>
  BY DEF M!Saved, M!chainVars, chainVars
<1>2. migrating.pc # "idle"
  BY <1>1 DEF M!Saving
<1>3. /\ migrating \in M!Transitions /\ j \in M!Journals /\ j # NoJournal
      /\ migrating.at \in M!Steps /\ MigrationWalks(migrating)
  BY <1>2, CommandFacts
<1>4. /\ migrating.kind \in M!Commands /\ migrating.fresh \in BOOLEAN
      /\ migrating = [pc |-> migrating.pc, kind |-> migrating.kind,
                      fresh |-> migrating.fresh, at |-> migrating.at, mem |-> j]
  BY <1>3, MigrationFields
<1>5. ASSUME NEW p \in MigrationPlaces \ {"idle"}, NEW f \in BOOLEAN, NEW s \in M!Steps,
             migrating' = [pc |-> p, kind |-> migrating.kind, fresh |-> f, at |-> s,
                           mem |-> j],
             p \in Acting \cup {"observe"} => Earlier(j, s),
             p \in Acting => j[s].execution # 0,
             p \notin {"saveEffect", "sign"}
      PROVE  MigrationState'
  <2>1. [pc |-> p, kind |-> migrating.kind, fresh |-> f, at |-> s, mem |-> j]
          \in M!Transitions
    BY <1>3, <1>4, MigrationMade, Zenon
  <2>2. migrating' \in M!Transitions
    BY <1>5, <2>1
  <2>3. migrating'.pc = p /\ migrating'.at = s /\ migrating'.mem = j
    BY <1>5
  <2> HIDE DEF j
  <2>4. MigrationWalks(migrating')
    BY <1>5, <2>3 DEF MigrationWalks
  <2>5. MigrationSynced(migrating)'
    BY <1>1, <2>3 DEF MigrationSynced
  <2>6. MigrationGrown(migration', migrating'.mem)
    BY <1>1, <2>3, MigrationOrder
  <2> QED
    BY <1>1, <1>2, <2>2, <2>3, <2>4, <2>5, <2>6, CommandWrites DEF j
<1>6. CASE migrating.pc = "saveNew"
  <2>1. migrating' = [migrating EXCEPT !.pc = "validate", !.fresh = FALSE]
    BY <1>6 DEF M!Saved
  <2>2. migrating' = [pc |-> "validate", kind |-> migrating.kind, fresh |-> FALSE,
                      at |-> migrating.at, mem |-> j]
    BY <1>4, <2>1
  <2>3. "validate" \in MigrationPlaces \ {"idle"} /\ "validate" \notin Acting
    BY DEF MigrationPlaces, Acting
  <2> HIDE DEF j
  <2> QED
    BY <1>3, <1>5, <2>2, <2>3
<1>7. CASE migrating.pc = "saveAgain"
  <2>1. M!Goes("send")
    BY <1>7 DEF M!Saved
  <2>2. migrating' = [pc |-> "send", kind |-> migrating.kind, fresh |-> migrating.fresh,
                      at |-> migrating.at, mem |-> j]
    BY <1>4, <2>1 DEF M!Goes
  <2>3. Earlier(j, migrating.at) /\ j[migrating.at].execution # 0
    BY <1>3, <1>7 DEF MigrationWalks, Acting
  <2>4. "send" \in MigrationPlaces \ {"idle"}
    BY DEF MigrationPlaces
  <2> HIDE DEF j
  <2> QED
    BY <1>3, <1>4, <1>5, <2>2, <2>3, <2>4
<1>8. CASE migrating.pc = "saveEffect"
  <2>1. Earlier(j, migrating.at) /\ M!Done(j, migrating.at)
    BY <1>3, <1>8 DEF MigrationWalks
  <2>2. CASE M!Goes("lastOwners")
    <3>1. migrating' = [pc |-> "lastOwners", kind |-> migrating.kind,
                        fresh |-> migrating.fresh, at |-> migrating.at, mem |-> j]
      BY <1>4, <2>2 DEF M!Goes
    <3>2. "lastOwners" \in MigrationPlaces \ {"idle"} /\ "lastOwners" \notin Acting
      BY DEF MigrationPlaces, Acting
    <3> HIDE DEF j
    <3> QED
      BY <1>3, <1>4, <1>5, <3>1, <3>2
  <2>3. CASE migrating.at # Services
             /\ migrating' = [migrating EXCEPT !.pc = "observe", !.at = migrating.at + 1]
    <3>1. migrating' = [pc |-> "observe", kind |-> migrating.kind,
                        fresh |-> migrating.fresh, at |-> migrating.at + 1, mem |-> j]
      BY <1>4, <2>3
    <3>2. "observe" \in MigrationPlaces \ {"idle"} /\ "observe" \notin Acting
      BY DEF MigrationPlaces, Acting
    <3>3. migrating.at + 1 \in M!Steps /\ Earlier(j, migrating.at + 1)
      BY <1>3, <2>1, <2>3, NextIsReached
    <3> HIDE DEF j
    <3> QED
      BY <1>4, <1>5, <3>1, <3>2, <3>3
  <2>4. M!Advances
    BY <1>8 DEF M!Saved
  <2> QED
    BY <2>2, <2>3, <2>4 DEF M!Advances
<1>9. CASE migrating.pc = "saveOwn"
  <2>1. /\ migrating' = M!Idle /\ migrating' \in M!Transitions
        /\ migrating'.pc = "idle" /\ migrating'.mem = NoJournal
    BY <1>9, MigrationBegins DEF M!Saved, M!Unlocks
  <2>2. MigrationWalks(migrating') /\ MigrationSynced(migrating)'
    BY <2>1 DEF MigrationWalks, MigrationSynced, Acting
  <2> QED
    BY <1>1, <1>2, <2>1, <2>2, CommandWrites
<1> QED
  BY <1>1, <1>6, <1>7, <1>8, <1>9 DEF M!Saving

\* A command that breaks off, and one that a loss of power ends.
LEMMA CommandBreaks ==
  ASSUME MigrationState, M!Breaks \/ M!PowerFails
  PROVE  MigrationState'
<1>1. /\ migrating' = M!Idle /\ migrating' \in M!Transitions
      /\ migrating'.pc = "idle" /\ migrating'.mem = NoJournal
  BY MigrationBegins DEF M!Breaks, M!PowerFails, M!Unlocks
<1>2. MigrationWalks(migrating') /\ MigrationSynced(migrating)'
  BY <1>1 DEF MigrationWalks, MigrationSynced, Acting
<1>3. UNCHANGED <<chainVars, config, sent>>
  BY DEF M!Breaks, M!PowerFails, M!chainVars, chainVars
<1>4. \/ UNCHANGED <<migration, migrationDurable>>
      \/ UNCHANGED migrationDurable /\ migration' = migrationDurable
      \/ /\ migrating.pc # "idle" /\ migration' = migrating.mem
         /\ migrationDurable' \in {migrationDurable, migrating.mem}
  BY DEF M!Breaks, M!PowerFails
<1> QED
  BY <1>1, <1>2, <1>3, <1>4, CommandWrites

\* A new process has sent nothing; or nothing happens.
LEMMA CommandRests ==
  ASSUME MigrationState, M!NewProcess \/ UNCHANGED <<chainVars, migrationVars, sent>>
  PROVE  MigrationState'
<1>1. UNCHANGED <<chainVars, config, migration, migrationDurable, migrating, sent>>
  BY DEF M!NewProcess, M!chainVars, chainVars, migrationVars
<1>2. /\ migrating \in M!Transitions /\ Executed(migrating.mem) /\ Verified(migrating.mem)
      /\ MigrationWalks(migrating) /\ MigrationSynced(migrating)
      /\ migrating.pc # "idle" => MigrationGrown(migration, migrating.mem)
  BY DEF MigrationState, MigrationInv, M!TypeOK, MigrationOrdered
<1> QED
  BY <1>1, <1>2, CommandMoves

\* What is sent is in the durable journal.
LEMMA CommandSends ==
  ASSUME MigrationState, M!Sends
  PROVE  MigrationState'
<1> DEFINE j == migrating.mem
           s == migrating.at
           h == j[s].execution
<1>1. migrating.pc = "send" /\ M!Hash = h
  BY DEF M!Sends, M!Hash
<1>2. /\ migrating \in M!Transitions /\ j \in M!Journals /\ j # NoJournal /\ s \in M!Steps
      /\ Executed(j) /\ Earlier(j, s) /\ h # 0
      /\ migrationDurable = j /\ migration = j
  BY <1>1, CommandFacts DEF MigrationWalks, Acting, MigrationState, MigrationInv,
     MigrationSynced
<1>3. CASE M!Unlocks /\ UNCHANGED <<submitted, sent, wire>>
  <2>1. UNCHANGED <<chainVars, config, migration, migrationDurable, sent>>
    BY <1>3 DEF M!Sends, chainVars
  <2>2. /\ migrating' = M!Idle /\ migrating' \in M!Transitions
        /\ migrating'.pc = "idle" /\ migrating'.mem = NoJournal
    BY <1>3, MigrationBegins DEF M!Unlocks
  <2>3. MigrationWalks(migrating') /\ MigrationSynced(migrating')
    BY <2>2 DEF MigrationWalks, MigrationSynced, Acting
  <2>4. Executed(migrating'.mem) /\ Verified(migrating'.mem)
    BY <2>2 DEF Executed, Verified
  <2> QED
    BY <2>1, <2>2, <2>3, <2>4, CommandMoves
<1>4. CASE sent' = sent \cup {h} /\ wire' = wire \cup {h} /\ M!Goes("sent")
  <2>1. UNCHANGED <<signed, mempool, chain, foreign, reorgs, losses, config, migration,
                    migrationDurable>>
    BY DEF M!Sends
  <2>2. h \in 1..Len(signed)
    <3>1. h \in Nat /\ h <= Len(signed) /\ Len(signed) \in Nat
      BY <1>2, MigrationJournalFields, LenProperties
      DEF Executed, MigrationState, ChainInv, ChainTypeOK
    <3> HIDE DEF h
    <3> QED
      BY <1>2, <3>1
  <2> HIDE DEF h
  <2>3. ChainInv' /\ \A r, g, e : IsVerified(r, g, e)' = IsVerified(r, g, e)
    <3>1. wire' \in SUBSET (1..Len(signed)) /\ sent' \in SUBSET (1..Len(signed))
      BY <1>4, <2>2 DEF MigrationState, ChainInv, ChainTypeOK
    <3> QED
      BY <2>1, <3>1, QuietChain DEF MigrationState
  <2>4. migrating' = [pc |-> "sent", kind |-> migrating.kind, fresh |-> migrating.fresh,
                      at |-> s, mem |-> j]
    <3>1. migrating = [pc |-> migrating.pc, kind |-> migrating.kind,
                       fresh |-> migrating.fresh, at |-> migrating.at,
                       mem |-> migrating.mem]
      BY <1>2, MigrationFields
    <3> QED
      BY <1>4, <3>1 DEF M!Goes
  <2>5. migrating'.pc = "sent" /\ migrating'.at = s /\ migrating'.mem = j
    BY <2>4
  <2>6. migrating' \in M!Transitions
    <3>1. "sent" \in MigrationPlaces
      BY DEF MigrationPlaces
    <3>2. migrating.kind \in M!Commands /\ migrating.fresh \in BOOLEAN
      BY <1>2, MigrationFields
    <3>3. [pc |-> "sent", kind |-> migrating.kind, fresh |-> migrating.fresh, at |-> s,
           mem |-> j] \in M!Transitions
      BY <1>2, <3>1, <3>2, MigrationMade, Zenon
    <3> QED
      BY <2>4, <3>3
  <2>7. config' \in M!Configs /\ M!TypeOK'
    BY <2>1, <2>6 DEF MigrationState, MigrationInv, M!TypeOK
  <2>8. Executed(migration)' /\ Executed(migrationDurable)' /\ Executed(migrating.mem)'
    BY <2>1, <2>5 DEF MigrationState, MigrationInv, Executed
  <2>9. Verified(migration)' /\ Verified(migrationDurable)' /\ Verified(migrating.mem)'
    BY <2>1, <2>3, <2>5 DEF MigrationState, MigrationInv, Verified
  <2>10. MigrationWalks(migrating)' /\ MigrationSynced(migrating)'
    BY <1>2, <2>5 DEF h, MigrationWalks, MigrationSynced, Acting, Earlier
  <2>11. MigrationOrdered(migrating)'
    BY <1>1, <2>1, <2>5 DEF MigrationState, MigrationInv, MigrationOrdered
  <2>12. HandOverIsJournaled'
    <3>1. \A g \in sent : signed[g].call \in MigrationCalls =>
            /\ migrationDurable # NoJournal
            /\ \E r \in M!Steps : migrationDurable[r].execution = g
                                  /\ Earlier(migrationDurable, r)
      BY DEF MigrationState, MigrationInv, HandOverIsJournaled
    <3>2. migrationDurable # NoJournal /\ migrationDurable[s].execution = h
          /\ Earlier(migrationDurable, s)
      BY <1>2 DEF h
    <3> QED
      BY <1>2, <1>4, <2>1, <3>1, <3>2 DEF HandOverIsJournaled, Earlier, M!Done
  <2> QED
    BY <2>3, <2>7, <2>8, <2>9, <2>10, <2>11, <2>12 DEF MigrationState, MigrationInv
<1> QED
  BY <1>1, <1>3, <1>4 DEF M!Sends

\* Until a block is dropped, what is verified stays verified.
LEMMA ChainKeepsVerified ==
  ASSUME ChainTypeOK, OwnAreSigned, MinedOnce, NEW kinds \in SUBSET ForeignKinds,
         ChainNext(kinds), reorgs' = 0
  PROVE  reorgs = 0 /\ \A s, h, e : IsVerified(s, h, e) => IsVerified(s, h, e)'
<1>1. /\ UNCHANGED signed
      /\ Waits \/ (\E b \in Blocks : b.kind \in kinds \cup {"own"} /\ Adds(b)) \/ Drops
  BY ChainMoves
<1>2. CASE Waits
  <2>1. UNCHANGED <<chain, reorgs, signed>>
    BY <1>1, <1>2 DEF Waits
  <2>2. \A s, h, e : IsVerified(s, h, e)' = IsVerified(s, h, e)
    BY <2>1 DEF IsVerified, Mined, BlockOf, M!PointAt, PrimaryAt, ProfileAt,
       SelectLastInSubSeq, Own
  <2> QED
    BY <2>1, <2>2
<1>3. ASSUME NEW b \in Blocks, Adds(b)
      PROVE  reorgs = 0 /\ \A s, h, e : IsVerified(s, h, e) => IsVerified(s, h, e)'
  <2>1. reorgs = 0 /\ OneBlockEach /\ (b.kind = "own" => ~Mined(b.by))
    BY <1>3 DEF Adds, MinedOnce
  <2>2. chain \in Seq(Blocks) /\ chain' = Append(chain, b)
    BY <1>3 DEF Adds, ChainTypeOK
  <2>3. \A h : Mined(h) => Mined(h)' /\ BlockOf(h)' = BlockOf(h)
    BY <2>1, <2>2, FactsOutlastBlocks
  <2>4. \A n \in 0..Len(chain) : \A agent :
          PrimaryAt(n)' = PrimaryAt(n) /\ ProfileAt(n, agent)' = ProfileAt(n, agent)
    BY <1>1, <2>2, ViewsOutlastBlocks
  <2>5. /\ Len(chain) \in Nat /\ DOMAIN chain = 1..Len(chain)
        /\ \A i \in DOMAIN chain : chain'[i] = chain[i]
    BY <2>2, Added
  <2>6. ASSUME NEW s, NEW h, NEW e, IsVerified(s, h, e) PROVE IsVerified(s, h, e)'
    <3>1. PICK i : i = BlockOf(h)
      OBVIOUS
    <3>2. Mined(h) /\ i \in DOMAIN chain
      BY <2>6, <3>1, BlockOfMined DEF IsVerified
    <3>3. i \in 0..Len(chain)
      BY <2>5, <3>2
    <3>4. PrimaryAt(i)' = PrimaryAt(i) /\ ProfileAt(i, s)' = ProfileAt(i, s)
      BY <2>4, <3>3
    <3>5. Mined(h)' /\ BlockOf(h)' = i /\ chain'[i] = chain[i]
      BY <2>3, <2>5, <3>1, <3>2
    <3>6. chain[i].ok /\ e = M!PointAt(i) /\ PrimaryAt(i) = "replacement"
          /\ (s > 0 => ProfileAt(i, s) = "republish")
      BY <2>6, <3>1 DEF IsVerified
    <3>7. e = M!PointAt(i)'
      BY <3>5, <3>6 DEF M!PointAt
    <3> QED
      BY <3>4, <3>5, <3>6, <3>7 DEF IsVerified
  <2> QED
    BY <2>1, <2>6
<1>4. CASE Drops
  BY <1>4 DEF Drops
<1> QED
  BY <1>1, <1>2, <1>3, <1>4

\* What the chain does to a writer at rest.
LEMMA ChainMovesOn ==
  ASSUME ChainInv, NEW kinds \in SUBSET ForeignKinds, ChainNext(kinds), UNCHANGED sent
  PROVE  ChainInv' /\ UNCHANGED signed
<1>1. ChainTypeOK' /\ OwnAreSigned' /\ UNCHANGED signed
  BY EnvironmentKeepsType DEF ChainInv
<1>2. MinedOnce' /\ SafeOrder'
  BY ChainKeepsFacts, ChainKeepsSafeOrder DEF ChainInv
<1> QED
  BY <1>1, <1>2 DEF ChainInv

\* The chain knows no journal.
LEMMA MigrationEnvironmentKeeps ==
  ASSUME MigrationState, M!Environment
  PROVE  MigrationState'
<1> DEFINE kinds == {"payer", "safe", "rotate", "edit"}
<1>1. kinds \in SUBSET ForeignKinds /\ ChainNext(kinds)
  BY MigrationMovesTheChain DEF M!Environment, ForeignKinds, ForeignSafe
<1>2. UNCHANGED <<config, migration, migrationDurable, migrating, sent>>
  BY DEF M!Environment, M!Alone, M!ownVars
<1> HIDE DEF kinds
<1>3. ChainInv' /\ UNCHANGED signed
  BY <1>1, <1>2, ChainMovesOn DEF MigrationState
<1>4. reorgs' = 0 => reorgs = 0 /\ \A s, h, e : IsVerified(s, h, e) => IsVerified(s, h, e)'
  BY <1>1, ChainKeepsVerified DEF MigrationState, ChainInv
<1>5. config' \in M!Configs /\ M!TypeOK'
  BY <1>2 DEF MigrationState, MigrationInv, M!TypeOK
<1>6. Executed(migration)' /\ Executed(migrationDurable)' /\ Executed(migrating.mem)'
  BY <1>2, <1>3 DEF MigrationState, MigrationInv, Executed
<1>7. Verified(migration)' /\ Verified(migrationDurable)' /\ Verified(migrating.mem)'
  BY <1>2, <1>4 DEF MigrationState, MigrationInv, Verified, M!Done
<1>8. MigrationWalks(migrating)' /\ MigrationSynced(migrating)' /\ MigrationOrdered(migrating)'
  BY <1>2 DEF MigrationState, MigrationInv, MigrationWalks, MigrationSynced, MigrationOrdered,
     Earlier, M!Done
<1>9. HandOverIsJournaled'
  BY <1>2, <1>3 DEF MigrationState, MigrationInv, HandOverIsJournaled, Earlier, M!Done
<1> QED
  BY <1>3, <1>5, <1>6, <1>7, <1>8, <1>9 DEF MigrationState, MigrationInv

\* Every step of a migration keeps its invariant.
LEMMA MigrationNextKeeps ==
  ASSUME MigrationState, M!Next \/ UNCHANGED <<chainVars, migrationVars, sent>>
  PROVE  MigrationState'
<1>1. CASE \E kind \in M!Commands : M!Begin(kind)
  BY <1>1, CommandBegins
<1>2. CASE M!Progress
  BY <1>2, ChecksKeep, CommandSends, EffectIsReadKeeps, ReservesKeeps, ApprovesKeeps,
     ExecutesKeeps, CommandSigns, CommandSaves
  DEF M!Progress
<1>3. CASE \/ M!Breaks \/ M!PowerFails \/ M!NewProcess \/ M!Environment
           \/ UNCHANGED <<chainVars, migrationVars, sent>>
  BY <1>3, CommandBreaks, CommandRests, MigrationEnvironmentKeeps
<1> QED
  BY <1>1, <1>2, <1>3 DEF M!Next

--------------------------------------------------------------------------------
(* The writers together.                                                   *)

\* No call of a migration is signed.
NoHandOver == \A h \in 1..Len(signed) : signed[h].call \notin MigrationCalls

\* Every writer but the one of the chain's last signature leaves what is signed alone; and
\* only a migration signs the calls of one.
Signing(calls) ==
  \/ UNCHANGED signed
  \/ \E t : signed' = Append(signed, t) /\ t.call \in calls

\* So no such call comes from the others.
LEMMA NoHandOverStays ==
  ASSUME ChainTypeOK, NoHandOver, NEW calls, calls \cap MigrationCalls = {}, Signing(calls)
  PROVE  NoHandOver'
<1>1. CASE UNCHANGED signed
  BY <1>1 DEF NoHandOver
<1>2. CASE \E t : signed' = Append(signed, t) /\ t.call \in calls
  <2>1. PICK t : signed' = Append(signed, t) /\ t.call \in calls
    BY <1>2
  <2>2. /\ Len(signed) \in Nat /\ Len(signed') = Len(signed) + 1
        /\ signed'[Len(signed) + 1] = t
        /\ \A h \in 1..Len(signed) : signed'[h] = signed[h]
    BY <2>1, AppendProperties, LenProperties DEF ChainTypeOK
  <2>3. t.call \notin MigrationCalls
    BY <2>1
  <2>4. \A h \in 1..Len(signed') : h \in 1..Len(signed) \/ h = Len(signed) + 1
    BY <2>2
  <2> QED
    BY <2>2, <2>3, <2>4 DEF NoHandOver
<1> QED
  BY <1>1, <1>2 DEF Signing

\* Without such a call there is no order to keep.
LEMMA NoHandOverIsOrdered ==
  ASSUME NoHandOver, OwnAreSigned
  PROVE  SafeOrder
  BY DEF NoHandOver, OwnAreSigned, SafeOrder, Own, MigrationCalls

\* What an onboarding signs.
LEMMA OnboardingSigns ==
  ASSUME ChainTypeOK, OwnAreSigned, [Next]_vars
  PROVE  Signing({"deploy", "register", "publish"})
<1>1. CASE \/ \E kind \in Kinds : Begin(kind)
           \/ Progress /\ ~Sign
           \/ Breaks \/ PowerFails \/ NewProcess \/ UNCHANGED vars
  <2>1. UNCHANGED signed
    BY <1>1 DEF Begin, Progress, Resyncs, Observe, Absent, Sends, Settles, ReadEffect,
       MakesProfile, RunPrepare, RunResume, RunNext, RunApprove, RunExecute, Saved, Quiet,
       Breaks, PowerFails, NewProcess, vars, chainVars
  <2> QED
    BY <2>1 DEF Signing
<1>2. CASE Sign
  <2>1. CallOf(op.at) \in {"deploy", "register", "publish"}
    BY DEF CallOf
  <2>2. \/ UNCHANGED signed
        \/ \E t : signed' = Append(signed, t) /\ t.call = CallOf(op.at)
    BY <1>2 DEF Sign
  <2> QED
    BY <2>1, <2>2 DEF Signing
<1>3. CASE Environment
  <2>1. UNCHANGED signed
    BY <1>3, EnvironmentKeepsType DEF Environment, ForeignKinds, ForeignSafe
  <2> QED
    BY <2>1 DEF Signing
<1> QED
  BY <1>1, <1>2, <1>3 DEF Next

\* What a feedback signs.
LEMMA FeedbackSigns ==
  ASSUME ChainTypeOK, OwnAreSigned, F!Next
  PROVE  Signing({"feedback", "revoke"})
<1>1. CASE F!PreparePublication \/ F!PrepareRevocation
  <2>1. PICK call \in {"feedback", "revoke"} : F!Signs(call)
    BY <1>1 DEF F!PreparePublication, F!PrepareRevocation
  <2>2. \E t : signed' = Append(signed, t) /\ t.call = call
    BY <2>1 DEF F!Signs
  <2> QED
    BY <2>2 DEF Signing
<1>2. CASE \E p \in Submitters : F!Steps(p) \/ \E call \in F!Operations : F!Submit(p, call)
  <2>1. UNCHANGED signed
    BY <1>2 DEF F!Steps, F!FindsReceipt, F!Consumed, F!Competes, F!LooksUp, F!Rechecks,
       F!Sends, F!Polls, F!LastReceipt, F!LastNonce, F!Submit, F!Quiet, F!chainVars
  <2> QED
    BY <2>1 DEF Signing
<1>3. CASE F!ChainNext({"payer", "registry"})
  <2>1. ChainNext({"payer", "registry"})
    BY <1>3, FeedbackMovesTheChain
  <2>2. UNCHANGED signed
    BY <2>1, EnvironmentKeepsType DEF ForeignKinds, ForeignSafe
  <2> QED
    BY <2>2 DEF Signing
<1> QED
  BY <1>1, <1>2, <1>3 DEF F!Next

\* What a migration does to the chain and to what was sent.
LEMMA MigrationTouches ==
  ASSUME MigrationState,
         M!Next \/ UNCHANGED <<chainVars, migrationVars, sent, submitted, breaks>>,
         submitted \in SUBSET sent, breaks \in Nat
  PROVE  /\ M!Environment \/ UNCHANGED <<chain, reorgs>>
         /\ \A h \in 1..Len(signed) : h \in 1..Len(signed') /\ signed'[h] = signed[h]
         /\ \/ UNCHANGED sent
            \/ /\ UNCHANGED signed
               /\ \E h : sent' = sent \cup {h} /\ signed[h].call \in MigrationCalls
         /\ submitted' \in SUBSET sent' /\ breaks' \in Nat
<1>0. /\ signed \in Seq(Transactions) /\ Len(signed) \in Nat
      /\ ChainTypeOK /\ OwnAreSigned
  BY LenProperties DEF MigrationState, ChainInv, ChainTypeOK
<1>1. CASE \/ \E kind \in M!Commands : M!Begin(kind)
           \/ M!Progress /\ ~M!Sign /\ ~M!Sends
           \/ M!Breaks \/ M!PowerFails \/ M!NewProcess
           \/ UNCHANGED <<chainVars, migrationVars, sent, submitted, breaks>>
  <2>1. /\ UNCHANGED <<signed, chain, reorgs, sent>>
        /\ submitted' \in {submitted, {}} /\ breaks' \in {breaks, breaks + 1}
    BY <1>1 DEF M!Begin, M!Progress, M!Validates, M!Observe, M!Absent, M!ChecksOwners,
       M!ChecksProfiles, M!Settles, M!ReadEffect, M!LastOwners, M!LastProfiles,
       M!ChecksNonces, M!Reports, M!Reserves, M!Prepares, M!Approves, M!Executes, M!Saved,
       M!Quiet, M!Breaks, M!PowerFails, M!NewProcess, M!chainVars, chainVars
  <2> QED
    BY <2>1
<1>2. CASE M!Sign
  <2>1. UNCHANGED <<chain, reorgs, sent, submitted, breaks>>
    BY <1>2 DEF M!Sign
  <2>2. UNCHANGED signed \/ \E t : signed' = Append(signed, t)
    BY <1>2 DEF M!Sign
  <2>3. \A h \in 1..Len(signed) : h \in 1..Len(signed') /\ signed'[h] = signed[h]
    <3>1. CASE UNCHANGED signed
      BY <3>1
    <3>2. ASSUME NEW t, signed' = Append(signed, t)
          PROVE  \A h \in 1..Len(signed) : h \in 1..Len(signed') /\ signed'[h] = signed[h]
      <4>1. Len(signed') = Len(signed) + 1 /\ \A h \in 1..Len(signed) : signed'[h] = signed[h]
        BY <1>0, <3>2, AppendProperties
      <4> QED
        BY <1>0, <4>1
    <3> QED
      BY <2>2, <3>1, <3>2
  <2> QED
    BY <2>1, <2>3
<1>3. CASE M!Sends
  <2>1. UNCHANGED <<signed, chain, reorgs, breaks>> /\ migrating.pc = "send"
    BY <1>3 DEF M!Sends
  <2>2. \/ UNCHANGED <<sent, submitted>>
        \/ sent' = sent \cup {M!Hash} /\ submitted' = submitted \cup {M!Hash}
    BY <1>3 DEF M!Sends
  <2>3. signed[M!Hash].call \in MigrationCalls
    <3>1. /\ migrating.mem # NoJournal /\ migrating.at \in M!Steps /\ Executed(migrating.mem)
          /\ migrating.mem[migrating.at].execution # 0
      BY <2>1, CommandFacts DEF MigrationWalks, Acting
    <3>2. signed[M!Hash].call = M!CallOf(migrating.at)
      BY <3>1 DEF Executed, M!Hash
    <3> QED
      BY <3>2 DEF M!CallOf, MigrationCalls
  <2> QED
    BY <2>1, <2>2, <2>3
<1>4. CASE M!Environment
  <2>1. UNCHANGED <<sent, submitted, breaks>>
    BY <1>4 DEF M!Environment, M!Alone
  <2>2. UNCHANGED signed
    <3>1. ChainNext({"payer", "safe", "rotate", "edit"})
      BY <1>4, MigrationMovesTheChain DEF M!Environment
    <3> QED
      BY <1>0, <3>1, EnvironmentKeepsType DEF ForeignKinds, ForeignSafe
  <2> QED
    BY <1>4, <2>1, <2>2
<1> QED
  BY <1>1, <1>2, <1>3, <1>4 DEF M!Next, M!Progress

\* What stays of an onboarding while a migration writes.
OnboardingKept == TypeOK /\ Facts(disk) /\ SentIsJournaled

\* A migration leaves it as it is, and what it sends is its own.
LEMMA MigrationKeepsOnboarding ==
  ASSUME MigrationState, OnboardingKept, UNCHANGED onboardingVars,
         M!Next \/ UNCHANGED <<chainVars, migrationVars, sent, submitted, breaks>>
  PROVE  MigrationState' /\ OnboardingKept'
<1>1. MigrationState'
  <2>1. M!Next \/ UNCHANGED <<chainVars, migrationVars, sent>>
    OBVIOUS
  <2> QED
    BY <2>1, MigrationNextKeeps
<1>2. UNCHANGED <<disk, durable, op>>
  BY DEF onboardingVars
<1>3. submitted \in SUBSET sent /\ breaks \in Nat
  BY DEF OnboardingKept, TypeOK
<1>4. /\ M!Environment \/ UNCHANGED <<chain, reorgs>>
      /\ \A h \in 1..Len(signed) : h \in 1..Len(signed') /\ signed'[h] = signed[h]
      /\ \/ UNCHANGED sent
         \/ /\ UNCHANGED signed
            /\ \E h : sent' = sent \cup {h} /\ signed[h].call \in MigrationCalls
      /\ submitted' \in SUBSET sent' /\ breaks' \in Nat
  BY <1>3, MigrationTouches
<1>5. TypeOK'
  BY <1>1, <1>2, <1>4 DEF OnboardingKept, TypeOK, MigrationState, ChainInv
<1>6. Facts(disk)'
  <2>1. CASE UNCHANGED <<chain, reorgs>>
    BY <1>2, <2>1 DEF OnboardingKept, Facts, IsFact, Mined, BlockOf, EffectOf, Done
  <2>2. CASE M!Environment
    <3>1. reorgs' = 0 => reorgs = 0 /\ \A h, e : IsFact(h, e) => IsFact(h, e)'
      <4>1. ChainNext({"payer", "safe", "rotate", "edit"})
        BY <2>2, MigrationMovesTheChain DEF M!Environment
      <4>2. {"payer", "safe", "rotate", "edit"} \in SUBSET ForeignKinds
        BY DEF ForeignKinds, ForeignSafe
      <4> QED
        BY <4>1, <4>2, ChainKeepsFacts DEF MigrationState, ChainInv
    <3> QED
      BY <1>2, <3>1 DEF OnboardingKept, Facts, Done
  <2> QED
    BY <1>4, <2>1, <2>2
<1>7. SentIsJournaled'
  <2> SUFFICES ASSUME NEW h \in sent', signed'[h].call \in {"deploy", "register", "publish"}
               PROVE  /\ durable # NoJournal
                      /\ \E s \in Steps : /\ durable.step[s].execution = h
                                           /\ \A p \in 0..(s - 1) : Done(durable, p)
    BY <1>2 DEF SentIsJournaled, Done
  <2>1. h \in sent /\ signed'[h] = signed[h]
    <3>1. CASE UNCHANGED sent
      BY <1>4, <3>1 DEF MigrationState, ChainInv
    <3>2. CASE /\ UNCHANGED signed
               /\ \E g : sent' = sent \cup {g} /\ signed[g].call \in MigrationCalls
      BY <3>2 DEF MigrationCalls
    <3> QED
      BY <1>4, <3>1, <3>2
  <2> QED
    BY <2>1 DEF OnboardingKept, SentIsJournaled
<1> QED
  BY <1>1, <1>5, <1>6, <1>7 DEF OnboardingKept

\* The trusted configuration is where the chain is, and nothing of the migration is.
LEMMA MigrationStarts ==
  ASSUME ChainInv, NoHandOver,
         migration = NoJournal, migrationDurable = NoJournal, migrating = M!Idle,
         config = [basis |-> M!HeadPoint, safeNonce |-> M!SafeNonce,
                   payerNonce |-> M!PendingNonce]
  PROVE  MigrationState
<1>1. config \in M!Configs
  <2>1. M!HeadPoint \in M!Points
    BY PointsAreTyped DEF ChainInv
  <2>2. M!SafeNonce \in Nat /\ M!PendingNonce \in Nat
    BY CountsAreNumbers, PendingIsNumber, MigrationSeesTheChain DEF ChainInv
  <2> QED
    BY <2>1, <2>2 DEF M!Configs
<1>2. migrating \in M!Transitions /\ migrating.pc = "idle" /\ migrating.mem = NoJournal
  BY MigrationBegins
<1>3. M!TypeOK
  BY <1>1, <1>2 DEF M!TypeOK
<1>4. /\ Executed(migration) /\ Executed(migrationDurable) /\ Executed(migrating.mem)
      /\ Verified(migration) /\ Verified(migrationDurable) /\ Verified(migrating.mem)
  BY <1>2 DEF Executed, Verified
<1>5. MigrationWalks(migrating) /\ MigrationSynced(migrating) /\ MigrationOrdered(migrating)
  BY <1>2 DEF MigrationWalks, MigrationSynced, MigrationOrdered, MigrationGrown, Acting
<1>6. HandOverIsJournaled
  BY DEF HandOverIsJournaled, NoHandOver, ChainInv
<1> QED
  BY <1>1, <1>3, <1>4, <1>5, <1>6 DEF MigrationState, MigrationInv

\* So it is when the onboarding hands over.
LEMMA HandOverKeeps ==
  ASSUME TypeOK, IInv, FInv, NoHandOver, M!OwnInit, HandOver
  PROVE  MigrationState' /\ OnboardingKept'
<1>1. /\ UNCHANGED <<chainVars, disk, durable, op, sent, submitted, breaks>>
      /\ UNCHANGED <<migration, migrationDurable, migrating>>
      /\ config' = [basis |-> M!HeadPoint, safeNonce |-> M!SafeNonce,
                    payerNonce |-> M!PendingNonce]
  BY DEF HandOver, M!Configure, onboardingVars, M!chainVars, chainVars
<1>2. TypeOK' /\ Facts(disk)' /\ SentIsJournaled'
  <2>1. UNCHANGED <<signed, wire, mempool, chain, foreign, reorgs, losses>>
    BY <1>1 DEF chainVars
  <2>2. TypeOK'
    BY <1>1, <2>1 DEF TypeOK, ChainTypeOK
  <2>3. Facts(disk)'
    BY <1>1, <2>1 DEF FInv, Facts, IsFact, Mined, BlockOf, EffectOf, Done
  <2>4. SentIsJournaled
    BY DEF IInv, AllSent, Before, SentIsJournaled
  <2>5. SentIsJournaled'
    BY <1>1, <2>1, <2>4 DEF SentIsJournaled, Done
  <2> QED
    BY <2>2, <2>3, <2>5
<1>3. ChainInv' /\ NoHandOver'
  <2>1. ChainTypeOK /\ OwnAreSigned /\ MinedOnce /\ sent \in SUBSET (1..Len(signed))
    BY DEF TypeOK, IInv, FInv
  <2>2. ChainTypeOK' /\ OwnAreSigned' /\ MinedOnce' /\ sent' \in SUBSET (1..Len(signed'))
    BY <1>1, <2>1 DEF ChainTypeOK, OwnAreSigned, MinedOnce, OneBlockEach, Mined, chainVars
  <2>3. NoHandOver'
    BY <1>1 DEF NoHandOver, chainVars
  <2>4. SafeOrder'
    BY <2>2, <2>3 DEF NoHandOver, OwnAreSigned, SafeOrder, Own, MigrationCalls
  <2> QED
    BY <2>2, <2>3, <2>4 DEF ChainInv
<1>4. config' \in M!Configs
  <2>1. ChainTypeOK
    BY DEF TypeOK
  <2>2. M!HeadPoint \in M!Points
    BY <2>1, PointsAreTyped
  <2>3. M!SafeNonce \in Nat /\ M!PendingNonce \in Nat
    BY <2>1, CountsAreNumbers, PendingIsNumber, MigrationSeesTheChain
  <2> QED
    BY <1>1, <2>2, <2>3 DEF M!Configs
<1>5. migration' = NoJournal /\ migrationDurable' = NoJournal /\ migrating' = M!Idle
  BY <1>1 DEF M!OwnInit
<1>6. migrating' \in M!Transitions /\ migrating'.pc = "idle" /\ migrating'.mem = NoJournal
  BY <1>5, MigrationBegins
<1>7. M!TypeOK'
  BY <1>4, <1>5, <1>6 DEF M!TypeOK
<1>8. /\ Executed(migration)' /\ Executed(migrationDurable)' /\ Executed(migrating.mem)'
      /\ Verified(migration)' /\ Verified(migrationDurable)' /\ Verified(migrating.mem)'
  BY <1>5, <1>6 DEF Executed, Verified
<1>9. MigrationWalks(migrating)' /\ MigrationSynced(migrating)' /\ MigrationOrdered(migrating)'
  BY <1>5, <1>6 DEF MigrationWalks, MigrationSynced, MigrationOrdered, MigrationGrown, Acting
<1>10. HandOverIsJournaled'
  BY <1>3 DEF HandOverIsJournaled, NoHandOver, ChainInv
<1> QED
  BY <1>2, <1>3, <1>4, <1>7, <1>8, <1>9, <1>10
  DEF MigrationState, MigrationInv, OnboardingKept

\* A chain on which onboarding is complete is one.
LEMMA HistoryIsTyped ==
  ASSUME NEW a \in Approvals
  PROVE  /\ DOMAIN History = 1..(LastStep + 1) /\ History \in Seq(Transactions)
         /\ [n \in DOMAIN History |-> HistoryBlock(n)] \in Seq(Blocks)
         /\ \A n \in DOMAIN History : History[n].call \in {"deploy", "register", "publish"}
         /\ HistoryJournal(a) \in Journals
         /\ \A s \in Steps :
              /\ s + 1 \in DOMAIN History
              /\ HistoryJournal(a).step[s].execution = s + 1
              /\ HistoryJournal(a).step[s].effect =
                   [height |-> s + 1, fork |-> 0, agent |-> StepAgent(s)]
              /\ Done(HistoryJournal(a), s)
<1> DEFINE D == 1..(LastStep + 1)
<1>1. LastStep \in Nat /\ \A n \in D : n - 1 \in Steps /\ n \in Nat
  BY StepsAreNumbers
<1>2. \A s \in Steps : /\ s \in Nat /\ s + 1 \in D /\ s + 1 \in Nat
                       /\ StepAgent(s) \in Nat
  <2> TAKE s \in Steps
  <2>1. s \in Nat /\ s + 1 \in D /\ s + 1 \in Nat
    BY StepsAreNumbers
  <2>2. ServiceOf(s) \in Nat
    BY <2>1 DEF ServiceOf
  <2> QED
    BY <2>1, <2>2 DEF StepAgent
<1>3. \A s : CallOf(s) \in {"deploy", "register", "publish"}
  BY DEF CallOf
<1>4. DOMAIN History = D
  BY DEF History
<1>5. \A n \in D : /\ History[n].call = CallOf(n - 1)
                   /\ History[n] \in Transactions
  <2> TAKE n \in D
  <2> DEFINE sn == IF n = 1 THEN 0 ELSE n - 2
             ag == IF CallOf(n - 1) = "publish" THEN StepAgent(n - 1) ELSE 0
  <2>1. n - 1 \in Steps /\ n - 1 \in Nat /\ StepAgent(n - 1) \in Nat
    BY <1>1, <1>2
  <2>2. sn \in Nat
    BY <1>1
  <2>3. ag \in Nat
    BY <2>1
  <2>4. History[n] = [call |-> CallOf(n - 1), payerNonce |-> n - 1, safeNonce |-> sn,
                      agent |-> ag]
    BY DEF History
  <2>5. CallOf(n - 1) \in SafeCalls \cup {"deploy", "feedback", "revoke"}
    BY <1>3 DEF SafeCalls
  <2> HIDE DEF sn, ag
  <2> QED
    BY <2>1, <2>2, <2>3, <2>4, <2>5 DEF Transactions
<1>6. History \in Seq(Transactions)
  <2>1. History \in [1..(LastStep + 1) -> Transactions]
    BY <1>4, <1>5 DEF History
  <2>2. LastStep + 1 \in Nat
    BY <1>1
  <2> QED
    BY <2>1, <2>2, SeqDef
<1>7. [n \in DOMAIN History |-> HistoryBlock(n)] \in Seq(Blocks)
  <2>1. \A n \in D : HistoryBlock(n) \in Blocks
    BY <1>1, <1>2 DEF HistoryBlock, Blocks
  <2>2. [n \in DOMAIN History |-> HistoryBlock(n)] \in [1..(LastStep + 1) -> Blocks]
    BY <1>4, <2>1
  <2>3. LastStep + 1 \in Nat
    BY <1>1
  <2> QED
    BY <2>2, <2>3, SeqDef
<1> DEFINE E(s) == [height |-> s + 1, fork |-> 0, agent |-> StepAgent(s)]
           A(s) == [prepared |-> TRUE, approved |-> IF s = 0 THEN NoApproval ELSE a,
                    execution |-> s + 1, effect |-> E(s)]
<1>8. \A s \in Steps : E(s) \in Effects
  BY <1>2 DEF Effects
<1>9. \A s \in Steps : A(s) \in Actions /\ A(s).effect = E(s) /\ A(s).execution = s + 1
  BY <1>2, <1>8 DEF Actions
<1>10. HistoryJournal(a) = [step |-> [s \in Steps |-> A(s)],
                            profile |-> [i \in 1..Services |-> i]]
  BY DEF HistoryJournal
<1>11. HistoryJournal(a) \in Journals
  <2> HIDE DEF A
  <2>1. [s \in Steps |-> A(s)] \in [Steps -> Actions]
    BY <1>9
  <2>2. [i \in 1..Services |-> i] \in [1..Services -> Nat]
    OBVIOUS
  <2> QED
    BY <1>10, <2>1, <2>2 DEF Journals
<1>12. \A s \in Steps : HistoryJournal(a).step[s] = A(s)
  BY <1>10
<1>13. \A s \in Steps : /\ HistoryJournal(a).step[s].execution = s + 1
                        /\ HistoryJournal(a).step[s].effect = E(s)
                        /\ Done(HistoryJournal(a), s)
  <2> HIDE DEF A, E
  <2> QED
    BY <1>8, <1>9, <1>12, NoEffectAssumption DEF Done
<1> QED
  BY <1>2, <1>3, <1>4, <1>5, <1>6, <1>7, <1>11, <1>13

\* So a migration may start with it.
LEMMA OnboardedStarts ==
  ASSUME OnboardedInit
  PROVE  MigrationState /\ OnboardingKept
<1>1. PICK a \in Approvals : disk = HistoryJournal(a)
  BY DEF OnboardedInit
<1>2. /\ signed = History /\ chain = [n \in DOMAIN History |-> HistoryBlock(n)]
      /\ durable = disk /\ op = Idle /\ wire = {} /\ mempool = {}
      /\ foreign = 0 /\ reorgs = 0 /\ losses = 0
      /\ submitted = {} /\ sent = DOMAIN History /\ breaks = 0
      /\ config = [basis |-> M!HeadPoint, safeNonce |-> SafeNonce,
                   payerNonce |-> PendingNonce]
      /\ migration = NoJournal /\ migrationDurable = NoJournal /\ migrating = M!Idle
  BY DEF OnboardedInit
<1>3. /\ signed \in Seq(Transactions) /\ chain \in Seq(Blocks)
      /\ \A n \in DOMAIN History : signed[n].call \in {"deploy", "register", "publish"}
      /\ disk \in Journals
      /\ \A s \in Steps :
           /\ s + 1 \in DOMAIN History
           /\ disk.step[s].execution = s + 1
           /\ disk.step[s].effect = [height |-> s + 1, fork |-> 0, agent |-> StepAgent(s)]
           /\ Done(disk, s)
  BY <1>1, <1>2, HistoryIsTyped
<1>4. DOMAIN History = 1..(LastStep + 1) /\ DOMAIN History = 1..Len(signed)
  BY <1>1, <1>2, <1>3, HistoryIsTyped, LenProperties
<1>5. DOMAIN chain = DOMAIN History /\ \A n \in DOMAIN History : chain[n] = HistoryBlock(n)
  BY <1>2
<1>6. \A n \in DOMAIN History : /\ chain[n].kind = "own" /\ chain[n].by = n /\ chain[n].ok
                                /\ chain[n].agent = StepAgent(n - 1) /\ chain[n].fork = 0
  BY <1>5 DEF HistoryBlock
<1>7. ChainTypeOK
  BY <1>2, <1>3 DEF ChainTypeOK
<1>8. OwnAreSigned /\ MinedOnce
  <2>1. /\ DOMAIN chain = 1..Len(signed)
        /\ \A n \in DOMAIN chain : chain[n].kind = "own" /\ chain[n].by = n
    BY <1>4, <1>5, <1>6
  <2>2. OwnAreSigned
    BY <2>1 DEF OwnAreSigned
  <2>3. MinedOnce
    BY <1>2, <2>1 DEF MinedOnce, OneBlockEach, Mined
  <2> QED
    BY <2>2, <2>3
<1>9. NoHandOver
  BY <1>3, <1>4 DEF NoHandOver, MigrationCalls
<1>10. ChainInv
  BY <1>2, <1>4, <1>7, <1>8, <1>9, NoHandOverIsOrdered DEF ChainInv
<1>11. MigrationState
  BY <1>2, <1>9, <1>10, MigrationSeesTheChain, MigrationStarts
<1>12. TypeOK
  BY <1>2, <1>3, <1>4, <1>7, IdleIsTransition DEF TypeOK
<1>13. Facts(disk)
  <2> SUFFICES ASSUME NEW s \in Steps
               PROVE  IsFact(disk.step[s].execution, disk.step[s].effect)
    BY DEF Facts
  <2>1. PICK n \in DOMAIN History : n = s + 1
    BY <1>3
  <2>2. Mined(n)
    BY <1>5, <1>6 DEF Mined
  <2>3. BlockOf(n) = n
    BY <1>5, <1>6, <2>2, BlockOfMined
  <2>4. s \in Nat /\ n - 1 = s
    BY <2>1, StepsAreNumbers
  <2>5. EffectOf(n) = [height |-> n, fork |-> 0, agent |-> StepAgent(s)]
    BY <1>6, <2>3, <2>4 DEF EffectOf
  <2> QED
    BY <1>3, <1>6, <2>1, <2>2, <2>3, <2>5 DEF IsFact
<1>14. SentIsJournaled
  <2> SUFFICES ASSUME NEW h \in sent
               PROVE  /\ durable # NoJournal
                      /\ \E s \in Steps : /\ durable.step[s].execution = h
                                           /\ \A p \in 0..(s - 1) : Done(durable, p)
    BY DEF SentIsJournaled
  <2>1. h \in 1..(LastStep + 1)
    BY <1>2, <1>4
  <2>2. h - 1 \in Steps /\ (h - 1) + 1 = h
    BY <2>1, StepsAreNumbers
  <2>3. \A p \in 0..((h - 1) - 1) : p \in Steps
    BY <2>2, StepsAreNumbers
  <2>4. durable.step[h - 1].execution = h
    BY <1>2, <1>3, <2>2
  <2>5. \A p \in 0..((h - 1) - 1) : Done(durable, p)
    BY <1>2, <1>3, <2>3
  <2>6. durable # NoJournal
    BY <1>2, <1>3, NoJournalAssumption
  <2> QED
    BY <2>2, <2>4, <2>5, <2>6
<1> QED
  BY <1>11, <1>12, <1>13, <1>14 DEF OnboardingKept

--------------------------------------------------------------------------------
(* The theorems.                                                           *)

\* What a feedback leaves alone.
Untouched ==
  /\ disk = NoJournal /\ durable = NoJournal /\ op = Idle
  /\ submitted = {} /\ sent = {} /\ breaks = 0

WritersInv ==
  /\ writer \in {"onboarding", "migration", "feedback"}
  /\ writer = "onboarding" => TypeOK /\ IInv /\ FInv /\ M!OwnInit /\ NoHandOver
  /\ writer = "migration"  => MigrationState /\ OnboardingKept
  /\ writer = "feedback"   => Untouched /\ M!OwnInit /\ NoHandOver

\* It holds at first.
LEMMA WritersStart ==
  ASSUME WritersInit
  PROVE  WritersInv /\ FeedbackInv
<1>1. FeedbackInv
  BY ReviewStarts
<1>2. writer \in {"onboarding", "migration", "feedback"}
  BY WritersAssumption DEF WritersInit
<1>3. CASE writer = "migration"
  <2>1. OnboardedInit
    BY <1>3 DEF WritersInit
  <2>2. MigrationState /\ OnboardingKept
    BY <2>1, OnboardedStarts
  <2>3. writer # "onboarding" /\ writer # "feedback"
    BY <1>3
  <2> QED
    BY <1>1, <1>2, <2>2, <2>3 DEF WritersInv
<1>4. CASE writer # "migration"
  <2>1. Init /\ M!OwnInit
    BY <1>4 DEF WritersInit
  <2>2. NoHandOver
    BY <2>1, EmptySeq DEF Init, ChainInit, NoHandOver
  <2>3. TypeOK /\ IInv /\ FInv
    BY <2>1, InitEstablishes, InitHasFacts
  <2>4. Untouched
    BY <2>1 DEF Init, Untouched
  <2>5. M!OwnInit
    BY <2>1
  <2> QED
    BY <1>1, <1>2, <1>4, <2>2, <2>3, <2>4, <2>5 DEF WritersInv
<1> QED
  BY <1>3, <1>4

\* Whoever writes keeps it.
LEMMA WritersKeep ==
  ASSUME WritersInv, FeedbackInv, FeedbackInv', [WritersNext]_writerVars
  PROVE  WritersInv'
<1>1. CASE Onboards(Next)
  <2>1. /\ writer = "onboarding" /\ writer' = writer /\ Next
        /\ TypeOK /\ IInv /\ FInv /\ M!OwnInit /\ NoHandOver
    BY <1>1 DEF Onboards, WritersInv
  <2>2. TypeOK' /\ IInv' /\ FInv'
    BY <2>1, NextKeeps, NextKeepsFacts
  <2>3. NoHandOver'
    <3>1. Signing({"deploy", "register", "publish"})
      BY <2>1, OnboardingSigns DEF TypeOK, IInv
    <3>2. {"deploy", "register", "publish"} \cap MigrationCalls = {}
      BY DEF MigrationCalls
    <3> QED
      BY <2>1, <3>1, <3>2, NoHandOverStays DEF TypeOK
  <2>4. M!OwnInit'
    BY <1>1, <2>1 DEF Onboards, migrationVars, M!OwnInit
  <2> QED
    BY <2>1, <2>2, <2>3, <2>4 DEF WritersInv
<1>2. CASE Migrates(M!Next)
  <2>1. /\ writer = "migration" /\ writer' = writer /\ M!Next /\ UNCHANGED onboardingVars
        /\ MigrationState /\ OnboardingKept
    BY <1>2 DEF Migrates, WritersInv
  <2>2. MigrationState' /\ OnboardingKept'
    BY <2>1, MigrationKeepsOnboarding
  <2> QED
    BY <2>1, <2>2 DEF WritersInv
<1>3. CASE Reviews(F!Next)
  <2>1. /\ writer = "feedback" /\ writer' = writer /\ F!Next
        /\ UNCHANGED <<onboardingVars, migrationVars, submitted, sent, breaks>>
        /\ Untouched /\ M!OwnInit /\ NoHandOver
    BY <1>3 DEF Reviews, WritersInv
  <2>2. ChainTypeOK /\ OwnAreSigned
    BY <2>1 DEF FeedbackInv, ReviewInv
  <2>3. NoHandOver'
    <3>1. Signing({"feedback", "revoke"})
      BY <2>1, <2>2, FeedbackSigns
    <3>2. {"feedback", "revoke"} \cap MigrationCalls = {}
      BY DEF MigrationCalls
    <3> QED
      BY <2>1, <2>2, <3>1, <3>2, NoHandOverStays
  <2>4. Untouched' /\ M!OwnInit'
    BY <2>1 DEF Untouched, M!OwnInit, onboardingVars, migrationVars
  <2> QED
    BY <2>1, <2>3, <2>4 DEF WritersInv
<1>4. CASE HandOver
  <2>1. writer = "onboarding" /\ writer' = "migration"
    BY <1>4 DEF HandOver
  <2>2. MigrationState' /\ OnboardingKept'
    BY <1>4, <2>1, HandOverKeeps DEF WritersInv
  <2> QED
    BY <2>1, <2>2 DEF WritersInv
<1>5. CASE UNCHANGED writerVars
  <2>1. UNCHANGED <<chainVars, disk, durable, op, submitted, sent, breaks, writer,
                    migrationVars, vars, onboardingVars>>
    BY <1>5 DEF writerVars, vars, onboardingVars
  <2>2. CASE writer = "onboarding"
    <3>1. TypeOK' /\ IInv' /\ FInv'
      BY <2>1, <2>2, NextKeeps, NextKeepsFacts DEF WritersInv
    <3>2. M!OwnInit' /\ NoHandOver'
      BY <2>1, <2>2 DEF WritersInv, M!OwnInit, NoHandOver, migrationVars, chainVars
    <3> QED
      BY <2>1, <2>2, <3>1, <3>2 DEF WritersInv
  <2>3. CASE writer = "migration"
    <3>1. MigrationState' /\ OnboardingKept'
      BY <2>1, <2>3, MigrationKeepsOnboarding DEF WritersInv
    <3> QED
      BY <2>1, <2>3, <3>1 DEF WritersInv
  <2>4. CASE writer = "feedback"
    <3>1. Untouched' /\ M!OwnInit' /\ NoHandOver'
      BY <2>1, <2>4 DEF WritersInv, Untouched, M!OwnInit, NoHandOver, migrationVars, chainVars
    <3> QED
      BY <2>1, <2>4, <3>1 DEF WritersInv
  <2> QED
    BY <2>2, <2>3, <2>4 DEF WritersInv
<1> QED
  BY <1>1, <1>2, <1>3, <1>4, <1>5 DEF WritersNext

\* The invariant of the writers holds of every behaviour.
THEOREM WritersInvariance == WritersSpec => []WritersInv
<1>1. WritersInit => WritersInv
  BY WritersStart
<1>2. WritersInv /\ FeedbackInv /\ FeedbackInv' /\ [WritersNext]_writerVars => WritersInv'
  BY WritersKeep
<1> QED
  BY <1>1, <1>2, FeedbackInvariance, PTL DEF WritersSpec

\* Without a hand-over nothing of a migration is sent or on the chain.
LEMMA NothingHandedOver ==
  ASSUME ChainTypeOK, OwnAreSigned, NoHandOver, sent \in SUBSET (1..Len(signed))
  PROVE  RotatesThenRepublishes
<1>1. \A h \in sent : ~M!OwnCall(h)
  BY DEF NoHandOver, MigrationCalls, M!OwnCall
<1>2. \A i \in DOMAIN chain : ~Own(chain[i], "republish")
  BY DEF Own, OwnAreSigned, NoHandOver, MigrationCalls
<1>3. \A i \in DOMAIN chain : ~M!Own(chain[i], "republish")
  BY <1>2 DEF M!Own, Own
<1> QED
  BY <1>1, <1>3 DEF RotatesThenRepublishes, M!RotatesThenRepublishes

\* RotatesThenRepublishes, the order of a hand-over (migration.ts 108-113 and 171-214):
\* whatever is lost, broken off or written by others, nothing of a migration is sent before
\* it and all that precedes it are on disk, and while no block is dropped no profile is
\* republished but by the new owner.
THEOREM RotatesThenRepublishesHolds == WritersSpec => []RotatesThenRepublishes
<1>1. WritersInv /\ FeedbackInv => RotatesThenRepublishes
  <2> SUFFICES ASSUME WritersInv, FeedbackInv PROVE RotatesThenRepublishes
    OBVIOUS
  <2>1. CASE writer = "onboarding"
    <3>1. ChainTypeOK /\ OwnAreSigned /\ NoHandOver /\ sent \in SUBSET (1..Len(signed))
      BY <2>1 DEF WritersInv, TypeOK, IInv
    <3> QED
      BY <3>1, NothingHandedOver
  <2>2. CASE writer = "feedback"
    <3>1. NoHandOver /\ sent = {}
      BY <2>2 DEF WritersInv, Untouched
    <3>2. ChainTypeOK /\ OwnAreSigned
      BY <2>2 DEF FeedbackInv, ReviewInv
    <3> QED
      BY <3>1, <3>2, NothingHandedOver
  <2>3. CASE writer = "migration"
    <3>1. HandOverIsJournaled /\ SafeOrder
      BY <2>3 DEF WritersInv, MigrationState, MigrationInv, ChainInv
    <3>2. \A h \in sent : M!OwnCall(h) =>
            /\ migrationDurable # NoJournal
            /\ \E s \in M!Steps : /\ migrationDurable[s].execution = h
                                  /\ \A p \in 0..(s - 1) : M!Done(migrationDurable, p)
      BY <3>1 DEF HandOverIsJournaled, MigrationCalls, M!OwnCall, Earlier
    <3>3. reorgs = 0 => \A i \in DOMAIN chain :
            M!Own(chain[i], "republish") => M!PrimaryAt(i) = "replacement"
      <4>1. \A i \in DOMAIN chain : M!Own(chain[i], "republish") = Own(chain[i], "republish")
        BY DEF M!Own, Own
      <4> QED
        BY <3>1, <4>1, MigrationSeesTheChain DEF SafeOrder
    <3> QED
      BY <3>2, <3>3 DEF RotatesThenRepublishes, M!RotatesThenRepublishes
  <2> QED
    BY <2>1, <2>2, <2>3 DEF WritersInv
<1> QED
  BY <1>1, WritersInvariance, FeedbackInvariance, PTL

\* RecordsAreFacts, "nonce movement is never success evidence" (onboarding.ts:200) for both
\* journals: through crashes, lost requests and foreign uses of the nonces, while no block
\* is dropped, what either of them records as done has its transaction, its block and the
\* owner, profile or agent that block left.
THEOREM RecordsAreFactsHolds == WritersSpec => []RecordsAreFacts
<1>1. WritersInv => EffectsAreFacts
  <2> SUFFICES ASSUME WritersInv PROVE EffectsAreFacts
    OBVIOUS
  <2>1. CASE writer = "feedback"
    <3>1. disk = NoJournal
      BY <2>1 DEF WritersInv, Untouched
    <3> QED
      BY <3>1 DEF EffectsAreFacts
  <2>2. CASE writer # "feedback"
    <3>1. Facts(disk)
      BY <2>2 DEF WritersInv, FInv, OnboardingKept
    <3> QED
      BY <3>1 DEF Facts, IsFact, EffectsAreFacts
  <2> QED
    BY <2>1, <2>2
<1>2. WritersInv => M!VerifiedIsFact
  <2> SUFFICES ASSUME WritersInv PROVE M!VerifiedIsFact
    OBVIOUS
  <2>1. CASE writer = "migration"
    <3>1. Verified(migration)
      BY <2>1 DEF WritersInv, MigrationState, MigrationInv
    <3> QED
      BY <3>1, MigrationSeesTheChain DEF Verified, IsVerified, M!VerifiedIsFact
  <2>2. CASE writer # "migration"
    <3>1. migration = NoJournal
      BY <2>2 DEF WritersInv, M!OwnInit
    <3> QED
      BY <3>1 DEF M!VerifiedIsFact
  <2> QED
    BY <2>1, <2>2
<1>3. WritersInv => RecordsAreFacts
  BY <1>1, <1>2 DEF RecordsAreFacts
<1> QED
  BY <1>3, WritersInvariance, PTL

\* SentIsJournaled outlasts the hand-over (onboarding.ts 156-168): whoever writes, what was
\* sent for the onboarding is in its journal for good, after all that precedes it.
THEOREM SentStaysJournaled == WritersSpec => []SentIsJournaled
<1>1. WritersInv => SentIsJournaled
  <2> SUFFICES ASSUME WritersInv PROVE SentIsJournaled
    OBVIOUS
  <2>1. CASE writer = "onboarding"
    BY <2>1 DEF WritersInv, IInv, AllSent, Before, SentIsJournaled
  <2>2. CASE writer = "migration"
    BY <2>2 DEF WritersInv, OnboardingKept
  <2>3. CASE writer = "feedback"
    BY <2>3 DEF WritersInv, Untouched, SentIsJournaled
  <2> QED
    BY <2>1, <2>2, <2>3 DEF WritersInv
<1> QED
  BY <1>1, WritersInvariance, PTL

\* The state of all three writers stays of its type.
THEOREM WritersTypeCorrect == WritersSpec => []WritersTypeOK
<1>1. WritersInv /\ FeedbackInv => TypeOK
  <2> SUFFICES ASSUME WritersInv, FeedbackInv PROVE TypeOK
    OBVIOUS
  <2>1. CASE writer = "feedback"
    <3>1. ChainTypeOK /\ Untouched
      BY <2>1 DEF WritersInv, FeedbackInv, ReviewInv
    <3> QED
      BY <3>1, IdleIsTransition DEF TypeOK, Untouched
  <2> QED
    BY <2>1 DEF WritersInv, OnboardingKept
<1>2. WritersInv /\ FeedbackInv => M!TypeOK
  <2> SUFFICES ASSUME WritersInv, FeedbackInv PROVE M!TypeOK
    OBVIOUS
  <2>1. CASE writer = "migration"
    BY <2>1 DEF WritersInv, MigrationState, MigrationInv
  <2>2. CASE writer # "migration"
    <3>1. ChainTypeOK /\ M!OwnInit
      BY <1>1, <2>2 DEF WritersInv, TypeOK
    <3> QED
      BY <3>1, MigrationBegins DEF M!OwnInit, M!TypeOK
  <2> QED
    BY <2>1, <2>2
<1>3. WritersInv /\ FeedbackInv => F!TypeOK
  BY <1>1, NothingAskedIsTyped DEF FeedbackInv, ReviewInv, TypeOK
<1>4. WritersInv /\ FeedbackInv => WritersTypeOK
  BY <1>1, <1>2, <1>3 DEF WritersTypeOK
<1> QED
  BY <1>4, WritersInvariance, FeedbackInvariance, PTL
================================================================================
