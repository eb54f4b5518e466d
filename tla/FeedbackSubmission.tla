--------------------------- MODULE FeedbackSubmission ---------------------------
(***************************************************************************)
(* Publication and revocation of one feedback: demo/feedbackPublication.ts *)
(* over the chain of SafeChain, whose account is the reviewer's.           *)
(*                                                                         *)
(* Each transaction is prepared, signed and retained once.  Processes, one *)
(* after another or at once, submit exactly those bytes; each attempt looks *)
(* for the receipt, then for another use of the nonce, sends, and polls.   *)
(* Every RPC is a step; requests and replies are lost, the key is used by  *)
(* another transaction, and blocks are dropped.                            *)
(***************************************************************************)
EXTENDS SafeChain

CONSTANTS
  Submitters,   \* processes that submit
  Attempts,     \* broadcasts of one submission: 3 in the code
  MaxAsks,      \* bound on submissions
  NoResult

\* The receipt and event reference a submission returns.
Results == [height : Nat, fork : Nat]

VARIABLES
  prepared,     \* hashes of the retained publication and revocation, 0 before
  original,     \* the publication's result that the revocation was prepared with
  ask,          \* each process's submission
  asks

ownVars == <<prepared, original, ask, asks>>
vars == <<chainVars, ownVars>>

Operations == {"feedback", "revoke"}
Submissions ==
  [pc : {"idle", "receipt", "latest", "pending", "lookup", "recheck", "send", "poll",
         "lastReceipt", "lastLatest", "lastPending", "lastLookup", "done"},
   of : Operations, attempt : 0..Attempts, consumed : BOOLEAN,
   answer : {"none", "observed", "reverted", "refused", "replaced", "unresolved"},
   result : Results \cup {NoResult}]
NoSubmission == [pc |-> "idle", of |-> "feedback", attempt |-> 0, consumed |-> FALSE,
                 answer |-> "none", result |-> NoResult]

ResultOf(h) == [height |-> BlockOf(h), fork |-> chain[BlockOf(h)].fork]
Quiet == UNCHANGED <<chainVars, prepared, original, asks>>
Goes(p, pc) == ask' = [ask EXCEPT ![p].pc = pc]
Answers(p, answer) == ask' = [ask EXCEPT ![p].pc = "done", ![p].answer = answer]

\* signOperation: the pending nonce and an estimate that does not revert.
Signs(call) ==
  LET t == [call |-> call, payerNonce |-> PendingNonce, safeNonce |-> 0, agent |-> 0]
  IN /\ prepared[call] = 0 /\ Succeeds(t)
     /\ signed' = Append(signed, t)
     /\ prepared' = [prepared EXCEPT ![call] = Len(signed) + 1]
     /\ UNCHANGED <<wire, mempool, chain, foreign, reorgs, losses, ask, asks>>

PreparePublication == Signs("feedback") /\ UNCHANGED original

\* Only for a publication whose receipt is the supplied one and that is not revoked.
PrepareRevocation ==
  /\ \E p \in Submitters : LET r == ask[p] IN
       /\ r.of = "feedback" /\ r.answer = "observed"
       /\ Mined(prepared["feedback"]) /\ ResultOf(prepared["feedback"]) = r.result
       /\ original' = r.result
  /\ Signs("revoke")

\* submitPreparedFeedback, by a process that may have submitted before; validatePrepared
\* refuses a revocation whose publication has another receipt by now.
Submit(p, call) ==
  /\ ask[p].pc \in {"idle", "done"} /\ asks < MaxAsks
  /\ prepared[call] # 0
  /\ asks' = asks + 1
  /\ ask' = [ask EXCEPT ![p] =
       IF /\ call = "revoke"
          /\ ~(Mined(prepared["feedback"]) /\ ResultOf(prepared["feedback"]) = original)
       THEN [NoSubmission EXCEPT !.of = call, !.pc = "done", !.answer = "refused"]
       ELSE [NoSubmission EXCEPT !.of = call, !.pc = "receipt"]]
  /\ UNCHANGED <<chainVars, prepared, original>>

\* existingReceipt and receiptResult: what is mined decides, otherwise on to pc.
Looks(p, pc) ==
  LET h == prepared[ask[p].of]
  IN IF ~Mined(h) THEN Goes(p, pc)
     ELSE IF chain[BlockOf(h)].ok
     THEN ask' = [ask EXCEPT ![p].pc = "done", ![p].answer = "observed",
                             ![p].result = ResultOf(h)]
     ELSE Answers(p, "reverted")

FindsReceipt(p) == ask[p].pc = "receipt" /\ Looks(p, "latest") /\ Quiet

Nonce(p) == signed[prepared[ask[p].of]].payerNonce

\* nonceIsOccupied, in three reads: the nonce is consumed, ...
Consumed(p) ==
  /\ ask[p].pc = "latest"
  /\ IF PayerNonce > Nonce(p)
     THEN ask' = [ask EXCEPT ![p].pc = "recheck", ![p].consumed = TRUE]
     ELSE Goes(p, "pending")
  /\ Quiet

\* ... or another pending transaction has it ...
Competes(p) ==
  /\ ask[p].pc = "pending"
  /\ Goes(p, IF PendingNonce > Nonce(p) THEN "lookup" ELSE "send")
  /\ Quiet

\* ... and not the original.
LooksUp(p) ==
  /\ ask[p].pc = "lookup"
  /\ LET h == prepared[ask[p].of]
     IN Goes(p, IF h \in mempool \/ Mined(h) THEN "send" ELSE "recheck")
  /\ Quiet

\* Mutant of Rechecks: a used nonce is taken for a replacement.
RechecksNothing(p) == ask[p].pc = "recheck" /\ Answers(p, "replaced") /\ Quiet

\* The receipt once more, "to avoid racing the original transaction's mining".
Rechecks(p) ==
  /\ ask[p].pc = "recheck"
  /\ IF Mined(prepared[ask[p].of]) THEN Looks(p, "recheck") ELSE Answers(p, "replaced")
  /\ Quiet

\* The same bytes once more; a refused request or a lost reply changes nothing.
Sends(p) ==
  /\ ask[p].pc = "send"
  /\ wire' \in {wire, wire \cup {prepared[ask[p].of]}}
  /\ ask' = [ask EXCEPT ![p].pc = "poll", ![p].attempt = @ + 1]
  /\ UNCHANGED <<signed, mempool, chain, foreign, reorgs, losses, prepared, original, asks>>

\* Twenty polls of the receipt, then the next attempt, or the last look.
Polls(p) ==
  /\ ask[p].pc = "poll"
  /\ \/ Looks(p, "poll")
     \/ Looks(p, IF ask[p].attempt < Attempts THEN "receipt" ELSE "lastReceipt")
  /\ Quiet

LastReceipt(p) == ask[p].pc = "lastReceipt" /\ Looks(p, "lastLatest") /\ Quiet

\* The last reading of the nonce is not followed by another look at the receipt.
LastNonce(p) ==
  /\ ask[p].pc \in {"lastLatest", "lastPending", "lastLookup"}
  /\ \/ ask[p].pc = "lastLatest" /\ PayerNonce > Nonce(p) /\ Answers(p, "unresolved")
     \/ ask[p].pc = "lastLatest" /\ PayerNonce <= Nonce(p) /\ Goes(p, "lastPending")
     \/ /\ ask[p].pc = "lastPending"
        /\ IF PendingNonce > Nonce(p) THEN Goes(p, "lastLookup") ELSE Answers(p, "unresolved")
     \/ ask[p].pc = "lastLookup" /\ Answers(p, "unresolved")
  /\ Quiet

OwnInit ==
  /\ prepared = [call \in Operations |-> 0]
  /\ original = NoResult
  /\ ask = [p \in Submitters |-> NoSubmission]
  /\ asks = 0

Steps(p) ==
  \/ FindsReceipt(p) \/ Consumed(p) \/ Competes(p) \/ LooksUp(p) \/ Rechecks(p)
  \/ Sends(p) \/ Polls(p) \/ LastReceipt(p) \/ LastNonce(p)

Next ==
  \/ PreparePublication \/ PrepareRevocation
  \/ \E p \in Submitters : Steps(p) \/ \E call \in Operations : Submit(p, call)
  \/ ChainNext({"payer", "registry"}) /\ UNCHANGED ownVars

TypeOK ==
  /\ prepared \in [Operations -> 0..Len(signed)]
  /\ original \in Results \cup {NoResult}
  /\ ask \in [Submitters -> Submissions]
  /\ asks \in 0..MaxAsks

(* Property.                                                               *)

\* While no block is dropped, what a submission answers stays true however lost requests
\* and replies, retries, a second process and other uses of the nonce are ordered: an
\* observed result is the successful transaction itself, in the block it names; and
\* after "nonce consumed" the transaction is not on the chain, now or later (284-293; the
\* last look of 308-312 makes no such claim, as it is not followed by a recheck).
AnswersAreTrue ==
  reorgs = 0 =>
    \A p \in Submitters : LET r == ask[p]  h == prepared[r.of] IN
      /\ r.answer = "observed" =>
           Mined(h) /\ chain[BlockOf(h)].ok /\ ResultOf(h) = r.result
      /\ r.answer = "replaced" /\ r.consumed => ~Mined(h)
================================================================================
