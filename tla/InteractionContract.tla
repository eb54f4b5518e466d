-------------------------- MODULE InteractionContract --------------------------
(***************************************************************************)
(* What a City service promises the callers of message/send and tasks/get, *)
(* whatever happens inside it: under one interaction key a caller is told  *)
(* of one acceptance, and of one terminal result, and neither is ever      *)
(* replaced.  TaskRuntime is shown to implement it.                        *)
(***************************************************************************)
CONSTANT Interactions

VARIABLES
  promised,  \* acceptances callers have been told of, per interaction
  settled    \* terminal results callers have been told of, per interaction

vars == <<promised, settled>>

Init ==
  /\ promised = [k \in Interactions |-> {}]
  /\ settled = [k \in Interactions |-> {}]

\* The first news of k: some acceptance is chosen for it.
ChoosesPromise(k) ==
  /\ promised[k] = {}
  /\ \E a \in promised'[k] : promised' = [promised EXCEPT ![k] = {a}]

ChoosesResult(k) ==
  /\ settled[k] = {}
  /\ \E r \in settled'[k] : settled' = [settled EXCEPT ![k] = {r}]

\* A caller is told that its request is accepted.
Promise(k) == ChoosesPromise(k) /\ UNCHANGED settled

\* A caller is told how an accepted request ended.
Settle(k) == promised[k] # {} /\ ChoosesResult(k) /\ UNCHANGED promised

\* The first news may already be the end: the first reply was lost with the
\* process that had persisted the acceptance.
PromiseSettled(k) == ChoosesPromise(k) /\ ChoosesResult(k)

Next == \E k \in Interactions : Promise(k) \/ Settle(k) \/ PromiseSettled(k)

Spec == Init /\ [][Next]_vars
================================================================================
