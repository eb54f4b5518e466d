------------------------------- MODULE SafeChain -------------------------------
(***************************************************************************)
(* The owned EVM chain as the writers of the repository use it: one        *)
(* account that sends transactions (the payer of the Safe modules, or the  *)
(* reviewer of a feedback), one Safe whose calls they carry, one identity  *)
(* registry the Safe registers agents in and one reputation registry.  The *)
(* chain and its node are not code of the repository; what they do is read *)
(* off the calls that safe/adapter.ts and demo/feedbackPublication.ts make *)
(* and the answers they accept.                                            *)
(*                                                                         *)
(* A block holds one transaction.  Nonces and agent ids are counted on the *)
(* chain, so that dropping the last block undoes everything it did.        *)
(***************************************************************************)
EXTENDS Integers, SequencesExt

CONSTANTS
  MaxForeign,   \* bound on transactions by others that move a nonce or take an id
  MaxReorgs,    \* bound on dropped blocks
  MaxLosses     \* bound on lost requests to the node

ASSUME ChainAssumption == MaxForeign \in Nat /\ MaxReorgs \in Nat /\ MaxLosses \in Nat

VARIABLES
  signed,   \* every outer transaction the payer's key has signed; its index is its hash
  wire,     \* hashes on their way to the node: eth_sendRawTransaction
  mempool,  \* hashes the node knows and no block holds
  chain,    \* the canonical chain
  foreign, reorgs, losses

chainVars == <<signed, wire, mempool, chain, foreign, reorgs, losses>>

SafeCalls == {"register", "publish", "swap", "republish"}
Transactions == [call : SafeCalls \cup {"deploy", "feedback", "revoke"}, payerNonce : Nat,
                 safeNonce : Nat, agent : Nat]

\* What others do: use the account's key, execute a Safe transaction that changes nothing
\* here, replace an owner or a profile by one, or register an agent.
ForeignSafe == {"safe", "rotate", "edit"}
ForeignKinds == ForeignSafe \cup {"payer", "registry"}

\* by is the hash of an own transaction.
Blocks == [kind : ForeignKinds \cup {"own"}, by : Nat, ok : BOOLEAN,
           agent : Nat, fork : Nat]

\* How many blocks of the chain are of the given sort.
Count(is(_)) == Cardinality({i \in DOMAIN chain : is(chain[i])})

Own(b, call) == b.kind = "own" /\ b.ok /\ signed[b.by].call = call

PayerNonce == LET moves(b) == b.kind \in {"own", "payer"} IN Count(moves)
SafeNonce == LET moves(b) == \/ b.kind \in ForeignSafe
                             \/ \E call \in SafeCalls : Own(b, call)
             IN Count(moves)
Agents == LET mints(b) == b.kind = "registry" \/ Own(b, "register") IN Count(mints)
Deployed == \E i \in DOMAIN chain : Own(chain[i], "deploy")
OwnAgents == {chain[i].agent : i \in {n \in DOMAIN chain : Own(chain[n], "register")}}

\* The first owner of the Safe and the profile of an agent, as of block n.
PrimaryAt(n) ==
  LET sets(b) == b.kind = "rotate" \/ Own(b, "swap")
      i == SelectLastInSubSeq(chain, 1, n, sets)
  IN IF i = 0 THEN "retired" ELSE IF chain[i].kind = "own" THEN "replacement" ELSE "other"
ProfileAt(n, agent) ==
  LET sets(b) == /\ b.agent = agent
                 /\ b.kind = "edit" \/ Own(b, "publish") \/ Own(b, "republish")
      i == SelectLastInSubSeq(chain, 1, n, sets)
  IN IF i = 0 THEN "none" ELSE IF chain[i].kind = "own" THEN signed[chain[i].by].call
     ELSE "other"

\* eth_getTransactionCount(payer, "pending").
PendingNonce ==
  LET waiting == {signed[h].payerNonce : h \in mempool}
  IN Min({n \in PayerNonce..(PayerNonce + Cardinality(mempool)) : n \notin waiting})

Mined(h) == \E i \in DOMAIN chain : chain[i].kind = "own" /\ chain[i].by = h
BlockOf(h) == CHOOSE i \in DOMAIN chain : chain[i].kind = "own" /\ chain[i].by = h

\* The factory deploys once; the Safe checks its nonce and reverts with a failing
\* call; it swaps an owner it has; the registry lets the owner of an agent set its URI;
\* the reputation registry revokes what was published, once.
Succeeds(t) ==
  CASE t.call = "deploy"   -> ~Deployed
    [] t.call = "register" -> Deployed /\ SafeNonce = t.safeNonce
    [] t.call = "swap"     -> /\ Deployed /\ SafeNonce = t.safeNonce
                              /\ PrimaryAt(Len(chain)) = "retired"
    [] t.call \in {"publish", "republish"} ->
         Deployed /\ SafeNonce = t.safeNonce /\ t.agent \in OwnAgents
    \* Not from an operator of the agent, which a foreign registry transaction makes.
    [] t.call = "feedback" -> \A i \in DOMAIN chain : chain[i].kind # "registry"
    [] t.call = "revoke"   -> /\ \E i \in DOMAIN chain : Own(chain[i], "feedback")
                              /\ \A i \in DOMAIN chain : ~Own(chain[i], "revoke")

Extend(kind, by, ok, agent) ==
  chain' = Append(chain, [kind |-> kind, by |-> by, ok |-> ok, agent |-> agent,
                          fork |-> reorgs])

\* The node accepts a transaction whose nonce is free; a known hash changes nothing.
Deliver(h) ==
  /\ h \in wire
  /\ wire' = wire \ {h}
  /\ mempool' = IF /\ ~Mined(h)
                   /\ signed[h].payerNonce >= PayerNonce
                   /\ \A p \in mempool : signed[p].payerNonce # signed[h].payerNonce
                THEN mempool \cup {h} ELSE mempool
  /\ UNCHANGED <<signed, chain, foreign, reorgs, losses>>

Lose(h) ==
  /\ h \in wire
  /\ losses < MaxLosses
  /\ losses' = losses + 1
  /\ wire' = wire \ {h}
  /\ UNCHANGED <<signed, mempool, chain, foreign, reorgs>>

Mine(h) ==
  LET t == signed[h]
  IN /\ h \in mempool
     /\ t.payerNonce = PayerNonce
     /\ Extend("own", h, Succeeds(t), IF t.call = "register" THEN Agents + 1 ELSE t.agent)
     /\ mempool' = mempool \ {h}
     /\ UNCHANGED <<signed, wire, foreign, reorgs, losses>>

\* A transaction of somebody else is mined; one of the same account replaces a pending
\* transaction of its nonce.
Interferes(kind) ==
  /\ foreign < MaxForeign
  /\ kind \in ForeignSafe => Deployed
  /\ foreign' = foreign + 1
  /\ \E agent \in CASE kind = "registry" -> {Agents + 1}
                    [] kind = "edit"     -> OwnAgents
                    [] OTHER             -> {0} :
       Extend(kind, 0, TRUE, agent)
  /\ mempool' = IF kind = "payer"
                THEN {h \in mempool : signed[h].payerNonce # PayerNonce} ELSE mempool
  /\ UNCHANGED <<signed, wire, reorgs, losses>>

\* The last block is dropped; its transaction may or may not return to the mempool.
Reorg ==
  /\ chain # <<>>
  /\ reorgs < MaxReorgs
  /\ reorgs' = reorgs + 1
  /\ chain' = Front(chain)
  /\ mempool' \in {mempool} \cup
       (IF Last(chain).kind = "own" THEN {mempool \cup {Last(chain).by}} ELSE {})
  /\ UNCHANGED <<signed, wire, foreign, losses>>

ChainInit ==
  /\ signed = <<>>
  /\ wire = {} /\ mempool = {}
  /\ chain = <<>>
  /\ foreign = 0 /\ reorgs = 0 /\ losses = 0

\* kinds are the foreign transactions that matter to a writer.
ChainNext(kinds) ==
  \/ \E h \in wire : Deliver(h) \/ Lose(h)
  \/ \E h \in mempool : Mine(h)
  \/ \E kind \in kinds : Interferes(kind)
  \/ Reorg

ChainTypeOK ==
  /\ signed \in Seq(Transactions)
  /\ wire \in SUBSET (1..Len(signed))
  /\ mempool \in SUBSET (1..Len(signed))
  /\ chain \in Seq(Blocks)
  /\ foreign \in Nat /\ reorgs \in Nat /\ losses \in Nat
================================================================================
