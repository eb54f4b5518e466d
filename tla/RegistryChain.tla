---------------------------- MODULE RegistryChain ----------------------------
(***************************************************************************)
(* What the registry readers see of a chain: an RPC node that answers every *)
(* read from the chain that is canonical at that instant.  No two reads are *)
(* one transaction, so the chain may be reorganized between any two.        *)
(*                                                                         *)
(* story is the chain the reader was configured with: the registry event of *)
(* each of its blocks.  Blocks up to common are still canonical; those above*)
(* were replaced, and reads of them answer anything.  A block that was      *)
(* replaced does not come back, and answers are complete: the readers state *)
(* both as assumptions of theirs ('truthful-canonical-rpc-and-complete-     *)
(* logs').                                                                  *)
(***************************************************************************)
EXTENDS Integers, Sequences, FiniteSets, SequencesExt, TLC

CONSTANTS
  Tip,       \* highest block
  Chunk,     \* blocks of one eth_getLogs: 64 in the code
  MaxLogs    \* logs a scan accepts

ASSUME RegistryAssumption == Tip \in Nat \ {0} /\ Chunk \in Nat \ {0} /\ MaxLogs \in Nat

Heights == 1..Tip

VARIABLES
  reader,    \* which reader runs
  base,      \* the blocks it is given: low <= mid <= high
  story,     \* the registry event of each block
  common,    \* blocks up to here are still canonical
  pc,        \* the read it is at
  noted,     \* blocks it remembers, in order, and whether they were the given chain's
  left,      \* blocks or logs it has yet to look at in this phase
  cursor,    \* next page of a log scan
  logs,      \* logs it has accepted
  got,       \* what it has read, by name
  verdict    \* what it reports

worldVars == <<story, common>>
configVars == <<reader, base>>
readVars == <<pc, noted, left, cursor, logs, got, verdict>>
chainVars == <<configVars, worldVars, readVars>>

\* fields of g are given new values, or added.
Over(fields, g) == [k \in DOMAIN fields \cup DOMAIN g |-> IF k \in DOMAIN fields THEN fields[k] ELSE g[k]]

Own(h) == h <= common
Header(h) == [at |-> h, own |-> Own(h)]
Noted(h) == \E i \in DOMAIN noted : noted[i].at = h
Remember(h) == noted' = IF Noted(h) THEN noted ELSE Append(noted, Header(h))
\* The hash known for h: the remembered one, or the one a read now returns.
Remembered(h) == IF Noted(h) THEN noted[CHOOSE i \in DOMAIN noted : noted[i].at = h].own ELSE Own(h)
Boundaries == IF base.low = base.high THEN <<base.low>> ELSE <<base.low, base.high>>

\* A numbered read of h: the fact, or anything of other once h was replaced.
Answers(h, fact, other) == IF Own(h) THEN {fact} ELSE other

Where(kinds, a, b) == {h \in Heights : a <= h /\ h <= b /\ story[h] \in kinds}

\* The possible answers to eth_getLogs of these kinds over blocks a to b.
Page(kinds, a, b) ==
  LET true == {[at |-> h, kind |-> story[h], own |-> TRUE] :
                 h \in {x \in Where(kinds, a, b) : Own(x)}}
      strange == {[at |-> h, kind |-> k, own |-> FALSE] :
                    h \in {x \in Heights : a <= x /\ x <= b /\ ~Own(x)}, k \in kinds}
  IN {true \cup more : more \in {m \in SUBSET strange :
                                   \A x, y \in m : x.at = y.at => x = y}}

\* Logs of different blocks, in the order of the chain.
InOrder(found) ==
  CHOOSE q \in [1..Cardinality(found) -> found] : \A i, j \in DOMAIN q : i < j => q[i].at < q[j].at
PageEnd(start, to) == IF start + Chunk - 1 < to THEN start + Chunk - 1 ELSE to

\* What a block's state is, by the events up to it.  An upgrade leaves the
\* configured implementation and a restore brings it back.
AtMost(kinds, h) == Cardinality(Where(kinds, 1, h))
LastOf(kinds, h) == LET s == Where(kinds, 1, h) IN
                    IF s = {} THEN 0 ELSE CHOOSE x \in s : \A y \in s : y <= x
Declarations == {"uri", "runtime", "deauthorize"}
Authority(h) == [owner |-> AtMost({"transfer"}, h), uri |-> LastOf(Declarations, h)]
SomeoneElse == [owner |-> Tip + 1, uri |-> Tip + 1]
Known(h) == LET last == LastOf({"upgrade", "restore"}, h) IN last = 0 \/ story[last] = "restore"
Counter(h) == AtMost({"feedback"}, h)
\* The feedback published at s is revoked by a later block that revokes it.
Revoked(s, h) == \E r \in (s + 1)..h : story[r] = "revoke" /\ Where({"feedback"}, s + 1, r) = {}

\* Blocks are replaced while a reader is at work.  A reader that takes its
\* last block by number meets it when it reads it: until then, what is replaced above
\* mid only decides which chain that is.
Reorganize ==
  /\ pc # "done" /\ common > 0
  /\ \E k \in 0..(common - 1) :
       /\ got.which = "basis" => k < base.mid
       /\ common' = k
  /\ UNCHANGED <<configVars, story, readVars>>

Report(v) == verdict' = v /\ pc' = "done"
Done == pc = "done" /\ UNCHANGED chainVars
================================================================================
