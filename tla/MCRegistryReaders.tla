--------------------------- MODULE MCRegistryReaders ---------------------------
EXTENDS RegistryReaders, RankedDiscovery

\* The stories that tell one reader's outcomes apart.
Stories(kinds) == [Heights -> kinds]
Reads(r, blocks, kinds) ==
  /\ reader = r
  /\ base \in blocks /\ story \in Stories(kinds)

ReaderCase ==
  /\ offers = <<>> /\ DiscoveryStart
  /\ \/ /\ Reads("authority", [low : {2}, mid : {2}, high : {2, 4}],
                 {"none", "uri", "transfer", "upgrade", "restore"})
        /\ story[1] \in {"none", "upgrade"} /\ story[5] = "none" /\ AuthorityStart
     \/ /\ Reads("epoch", [low : {1}, mid : {1}, high : {4}],
                 {"none", "uri", "runtime", "transfer", "deauthorize", "upgrade"})
        /\ story[1] \in {"none", "upgrade"} /\ story[5] = "none" /\ "none" \in {story[3], story[4]}
        /\ EpochStart
     \/ /\ Reads("observation", [low : {2}, mid : {2, 3}, high : {2, 4}],
                 {"none", "feedback", "revoke", "upgrade"})
        /\ story[5] = "none"
        /\ ObservationStart
     \/ /\ Reads("publication", [low : {2}, mid : {2, 3}, high : {2, 4}],
                 {"none", "feedback", "revoke", "upgrade"})
        /\ story[5] = "none"
        /\ PublicationStart
     \/ /\ Reads("checkpoint", [low : {1}, mid : {2, 3}, high : {5}],
                 {"register", "feedback", "revoke", "upgrade", "reform", "none"})
        /\ story[1] = "none" /\ story[2] \in {"none", "register"} /\ (\A h \in 3..Tip : story[h] # "register")
        /\ CheckpointStart
     \/ /\ Reads("carry", [low : {1}, mid : {2, 3}, high : {3, 4}],
                 {"none", "feedback", "runtime", "transfer", "deauthorize"})
        /\ story[1] = "none" /\ story[5] = "none" /\ story[base.mid] \in {"none", "feedback"}
        /\ CarryStart
        /\ base.high = 3 => story[4] = "none" /\ story[2] # "deauthorize"
        /\ base.high = 4 \/ got # CarryGot => base.mid = 2 /\ story[2] = "feedback" /\ story[3] = "runtime"
        /\ base.high = 4 => got = CarryGot
     \/ /\ Reads("activation", [low : {1}, mid : {2, 3}, high : {3, 5}],
                 {"none", "upgrade", "restore"})
        /\ ActivationStart
  /\ Unread

\* What the two Indexes offer: one row that is out of the ordinary after a good one, the
\* same or another service from the second Index, and more pages than are read.
Row(agent, kind) == [agent |-> agent, kind |-> kind]
Good(agent) == Row(agent, "good")
Hints ==
  {<<<<Good("a"), Row("b", kind)>>, <<>>>> : kind \in Kinds} \cup
  {<<<<Good("a")>>, <<row>>>> : row \in {Good("a"), Row("b", "unfit")}} \cup
  {<<<<Row("a", kind), Row("b", "unfit"), Good("c")>>, <<>>>> : kind \in {"unfit", "foreign"}}

DiscoveryCase ==
  /\ reader = "discovery" /\ base = [low |-> 1, mid |-> 1, high |-> 1] /\ story = [h \in Heights |-> "none"]
  /\ common = Tip /\ noted = <<>> /\ logs = {} /\ cursor = [start |-> 0, filter |-> 1]
  /\ left = <<>> /\ got = SlotGot /\ verdict = [status |-> "none"] /\ pc = "done"
  /\ offers \in Hints /\ DiscoveryStart

Init == ReaderCase \/ DiscoveryCase

Next == \/ reader # "discovery" /\ ReaderNext /\ UNCHANGED discoveryVars
        \/ reader = "discovery" /\ DiscoveryNext /\ UNCHANGED chainVars
        \/ (reader # "discovery" \/ stage = "reported") /\ Done /\ UNCHANGED discoveryVars
================================================================================
