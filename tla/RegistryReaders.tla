----------------------------- MODULE RegistryReaders -----------------------------
(***************************************************************************)
(* The readers of the registries on one chain, any of them from any blocks   *)
(* that its caller may give it and with any story of the agent.            *)
(***************************************************************************)
EXTENDS PairCheckpoint, CarryForward, Activation

EventKinds == {"none", "register", "uri", "runtime", "deauthorize", "transfer", "feedback", "revoke",
               "upgrade", "restore", "reform"}
Blocks == {b \in [low : Heights, mid : Heights, high : Heights] : b.low <= b.high}

\* A slot is observed at a given block; a publication is looked for on the present chain.
ObservationStart == pc = "source" /\ left = <<>> /\ got = [SlotGot EXCEPT !.which = "current"]
PublicationStart ==
  pc = "publication" /\ left = <<>> /\ got \in {[SlotGot EXCEPT !.document = d] : d \in {"valid", "other", "absent"}}

\* Nothing is read; what happens above the last block that is read does not matter.
Unread ==
  /\ noted = <<>> /\ logs = {} /\ cursor = [start |-> 0, filter |-> 1]
  /\ verdict = [status |-> "none"] /\ common = base.high

ReadersInit ==
  /\ base \in Blocks /\ story \in [Heights -> EventKinds] /\ Unread
  /\ \/ reader = "authority" /\ base.mid = base.low /\ AuthorityStart
     \/ reader = "epoch" /\ EpochStart
     \/ reader = "observation" /\ ObservationStart
     \/ reader = "publication" /\ PublicationStart
     \/ reader = "checkpoint" /\ base.low < base.mid /\ base.mid <= base.high /\ CheckpointStart
     \/ reader = "carry" /\ CarryStart
     \/ reader = "activation" /\ base.low < base.mid /\ base.mid <= base.high /\ ActivationStart

ReaderNext ==
  \/ Reorganize \/ IdentityNext \/ ObservationNext \/ PublicationNext \/ CheckpointNext
  \/ CarryNext \/ ActivationNext

ReadersSpec == ReadersInit /\ [][ReaderNext]_chainVars
================================================================================
