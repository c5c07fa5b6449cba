----------------------------- MODULE MCCatalog -----------------------------
(* Bounds for Catalog: a spec without broker sinks and one with a Kafka     *)
(* sink, which is the template's; three requests in any mixture.            *)
EXTENDS Catalog

CONSTANTS r1, r2, r3

MCBroker == [plain |-> <<>>, streamed |-> [out |-> "kafka"]]
MCLocal  == [name |-> "local", type |-> "kafka", cfg |-> "demo"]
MCEnv    == << [name |-> "ops", type |-> "webhook", cfg |-> "hook"] >>
Symmetry == Permutations({r1, r2, r3})
=============================================================================
