--------------------------- MODULE MCPartitionWorld ---------------------------
(* Bounds for PartitionWorld.  The consumers are interchangeable.           *)
EXTENDS PartitionWorld

AnyConsumer == Permutations(Consumers)

(* Nothing, a purchase that can be refunded the same day, and one that      *)
(* cannot.                                                                  *)
FewThings == {[type |-> "none", at |-> 0],
              [type |-> "payment", at |-> 0], [type |-> "payment", at |-> 1]}
=============================================================================
