----------------------------- MODULE MCExports -----------------------------
(* Bounds for Exports: something fails while the run is generated, or its   *)
(* outputs are deleted once it was.                                         *)
EXTENDS Exports

(* Two partitions, the first in two segments. *)
TwoPartitions == <<2, 1>>

(* A deletion meets no other trouble.  What is deleted was written to its   *)
(* end, and the replay is not writing.                                      *)
OneTrouble ==
  deletion # "none" =>
    failures + crashes = 0 /\ Generated /\ \A i \in 1..Drops : drop[i] # "open"

(* Files are removed in any order, but the second partition's after the     *)
(* first's.                                                                 *)
InTurn ==
  (\E d \in Dirs : file[d][<<2, 0>>] = "none") /\ deletion # "none"
    => \A d \in Dirs, s \in 0..1 : file[d][<<1, s>>] = "none"
=============================================================================
