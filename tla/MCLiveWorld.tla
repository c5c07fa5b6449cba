----------------------------- MODULE MCLiveWorld -----------------------------
(* Bounds for LiveWorld: what may happen to an event, a late and duplicated *)
(* delivery and two that are held among it.                                 *)
EXTENDS LiveWorld

SomeFates == {Whole, [late |-> TRUE, reorder |-> FALSE, extras |-> 1],
              [late |-> FALSE, reorder |-> TRUE, extras |-> 0],
              [late |-> FALSE, reorder |-> TRUE, extras |-> 1]}
=============================================================================
