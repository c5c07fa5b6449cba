-------------------------------- MODULE MCWeb --------------------------------
(* One scope for the editor and the versions, one for the drawer; spec one *)
(* has one broker sink, spec two has another one besides.                  *)
EXTENDS Web
MCSinksOf == [one |-> {1}, two |-> {1, 2}]
MCScopes  == {[edits |-> 2, versions |-> 2, conns |-> 0, opens |-> 0],
              [edits |-> 0, versions |-> 1, conns |-> 1, opens |-> 2]}
=============================================================================
