------------------------------ MODULE MCPacing ------------------------------
(* Bounds for Pacing: half-second steps and a faster recovery; the rate is  *)
(* changed while nothing is retried, or kept while deliveries are.          *)
EXTENDS Pacing

MCScopes == {[targets |-> {1, 3}, retries |-> 0], [targets |-> {2}, retries |-> 2]}

=============================================================================
