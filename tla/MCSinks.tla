------------------------------- MODULE MCSinks -------------------------------
(* Bounds for Sinks: three attempts, two connections and two faults let a   *)
(* connection be lost behind the sink's back while another is in use.       *)
EXTENDS Sinks
=============================================================================
