--------------------------- MODULE MCHistoryReplay ---------------------------
(* Bounds for HistoryReplay: one or two sinks, one or two rows, a crash.     *)
EXTENDS HistoryReplay

=============================================================================
