--------------------------- MODULE MCStreamSession ---------------------------
(* Bounds for StreamSession: two sessions, two control requests, one fault. *)
EXTENDS StreamSession
=============================================================================
