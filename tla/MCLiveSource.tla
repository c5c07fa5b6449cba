----------------------------- MODULE MCLiveSource -----------------------------
(* Bounds for LiveSource: a first day begun by an earlier session, a day    *)
(* without deliveries, and days shorter and longer than the buffer.         *)
EXTENDS LiveSource

SixDays == <<3, 5, 0, 1, 4, 2>>
=============================================================================
