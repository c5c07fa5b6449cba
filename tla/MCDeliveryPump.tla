--------------------------- MODULE MCDeliveryPump ---------------------------
(* Bounds for DeliveryPump: three deliveries over one slot.                 *)
EXTENDS DeliveryPump
=============================================================================
