-------------------------- MODULE DeliveryContract --------------------------
(***************************************************************************)
(* What the shared delivery loop promises its callers, history replay and  *)
(* live streams alike, without saying how: every delivery handed over ends *)
(* with exactly one fate.  It is acknowledged by the destination,          *)
(* or given up on (labelled `dropped`), and only once the loop has been    *)
(* stopped may it be abandoned unlabelled or turned away.                  *)
(* packages/sinks/src/pump.ts implements it (module DeliveryPump).         *)
(***************************************************************************)
EXTENDS Naturals

CONSTANT Items   (* the deliveries handed to the loop *)

VARIABLES
  fate,    (* what has become of each delivery        *)
  closed   (* the loop has been stopped               *)

cvars == <<fate, closed>>

Final == {"delivered", "dropped", "abandoned", "refused"}

CInit ==
  /\ fate = [i \in Items |-> "new"]
  /\ closed = FALSE

(* A delivery is taken over. *)
Accept(i) ==
  /\ ~closed
  /\ fate[i] = "new"
  /\ fate' = [fate EXCEPT ![i] = "open"]
  /\ UNCHANGED closed

(* The destination acknowledged it, or the loop labelled it dropped. *)
Settle(i) ==
  /\ fate[i] = "open"
  /\ \E outcome \in {"delivered", "dropped"} : fate' = [fate EXCEPT ![i] = outcome]
  /\ UNCHANGED closed

(* A stopped loop turns away what it has not started and abandons the rest. *)
GiveUp(i) ==
  /\ closed
  /\ \/ fate[i] = "new"  /\ fate' = [fate EXCEPT ![i] = "refused"]
     \/ fate[i] = "open" /\ \E end \in {"abandoned", "refused"} :
                              fate' = [fate EXCEPT ![i] = end]
  /\ UNCHANGED closed

(* Stopping abandons any of the open deliveries at once; an acknowledgement *)
(* that makes the loop stop settles its own delivery in the same step.      *)
Close ==
  /\ ~closed
  /\ closed' = TRUE
  /\ \E lost \in SUBSET {i \in Items : fate[i] = "open"} :
       \/ fate' = [i \in Items |-> IF i \in lost THEN "abandoned" ELSE fate[i]]
       \/ \E ack \in {i \in Items : fate[i] = "open"} \ lost :
            fate' = [i \in Items |-> IF i \in lost THEN "abandoned"
                                     ELSE IF i = ack THEN "delivered" ELSE fate[i]]

CNext ==
  \/ \E i \in Items : Accept(i) \/ Settle(i) \/ GiveUp(i)
  \/ Close

CSpec == CInit /\ [][CNext]_cvars
=============================================================================
