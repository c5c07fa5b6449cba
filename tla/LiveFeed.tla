------------------------------- MODULE LiveFeed -------------------------------
(***************************************************************************)
(* What a LiveSource (apps/worker/src/live/live-source.ts) promises the    *)
(* drive loop: the live days' deliveries in order and without a gap,       *)
(* slices that never cross a day, the checkpoint of a day with the first   *)
(* slice of it and only then, and nothing more once it failed or closed.   *)
(***************************************************************************)
EXTENDS Integers, Sequences

CONSTANTS      (* LiveSource states what is assumed of them           *)
  DayLengths,  (* deliveries of each live day, the longest sink's          *)
  SkipFirst    (* deliveries of the first day an earlier session made      *)

VARIABLES
  given,  (* the slice handed out last                                     *)
  over    (* the source failed or was closed                               *)

NothingYet == [day |-> 0, from |-> 0, length |-> 0, endOfDay |-> TRUE, checkpoint |-> FALSE]

(* The first delivery of the day, or of the first day with any.             *)
Opening(d) == IF d = 1 THEN SkipFirst ELSE 0

Slices(d, from) ==
  {[day |-> d, from |-> from, length |-> n, endOfDay |-> from + n = DayLengths[d],
    checkpoint |-> from = Opening(d)] : n \in 1..(DayLengths[d] - from)}

(* The day after d with deliveries, the first of them.                      *)
NextDay(d) ==
  {e \in (d + 1)..Len(DayLengths) :
     /\ Opening(e) < DayLengths[e]
     /\ \A f \in (d + 1)..(e - 1) : Opening(f) >= DayLengths[f]}

Init == given = NothingYet /\ over = FALSE

Hand ==
  /\ ~over
  /\ given' \in (IF given.endOfDay THEN UNION {Slices(e, Opening(e)) : e \in NextDay(given.day)}
                 ELSE Slices(given.day, given.from + given.length))
  /\ UNCHANGED over

End == over' = TRUE /\ UNCHANGED given

Spec == Init /\ [][Hand \/ End]_<<given, over>>
=============================================================================
