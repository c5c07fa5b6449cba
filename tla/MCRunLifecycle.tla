--------------------------- MODULE MCRunLifecycle ---------------------------
(* Bounds for RunLifecycle: a run of two partitions, two attempts per job,  *)
(* and either a control request or a crash.                                 *)
EXTENDS RunLifecycle

(* Neither is ever forced to happen, so leaving out the runs with both      *)
(* hides no obligation of the others.                                       *)
OneTrouble == crashes = 0 \/ Undisturbed
=============================================================================
