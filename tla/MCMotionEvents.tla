---------------------------- MODULE MCMotionEvents ----------------------------
(* Model-checking instances of MotionEvents.                                 *)
EXTENDS MotionEvents
=============================================================================
