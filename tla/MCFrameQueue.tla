---------------------------- MODULE MCFrameQueue ----------------------------
(* Model-checking instances of FrameQueue.                                 *)
EXTENDS FrameQueue

CONSTANTS p, g1, g2

=============================================================================
