--------------------------- MODULE MCCameraLoops ---------------------------
(* Model-checking instances of CameraLoops.                                *)
EXTENDS CameraLoops

CONSTANTS c1, c2, s1, s2, l1, l2, l3, l4, r1, r2

\* A first boot, or a camera an earlier process left enabled (which of the two
\* specs it has makes no difference).
MCSaved == {NoTarget, [c \in Cameras |-> s1]}

=============================================================================
