--------------------------- MODULE MCRtspCapture ---------------------------
(* Model-checking instances of RtspCapture.                                *)
EXTENDS RtspCapture

CONSTANTS c1, c2, t1, t2, t3, configured, removed, bootstrap, shutdown

=============================================================================
