----------------------------- MODULE MCGuidance -----------------------------
(* Two browser tabs of one user; two utterances and what they can lead to.  *)
EXTENDS Guidance

CONSTANTS front, kitchen, ghost
=============================================================================
