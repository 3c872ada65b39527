---------------------------- MODULE MCVlmRouter ----------------------------
(* Model-checking instances of VlmRouter: local and cloud backends, a        *)
(* request that must stay local and one that need not.                        *)
EXTENDS VlmRouter

CONSTANTS k1, k2, private, shared, ollama, vllm, cloud

\* vllm runs a small model: the private request has too many frames for it.
MCAccepts == [r \in Requests |-> IF r = private THEN Backends \ {vllm} ELSE Backends]

\* A backend in the house is cheaper and comes first.
MCPreference ==
  [r \in Requests |-> SelectSeq(<<ollama, vllm, cloud>>, LAMBDA b : b \in Backends)]

=============================================================================
