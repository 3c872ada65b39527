---------------------------- MODULE MCTriageBus ----------------------------
(* Model-checking instances of TriageBus: e1 and e2 are two sightings of the *)
(* same person, s a smoke alarm, x a message that is not a trigger event.    *)
EXTENDS TriageBus

CONSTANTS e1, e2, s, x

MCSignature ==
  [e \in Events |-> IF e \in {e1, e2} THEN "porch person" ELSE
                    IF e = s THEN "hall smoke" ELSE "none"]

MCScore ==
  [e \in Events |-> IF e = s THEN "sensor.bypass" ELSE "vlm.normal"]

=============================================================================
