--------------------------- MODULE MCActionRuntime ---------------------------
(* Two requests for one light; one lock that two incidents recommend, one   *)
(* of them twice, the other also with too little confidence.                *)
EXTENDS ActionRuntime

MCKey      == [r \in Requests |-> "porch light"]
MCOn       == [r \in Requests |-> TRUE]
MCIncident == [c \in Recs |-> IF c \in {"later", "weak"} THEN "i2" ELSE "i1"]
MCAction   == [c \in Recs |-> "lock back door"]
MCRequired == [a \in {"lock back door"} |-> 2]
=============================================================================
