---------------------------- MODULE MCAlertPath ----------------------------
(* A camera's alert and a test alert, a ring of one entry, one rule; the    *)
(* windows show a stranger besides a resident, a resident, only boxes.      *)
(*                                                                         *)
(* And GraphMirror, with whom AlertPath shares no variable: what it        *)
(* mirrors are the alerts that were recorded.  Either is checked with the  *)
(* other at rest (`subject`).                                              *)
EXTENDS AlertPath, GraphMirror

VARIABLE subject

MCKind  == [a \in Ids |-> IF a = "porch" THEN "person" ELSE "motion"]
Nothing == [person |-> 0, car |-> 0, animal |-> 0]
MCWindows == {
  [known |-> 1, guessed |-> 0, cars |-> 0, pets |-> 0, boxes |-> [Nothing EXCEPT !.person = 2]],
  [known |-> 1, guessed |-> 0, cars |-> 0, pets |-> 0, boxes |-> [Nothing EXCEPT !.person = 1, !.car = 1]],
  [known |-> 0, guessed |-> 0, cars |-> 0, pets |-> 0, boxes |-> [Nothing EXCEPT !.animal = 1]]}
MCSelected == <<"phone", "phone">>            \* seeded by the configuration
MCServiceLists == {<<"tablet">>, MCSelected}
MCPolicy == [vehicles |-> TRUE, animals |-> FALSE, unclassified |-> FALSE]
MCRules == <<"stranger">>
MCFires == [r \in {"stranger"} |-> {"porch"}]

MCKeys     == <<"headline">>
MCNotes    == {[k \in {"headline"} |->
                  [head |-> "dog", tail |-> IF rest = Null THEN <<>>      \* "dog" and "dog;cat"
                                            ELSE <<[key |-> Null, head |-> rest]>>]] :
                 rest \in {Null, "cat"}}
MCLikeness == [query \in Looks |-> [look \in Looks |-> IF query = look THEN 100 ELSE 40]]
MCRecords  == {[id |-> id, ts |-> 0, camera |-> "porch", metadata |-> note] :
                 id \in {"e", Null}, note \in Notes}

allVars == <<subject, pathVars, mirrorVars>>

MCInit ==
  /\ PathInit /\ MirrorInit
  /\ \/ subject = "alerts" /\ backend = "neo4j"
     \/ subject = "mirror"

MCNext ==
  \/ subject = "alerts" /\ PathNext /\ UNCHANGED <<subject, mirrorVars>>
  \/ subject = "mirror" /\ MirrorNext /\ UNCHANGED <<subject, pathVars>>

MCSpec == MCInit /\ [][MCNext]_allVars

\* With the fairness of PathFairSpec.
MCFairSpec ==
  MCSpec /\ \A a \in Ids :
    WF_allVars(subject = "alerts" /\ GateStep(a) /\ UNCHANGED <<subject, mirrorVars>>)
=============================================================================
