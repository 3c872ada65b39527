-------------------------- MODULE VlmRouterProofs --------------------------
(***************************************************************************)
(* Proofs about two components that stand in for one another's absence.    *)
(*                                                                         *)
(* The circuit breakers of VlmRouter: whatever order the results of        *)
(* overlapping calls come in, state and failure count agree.               *)
(*                                                                         *)
(* GraphMirror: the database is the graph that a dictionary would hold     *)
(* after the same writes and answers its queries as one, and what is a     *)
(* candidate for pruning stays one until it is cited.                      *)
(***************************************************************************)
EXTENDS VlmRouter, GraphMirror, FiniteSetTheorems, WellFoundedInduction, TLAPS

States == {"closed", "open", "half_open"}

\* The types of what the breakers remember.
BreakersTyped ==
  /\ state \in [Backends -> States]
  /\ failures \in [Backends -> 0..FailureThreshold]

IInv == BreakersTyped /\ ClosedBelowThreshold

LEMMA ThresholdFacts == FailureThreshold \in Nat /\ FailureThreshold > 0
BY VlmRouterAssumption

LEMMA InitIInv == Init => IInv
BY ThresholdFacts DEF Init, IInv, BreakersTyped, ClosedBelowThreshold, States

-----------------------------------------------------------------------------
(* The operations of a breaker.                                            *)

\* Looking at breakers turns OPEN into HALF_OPEN at most.
LEMMA LookedIInv ==
  ASSUME IInv, NEW r \in Requests, state' = Looked(r), failures' = failures
  PROVE  IInv'
<1>1. state' \in [Backends -> States]
  BY DEF IInv, BreakersTyped, Looked, StateOf, States
<1>2. \A b \in Backends : state'[b] = "closed" <=> state[b] = "closed"
  BY DEF IInv, BreakersTyped, Looked, StateOf, States
<1> QED
  BY <1>1, <1>2 DEF IInv, BreakersTyped, ClosedBelowThreshold

LEMMA RecordSuccessIInv ==
  ASSUME IInv, NEW b, RecordSuccess(b)
  PROVE  IInv'
<1>1. /\ failures' = [failures EXCEPT ![b] = 0]
      /\ state' = [state EXCEPT ![b] = "closed"]
  BY DEF RecordSuccess
<1>2. 0 \in 0..FailureThreshold /\ "closed" \in States
  BY ThresholdFacts DEF States
<1>3. BreakersTyped'
  BY <1>1, <1>2 DEF IInv, BreakersTyped
<1>4. ASSUME NEW c \in Backends
      PROVE  state'[c] = "closed" <=> failures'[c] < FailureThreshold
  <2>1. CASE c = b
    BY <1>1, <2>1, ThresholdFacts DEF IInv, BreakersTyped
  <2>2. CASE c # b
    BY <1>1, <2>2 DEF IInv, BreakersTyped, ClosedBelowThreshold
  <2> QED
    BY <2>1, <2>2
<1> QED
  BY <1>3, <1>4 DEF IInv, ClosedBelowThreshold

\* The breaker opens at the latest when the threshold is reached; a late
\* failure on an open breaker leaves it open.
LEMMA RecordFailureIInv ==
  ASSUME IInv, NEW b, RecordFailure(b)
  PROVE  IInv'
<1> DEFINE n == IF failures[b] < FailureThreshold THEN failures[b] + 1
                                                  ELSE failures[b]
           opens == state[b] = "half_open" \/ n = FailureThreshold
<1>1. /\ failures' = [failures EXCEPT ![b] = n]
      /\ state' = [state EXCEPT ![b] = IF opens THEN "open" ELSE state[b]]
  BY DEF RecordFailure
<1>2. CASE b \notin Backends
  BY <1>1, <1>2 DEF IInv, BreakersTyped, ClosedBelowThreshold
<1>3. CASE b \in Backends
  <2>1. failures[b] \in 0..FailureThreshold /\ state[b] \in States
    BY <1>3 DEF IInv, BreakersTyped
  <2>2. state[b] = "closed" <=> failures[b] < FailureThreshold
    BY <1>3 DEF IInv, ClosedBelowThreshold
  <2>3. n \in 0..FailureThreshold
    BY <2>1, ThresholdFacts
  <2>4. (IF opens THEN "open" ELSE state[b]) \in States
    BY <2>1 DEF States
  <2>5. (IF opens THEN "open" ELSE state[b]) = "closed" <=> n < FailureThreshold
    BY <2>1, <2>2, ThresholdFacts DEF States
  <2> HIDE DEF n, opens
  <2>6. BreakersTyped'
    BY <1>1, <2>3, <2>4 DEF IInv, BreakersTyped
  <2>7. ClosedBelowThreshold'
    BY <1>1, <1>3, <2>5 DEF IInv, BreakersTyped, ClosedBelowThreshold
  <2> QED
    BY <2>6, <2>7 DEF IInv
<1> QED
  BY <1>2, <1>3

LEMMA ResetIInv ==
  ASSUME IInv, NEW b \in Backends, Reset(b)
  PROVE  IInv'
BY ThresholdFacts DEF IInv, BreakersTyped, ClosedBelowThreshold, Reset, States

-----------------------------------------------------------------------------

LEMMA NextIInv == IInv /\ [Next]_vars => IInv'
<1> SUFFICES ASSUME IInv, [Next]_vars PROVE IInv'
  OBVIOUS
<1>1. ASSUME NEW k \in Callers, NEW r \in Requests, Invoke(k, r)
      PROVE  IInv'
  <2>1. state' = Looked(r) /\ failures' = failures
    BY <1>1 DEF Invoke
  <2> QED
    BY <2>1, LookedIInv
<1>2. ASSUME NEW k \in Callers, Answered(k)
      PROVE  IInv'
  <2>1. RecordSuccess(Head(call[k].chain))
    BY <1>2 DEF Answered
  <2> QED
    BY <2>1, RecordSuccessIInv
<1>3. ASSUME NEW k \in Callers, BackendFails(k)
      PROVE  IInv'
  <2>1. RecordFailure(Head(call[k].chain))
    BY <1>3 DEF BackendFails
  <2> QED
    BY <2>1, RecordFailureIInv
<1>4. ASSUME NEW b \in Backends, Reset(b)
      PROVE  IInv'
  BY <1>4, ResetIInv
<1>5. ASSUME UNCHANGED <<state, failures>>
      PROVE  IInv'
  BY <1>5 DEF IInv, BreakersTyped, ClosedBelowThreshold
<1>6. ASSUME NEW k \in Callers, Cancelled(k)
      PROVE  IInv'
  BY <1>5, <1>6 DEF Cancelled
<1>7. ASSUME NEW b \in Backends, Toggle(b)
      PROVE  IInv'
  BY <1>5, <1>7 DEF Toggle
<1>8. CASE Tick
  BY <1>5, <1>8 DEF Tick
<1>9. CASE UNCHANGED vars
  BY <1>5, <1>9 DEF vars
<1> QED
  BY <1>1, <1>2, <1>3, <1>4, <1>6, <1>7, <1>8, <1>9 DEF Next

\* For any threshold, any backends and any number of callers: a breaker is
\* closed exactly when it has seen fewer failures in a row than the threshold,
\* however late the results of calls begun in another state come in.
THEOREM BreakersAgree == Spec => []ClosedBelowThreshold
<1>1. Init => IInv
  BY InitIInv
<1>2. IInv /\ [Next]_vars => IInv'
  BY NextIInv
<1>3. IInv => ClosedBelowThreshold
  BY DEF IInv
<1> QED
  BY <1>1, <1>2, <1>3, PTL DEF Spec

-----------------------------------------------------------------------------
(* GraphMirror: what the database holds, as a graph.                       *)

\* An event as mirror_event_from_alert writes it.
MirroredEvent == [ts : Int, camera_id : Cameras, metadata : Notes]

\* A node is known by its label and an id of that kind.
WellNamed(n) ==
  /\ n = <<n[1], n[2]>>
  /\ \/ n[1] = "Event" /\ n[2] \in EventIds
     \/ n[1] = "KnownActor" /\ n[2] \in ActorIds
     \/ n[1] = "VLMDecision" /\ n[2] \in DecisionIds
     \/ n[1] = "Policy" /\ n[2] \in PolicyIds

\* A node is as its statement wrote it: the expiry of a policy is the one that
\* its lifetime gives.
WellFormed(n, properties) ==
  /\ n[1] = "Event" => \E e \in MirroredEvent : properties = EventNode(e)
  /\ n[1] = "KnownActor" => properties.face_embedding \in Looks \cup {Null}
  /\ n[1] = "Policy" => properties = PolicyNode(PolicyOf(properties))

Ids(N, label) == {n[2] : n \in {n \in DOMAIN N : n[1] = label}}

NodesInv(N) ==
  /\ IsFiniteSet(DOMAIN N)
  /\ \A n \in DOMAIN N : WellNamed(n) /\ WellFormed(n, N[n])

\* Relationships join nodes, and none is younger than now.
RelsInv(N, R, t) ==
  /\ IsFiniteSet(DOMAIN R)
  /\ \A r \in DOMAIN R : /\ r = <<r[1], r[2]>> /\ r[1] \in DOMAIN N /\ r[2] \in DOMAIN N
                         /\ R[r].weight \in Weights
                         /\ R[r].created \in Nat /\ R[r].created <= t

\* The graph that nodes and relationships are read back as, one collection at a
\* time.
EventsOf(N)    == [id \in Ids(N, "Event") |-> EventOf(N[<<"Event", id>>])]
ActorsOf(N)    == [id \in Ids(N, "KnownActor") |-> N[<<"KnownActor", id>>]]
DecisionsOf(N) == [id \in Ids(N, "VLMDecision") |-> N[<<"VLMDecision", id>>]]
PoliciesOf(N)  == [id \in Ids(N, "Policy") |-> PolicyOf(N[<<"Policy", id>>])]
KeyOf(r)       == <<r[1][2], r[2][2]>>
Cited(R)       == [key \in {KeyOf(r) : r \in DOMAIN R} |->
                     R[CHOOSE r \in DOMAIN R : key = KeyOf(r)]]
GraphIn(N, R)  == [events |-> EventsOf(N), actors |-> ActorsOf(N), decisions |-> DecisionsOf(N),
                   policies |-> PoliciesOf(N), cited |-> Cited(R)]

\* A graph that nodes and relationships are read back as, but for what the encoding
\* takes of its texts.
IsGraph(g) ==
  g = [events |-> g.events, actors |-> g.actors, decisions |-> g.decisions,
       policies |-> g.policies, cited |-> g.cited]
Holds(N, R, g) ==
  /\ IsGraph(g) /\ AsText(g) = GraphIn(N, R)
  /\ \A id \in DOMAIN g.events : g.events[id] \in MirroredEvent

\* After the same writes the database holds the graph a dictionary would hold.
MirrorInv ==
  /\ now \in Nat /\ NodesInv(nodes) /\ RelsInv(nodes, rels, now)
  /\ Holds(nodes, rels, promised)

LEMMA GraphParts == GraphOf = GraphIn(nodes, rels)
  BY DEF GraphOf, GraphIn, EventsOf, ActorsOf, DecisionsOf, PoliciesOf, Cited, KeyOf, Ids, Labelled

LEMMA MirrorConstants ==
  /\ EventIds \cap ActorIds = {} /\ (EventIds \cup ActorIds) \cap DecisionIds = {}
  /\ (EventIds \cup ActorIds \cup DecisionIds) \cap PolicyIds = {}
  /\ \A look, face \in Looks : Likeness[look][face] \in Int
  /\ Thresholds \subseteq Int
  /\ Step \in Nat /\ MaxTime \in Nat
  /\ Null \notin Int /\ Null \notin Looks /\ Null # "Event" /\ Null # "KnownActor"
<1>1. \A look, face \in Looks : Likeness[look][face] \in -100..100
  BY GraphMirrorAssumption
<1>2. \A x \in -100..100 : x \in Int
  OBVIOUS
<1>3. \A look, face \in Looks : Likeness[look][face] \in Int
  BY <1>1, <1>2
<1>. QED
  BY <1>3, GraphMirrorAssumption DEF PolicyIds

\* Ids are unique beyond their label.
LEMMA OneLabel ==
  ASSUME NEW n, NEW m, WellNamed(n), WellNamed(m), n[2] = m[2]
  PROVE  n = m
<1>1. n[1] = m[1]
  BY MirrorConstants DEF WellNamed
<1>2. n = <<n[1], n[2]>> /\ m = <<m[1], m[2]>>
  BY DEF WellNamed
<1>. QED
  BY <1>1, <1>2

LEMMA PairsLabelled ==
  ASSUME NEW N, NodesInv(N), NEW l, NEW i
  PROVE  i \in Ids(N, l) <=> <<l, i>> \in DOMAIN N
<1>1. ASSUME i \in Ids(N, l)
      PROVE  <<l, i>> \in DOMAIN N
  <2>1. PICK n \in DOMAIN N : n[1] = l /\ i = n[2]
    BY <1>1 DEF Ids
  <2>2. n = <<n[1], n[2]>>
    BY DEF WellNamed, NodesInv
  <2>. QED
    BY <2>1, <2>2
<1>2. ASSUME <<l, i>> \in DOMAIN N
      PROVE  i \in Ids(N, l)
  <2> DEFINE n == <<l, i>>
  <2>1. n \in DOMAIN N /\ n[1] = l /\ n[2] = i
    BY <1>2
  <2>. HIDE DEF n
  <2>. QED
    BY <2>1 DEF Ids
<1>. QED
  BY <1>1, <1>2

\* A relationship is known by the ids of its ends.
LEMMA CitedFacts ==
  ASSUME NEW R, \A r, q \in DOMAIN R : KeyOf(r) = KeyOf(q) => r = q
  PROVE  /\ DOMAIN Cited(R) = {KeyOf(r) : r \in DOMAIN R}
         /\ \A r \in DOMAIN R : Cited(R)[KeyOf(r)] = R[r]
<1>1. DOMAIN Cited(R) = {KeyOf(r) : r \in DOMAIN R}
  BY DEF Cited
<1>2. ASSUME NEW r \in DOMAIN R
      PROVE  Cited(R)[KeyOf(r)] = R[r]
  <2> DEFINE q == CHOOSE q \in DOMAIN R : KeyOf(r) = KeyOf(q)
  <2>1. q \in DOMAIN R /\ KeyOf(r) = KeyOf(q)
    OBVIOUS
  <2>2. Cited(R)[KeyOf(r)] = R[q]
    BY DEF Cited
  <2>. HIDE DEF q
  <2>. QED
    BY <2>1, <2>2
<1>. QED
  BY <1>1, <1>2

LEMMA LabelledNodes ==
  ASSUME NEW N, NodesInv(N)
  PROVE  /\ \A l, i : i \in Ids(N, l) <=> <<l, i>> \in DOMAIN N
         /\ \A n, m \in DOMAIN N : n[2] = m[2] => n = m
<1>1. \A n \in DOMAIN N : WellNamed(n)
  BY DEF NodesInv
<1>2. \A n, m \in DOMAIN N : n[2] = m[2] => n = m
  BY <1>1, OneLabel
<1>. QED
  BY <1>2, PairsLabelled

LEMMA CitedNodes ==
  ASSUME NEW N, NEW R, NEW t, NodesInv(N), RelsInv(N, R, t)
  PROVE  /\ \A r, q \in DOMAIN R : KeyOf(r) = KeyOf(q) => r = q
         /\ DOMAIN Cited(R) = {KeyOf(r) : r \in DOMAIN R}
         /\ \A r \in DOMAIN R : Cited(R)[KeyOf(r)] = R[r]
<1>1. ASSUME NEW r \in DOMAIN R, NEW q \in DOMAIN R, KeyOf(r) = KeyOf(q)
      PROVE  r = q
  <2>1. /\ r = <<r[1], r[2]>> /\ r[1] \in DOMAIN N /\ r[2] \in DOMAIN N
        /\ q = <<q[1], q[2]>> /\ q[1] \in DOMAIN N /\ q[2] \in DOMAIN N
    BY DEF RelsInv
  <2>2. r[1][2] = q[1][2] /\ r[2][2] = q[2][2]
    BY <1>1 DEF KeyOf
  <2>3. r[1] = q[1] /\ r[2] = q[2]
    BY <2>1, <2>2, LabelledNodes
  <2>. QED
    BY <2>1, <2>3
<1>2. \A r, q \in DOMAIN R : KeyOf(r) = KeyOf(q) => r = q
  BY <1>1
<1>. QED
  BY <1>2, CitedFacts

-----------------------------------------------------------------------------
(* MERGE of a node, and of a relationship.                                 *)

\* What a MERGE leaves of the other nodes, and of the relationships.
LEMMA MergeFacts ==
  ASSUME NEW N, NEW R, NEW t, NEW l, NEW id, NEW p, NEW M,
         NodesInv(N), RelsInv(N, R, t),
         WellNamed(<<l, id>>), WellFormed(<<l, id>>, p),
         M = Put(N, <<l, id>>, p)
  PROVE  /\ NodesInv(M) /\ RelsInv(M, R, t)
         /\ \A k, i : i \in Ids(M, k) <=> i \in Ids(N, k) \/ (k = l /\ i = id)
         /\ \A k, i : i \in Ids(M, k) =>
              M[<<k, i>>] = IF k = l /\ i = id THEN p ELSE N[<<k, i>>]
<1> DEFINE n == <<l, id>>
<1>1. n[1] = l /\ n[2] = id /\ WellNamed(n) /\ WellFormed(n, p)
  OBVIOUS
<1>2. M = [x \in DOMAIN N \cup {n} |-> IF x = n THEN p ELSE N[x]]
  BY DEF Put
<1>3. \A k, i : <<k, i>> = n <=> k = l /\ i = id
  OBVIOUS
<1>. HIDE DEF n
<1>4. /\ DOMAIN M = DOMAIN N \cup {n} /\ M[n] = p
      /\ \A m \in DOMAIN M : M[m] = IF m = n THEN p ELSE N[m]
  BY <1>2
<1>5. NodesInv(M)
  <2>1. IsFiniteSet(DOMAIN M)
    BY <1>4, FS_AddElement DEF NodesInv
  <2>2. ASSUME NEW m \in DOMAIN M PROVE WellNamed(m) /\ WellFormed(m, M[m])
    BY <1>1, <1>4 DEF NodesInv
  <2>. QED
    BY <2>1, <2>2 DEF NodesInv
<1>6. RelsInv(M, R, t)
  BY <1>4 DEF RelsInv
<1>7. \A k, i : /\ i \in Ids(M, k) <=> <<k, i>> \in DOMAIN M
                /\ i \in Ids(N, k) <=> <<k, i>> \in DOMAIN N
  BY <1>5, PairsLabelled
<1>8. \A k, i : i \in Ids(M, k) <=> i \in Ids(N, k) \/ (k = l /\ i = id)
  BY <1>3, <1>4, <1>7
<1>9. \A k, i : i \in Ids(M, k) =>
        M[<<k, i>>] = IF k = l /\ i = id THEN p ELSE N[<<k, i>>]
  BY <1>3, <1>4, <1>7
<1>. QED
  BY <1>5, <1>6, <1>8, <1>9

\* The same, as the collections see it.
LEMMA MergeCollections ==
  ASSUME NEW N, NEW R, NEW t, NEW l, NEW id, NEW p, NEW M,
         NodesInv(N), RelsInv(N, R, t),
         l \in Labels, WellNamed(<<l, id>>), WellFormed(<<l, id>>, p),
         M = Put(N, <<l, id>>, p)
  PROVE  /\ EventsOf(M) = IF l = "Event" THEN Put(EventsOf(N), id, EventOf(p)) ELSE EventsOf(N)
         /\ ActorsOf(M) = IF l = "KnownActor" THEN Put(ActorsOf(N), id, p) ELSE ActorsOf(N)
         /\ DecisionsOf(M) = IF l = "VLMDecision" THEN Put(DecisionsOf(N), id, p) ELSE DecisionsOf(N)
         /\ PoliciesOf(M) = IF l = "Policy" THEN Put(PoliciesOf(N), id, PolicyOf(p)) ELSE PoliciesOf(N)
<1>1. \A k : Ids(M, k) = IF k = l THEN Ids(N, k) \cup {id} ELSE Ids(N, k)
  <2>1. ASSUME NEW k, k = l PROVE Ids(M, k) = Ids(N, k) \cup {id}
    <3>1. \A i : i \in Ids(M, k) <=> i \in Ids(N, k) \/ i = id
      BY <2>1, MergeFacts
    <3>. QED
      BY <3>1
  <2>2. ASSUME NEW k, k # l PROVE Ids(M, k) = Ids(N, k)
    <3>1. \A i : i \in Ids(M, k) <=> i \in Ids(N, k)
      BY <2>2, MergeFacts
    <3>. QED
      BY <3>1
  <2>. QED
    BY <2>1, <2>2
<1>2. \A k, i : i \in Ids(M, k) =>
        M[<<k, i>>] = IF k = l /\ i = id THEN p ELSE N[<<k, i>>]
  BY MergeFacts
<1>3. EventsOf(M) = IF l = "Event" THEN Put(EventsOf(N), id, EventOf(p)) ELSE EventsOf(N)
  <2>1. /\ DOMAIN EventsOf(N) = Ids(N, "Event") /\ DOMAIN EventsOf(M) = Ids(M, "Event")
        /\ \A i \in Ids(N, "Event") : EventsOf(N)[i] = EventOf(N[<<"Event", i>>])
        /\ EventsOf(M) = [i \in Ids(M, "Event") |-> EventOf(M[<<"Event", i>>])]
    BY DEF EventsOf
  <2>2. CASE l = "Event"
    <3>1. Ids(M, "Event") = Ids(N, "Event") \cup {id}
      BY <2>2, <1>1
    <3>2. ASSUME NEW i \in Ids(M, "Event")
          PROVE  EventOf(M[<<"Event", i>>]) = IF i = id THEN EventOf(p) ELSE EventsOf(N)[i]
      <4>1. CASE i = id
        BY <2>2, <4>1, <1>2
      <4>2. CASE i # id
        BY <2>1, <2>2, <3>1, <4>2, <1>2
      <4>. QED
        BY <4>1, <4>2
    <3>3. EventsOf(M) = [i \in Ids(N, "Event") \cup {id} |->
                     IF i = id THEN EventOf(p) ELSE EventsOf(N)[i]]
      BY <2>1, <3>1, <3>2
    <3>. QED
      BY <2>1, <2>2, <3>3 DEF Put
  <2>3. CASE l # "Event"
    <3>1. \A i \in Ids(M, "Event") : M[<<"Event", i>>] = N[<<"Event", i>>]
      BY <2>3, <1>2
    <3>2. Ids(M, "Event") = Ids(N, "Event")
      BY <2>3, <1>1
    <3>. QED
      BY <2>3, <3>1, <3>2 DEF EventsOf
  <2>. QED
    BY <2>2, <2>3
<1>4. ActorsOf(M) = IF l = "KnownActor" THEN Put(ActorsOf(N), id, p) ELSE ActorsOf(N)
  <2>1. /\ DOMAIN ActorsOf(N) = Ids(N, "KnownActor") /\ DOMAIN ActorsOf(M) = Ids(M, "KnownActor")
        /\ \A i \in Ids(N, "KnownActor") : ActorsOf(N)[i] = N[<<"KnownActor", i>>]
        /\ ActorsOf(M) = [i \in Ids(M, "KnownActor") |-> M[<<"KnownActor", i>>]]
    BY DEF ActorsOf
  <2>2. CASE l = "KnownActor"
    <3>1. Ids(M, "KnownActor") = Ids(N, "KnownActor") \cup {id}
      BY <2>2, <1>1
    <3>2. ASSUME NEW i \in Ids(M, "KnownActor")
          PROVE  M[<<"KnownActor", i>>] = IF i = id THEN p ELSE ActorsOf(N)[i]
      <4>1. CASE i = id
        BY <2>2, <4>1, <1>2
      <4>2. CASE i # id
        BY <2>1, <2>2, <3>1, <4>2, <1>2
      <4>. QED
        BY <4>1, <4>2
    <3>3. ActorsOf(M) = [i \in Ids(N, "KnownActor") \cup {id} |->
                     IF i = id THEN p ELSE ActorsOf(N)[i]]
      BY <2>1, <3>1, <3>2
    <3>. QED
      BY <2>1, <2>2, <3>3 DEF Put
  <2>3. CASE l # "KnownActor"
    <3>1. \A i \in Ids(M, "KnownActor") : M[<<"KnownActor", i>>] = N[<<"KnownActor", i>>]
      BY <2>3, <1>2
    <3>2. Ids(M, "KnownActor") = Ids(N, "KnownActor")
      BY <2>3, <1>1
    <3>. QED
      BY <2>3, <3>1, <3>2 DEF ActorsOf
  <2>. QED
    BY <2>2, <2>3
<1>5. DecisionsOf(M) = IF l = "VLMDecision" THEN Put(DecisionsOf(N), id, p) ELSE DecisionsOf(N)
  <2>1. /\ DOMAIN DecisionsOf(N) = Ids(N, "VLMDecision") /\ DOMAIN DecisionsOf(M) = Ids(M, "VLMDecision")
        /\ \A i \in Ids(N, "VLMDecision") : DecisionsOf(N)[i] = N[<<"VLMDecision", i>>]
        /\ DecisionsOf(M) = [i \in Ids(M, "VLMDecision") |-> M[<<"VLMDecision", i>>]]
    BY DEF DecisionsOf
  <2>2. CASE l = "VLMDecision"
    <3>1. Ids(M, "VLMDecision") = Ids(N, "VLMDecision") \cup {id}
      BY <2>2, <1>1
    <3>2. ASSUME NEW i \in Ids(M, "VLMDecision")
          PROVE  M[<<"VLMDecision", i>>] = IF i = id THEN p ELSE DecisionsOf(N)[i]
      <4>1. CASE i = id
        BY <2>2, <4>1, <1>2
      <4>2. CASE i # id
        BY <2>1, <2>2, <3>1, <4>2, <1>2
      <4>. QED
        BY <4>1, <4>2
    <3>3. DecisionsOf(M) = [i \in Ids(N, "VLMDecision") \cup {id} |->
                     IF i = id THEN p ELSE DecisionsOf(N)[i]]
      BY <2>1, <3>1, <3>2
    <3>. QED
      BY <2>1, <2>2, <3>3 DEF Put
  <2>3. CASE l # "VLMDecision"
    <3>1. \A i \in Ids(M, "VLMDecision") : M[<<"VLMDecision", i>>] = N[<<"VLMDecision", i>>]
      BY <2>3, <1>2
    <3>2. Ids(M, "VLMDecision") = Ids(N, "VLMDecision")
      BY <2>3, <1>1
    <3>. QED
      BY <2>3, <3>1, <3>2 DEF DecisionsOf
  <2>. QED
    BY <2>2, <2>3
<1>6. PoliciesOf(M) = IF l = "Policy" THEN Put(PoliciesOf(N), id, PolicyOf(p)) ELSE PoliciesOf(N)
  <2>1. /\ DOMAIN PoliciesOf(N) = Ids(N, "Policy") /\ DOMAIN PoliciesOf(M) = Ids(M, "Policy")
        /\ \A i \in Ids(N, "Policy") : PoliciesOf(N)[i] = PolicyOf(N[<<"Policy", i>>])
        /\ PoliciesOf(M) = [i \in Ids(M, "Policy") |-> PolicyOf(M[<<"Policy", i>>])]
    BY DEF PoliciesOf
  <2>2. CASE l = "Policy"
    <3>1. Ids(M, "Policy") = Ids(N, "Policy") \cup {id}
      BY <2>2, <1>1
    <3>2. ASSUME NEW i \in Ids(M, "Policy")
          PROVE  PolicyOf(M[<<"Policy", i>>]) = IF i = id THEN PolicyOf(p) ELSE PoliciesOf(N)[i]
      <4>1. CASE i = id
        BY <2>2, <4>1, <1>2
      <4>2. CASE i # id
        BY <2>1, <2>2, <3>1, <4>2, <1>2
      <4>. QED
        BY <4>1, <4>2
    <3>3. PoliciesOf(M) = [i \in Ids(N, "Policy") \cup {id} |->
                     IF i = id THEN PolicyOf(p) ELSE PoliciesOf(N)[i]]
      BY <2>1, <3>1, <3>2
    <3>. QED
      BY <2>1, <2>2, <3>3 DEF Put
  <2>3. CASE l # "Policy"
    <3>1. \A i \in Ids(M, "Policy") : M[<<"Policy", i>>] = N[<<"Policy", i>>]
      BY <2>3, <1>2
    <3>2. Ids(M, "Policy") = Ids(N, "Policy")
      BY <2>3, <1>1
    <3>. QED
      BY <2>3, <3>1, <3>2 DEF PoliciesOf
  <2>. QED
    BY <2>2, <2>3
<1>. QED
  BY <1>3, <1>4, <1>5, <1>6

\* A written node is in the graph as a dictionary would hold it.
LEMMA WrittenEvent ==
  ASSUME NEW N, NEW R, NEW t, NEW id, NEW p, NodesInv(N), RelsInv(N, R, t),
         WellNamed(<<"Event", id>>), WellFormed(<<"Event", id>>, p)
  PROVE  GraphIn(Put(N, <<"Event", id>>, p), R) = Memory!WriteEvent(GraphIn(N, R), id, EventOf(p))
<1> DEFINE l == "Event"
           M == Put(N, <<l, id>>, p)
<1>1. \A f, k, v : Memory!Put(f, k, v) = Put(f, k, v)
  BY DEF Memory!Put, Put
<1>2. l \in Labels /\ WellNamed(<<l, id>>) /\ WellFormed(<<l, id>>, p)
  BY DEF Labels
<1>3. M = Put(N, <<l, id>>, p)
  OBVIOUS
<1>. HIDE DEF l, M
<1>4. /\ EventsOf(M) = IF l = "Event" THEN Put(EventsOf(N), id, EventOf(p)) ELSE EventsOf(N)
      /\ ActorsOf(M) = IF l = "KnownActor" THEN Put(ActorsOf(N), id, p) ELSE ActorsOf(N)
      /\ DecisionsOf(M) = IF l = "VLMDecision" THEN Put(DecisionsOf(N), id, p) ELSE DecisionsOf(N)
      /\ PoliciesOf(M) = IF l = "Policy" THEN Put(PoliciesOf(N), id, PolicyOf(p)) ELSE PoliciesOf(N)
  BY <1>2, <1>3, MergeCollections
<1>5. GraphIn(M, R) = Memory!WriteEvent(GraphIn(N, R), id, EventOf(p))
  BY <1>1, <1>4 DEF l, GraphIn, Memory!WriteEvent
<1>. QED
  BY <1>5 DEF M, l

LEMMA WrittenActor ==
  ASSUME NEW N, NEW R, NEW t, NEW id, NEW p, NodesInv(N), RelsInv(N, R, t),
         WellNamed(<<"KnownActor", id>>), WellFormed(<<"KnownActor", id>>, p)
  PROVE  GraphIn(Put(N, <<"KnownActor", id>>, p), R) = Memory!WriteActor(GraphIn(N, R), id, p)
<1> DEFINE l == "KnownActor"
           M == Put(N, <<l, id>>, p)
<1>1. \A f, k, v : Memory!Put(f, k, v) = Put(f, k, v)
  BY DEF Memory!Put, Put
<1>2. l \in Labels /\ WellNamed(<<l, id>>) /\ WellFormed(<<l, id>>, p)
  BY DEF Labels
<1>3. M = Put(N, <<l, id>>, p)
  OBVIOUS
<1>. HIDE DEF l, M
<1>4. /\ EventsOf(M) = IF l = "Event" THEN Put(EventsOf(N), id, EventOf(p)) ELSE EventsOf(N)
      /\ ActorsOf(M) = IF l = "KnownActor" THEN Put(ActorsOf(N), id, p) ELSE ActorsOf(N)
      /\ DecisionsOf(M) = IF l = "VLMDecision" THEN Put(DecisionsOf(N), id, p) ELSE DecisionsOf(N)
      /\ PoliciesOf(M) = IF l = "Policy" THEN Put(PoliciesOf(N), id, PolicyOf(p)) ELSE PoliciesOf(N)
  BY <1>2, <1>3, MergeCollections
<1>5. GraphIn(M, R) = Memory!WriteActor(GraphIn(N, R), id, p)
  BY <1>1, <1>4 DEF l, GraphIn, Memory!WriteActor
<1>. QED
  BY <1>5 DEF M, l

LEMMA WrittenDecision ==
  ASSUME NEW N, NEW R, NEW t, NEW id, NEW p, NodesInv(N), RelsInv(N, R, t),
         WellNamed(<<"VLMDecision", id>>), WellFormed(<<"VLMDecision", id>>, p)
  PROVE  GraphIn(Put(N, <<"VLMDecision", id>>, p), R) = Memory!WriteDecision(GraphIn(N, R), id, p)
<1> DEFINE l == "VLMDecision"
           M == Put(N, <<l, id>>, p)
<1>1. \A f, k, v : Memory!Put(f, k, v) = Put(f, k, v)
  BY DEF Memory!Put, Put
<1>2. l \in Labels /\ WellNamed(<<l, id>>) /\ WellFormed(<<l, id>>, p)
  BY DEF Labels
<1>3. M = Put(N, <<l, id>>, p)
  OBVIOUS
<1>. HIDE DEF l, M
<1>4. /\ EventsOf(M) = IF l = "Event" THEN Put(EventsOf(N), id, EventOf(p)) ELSE EventsOf(N)
      /\ ActorsOf(M) = IF l = "KnownActor" THEN Put(ActorsOf(N), id, p) ELSE ActorsOf(N)
      /\ DecisionsOf(M) = IF l = "VLMDecision" THEN Put(DecisionsOf(N), id, p) ELSE DecisionsOf(N)
      /\ PoliciesOf(M) = IF l = "Policy" THEN Put(PoliciesOf(N), id, PolicyOf(p)) ELSE PoliciesOf(N)
  BY <1>2, <1>3, MergeCollections
<1>5. GraphIn(M, R) = Memory!WriteDecision(GraphIn(N, R), id, p)
  BY <1>1, <1>4 DEF l, GraphIn, Memory!WriteDecision
<1>. QED
  BY <1>5 DEF M, l

LEMMA WrittenPolicy ==
  ASSUME NEW N, NEW R, NEW t, NEW id, NEW p, NodesInv(N), RelsInv(N, R, t),
         WellNamed(<<"Policy", id>>), WellFormed(<<"Policy", id>>, p)
  PROVE  GraphIn(Put(N, <<"Policy", id>>, p), R) = Memory!WritePolicy(GraphIn(N, R), id, PolicyOf(p))
<1> DEFINE l == "Policy"
           M == Put(N, <<l, id>>, p)
<1>1. \A f, k, v : Memory!Put(f, k, v) = Put(f, k, v)
  BY DEF Memory!Put, Put
<1>2. l \in Labels /\ WellNamed(<<l, id>>) /\ WellFormed(<<l, id>>, p)
  BY DEF Labels
<1>3. M = Put(N, <<l, id>>, p)
  OBVIOUS
<1>. HIDE DEF l, M
<1>4. /\ EventsOf(M) = IF l = "Event" THEN Put(EventsOf(N), id, EventOf(p)) ELSE EventsOf(N)
      /\ ActorsOf(M) = IF l = "KnownActor" THEN Put(ActorsOf(N), id, p) ELSE ActorsOf(N)
      /\ DecisionsOf(M) = IF l = "VLMDecision" THEN Put(DecisionsOf(N), id, p) ELSE DecisionsOf(N)
      /\ PoliciesOf(M) = IF l = "Policy" THEN Put(PoliciesOf(N), id, PolicyOf(p)) ELSE PoliciesOf(N)
  BY <1>2, <1>3, MergeCollections
<1>5. GraphIn(M, R) = Memory!WritePolicy(GraphIn(N, R), id, PolicyOf(p))
  BY <1>1, <1>4 DEF l, GraphIn, Memory!WritePolicy
<1>. QED
  BY <1>5 DEF M, l

\* MERGE of a relationship between two nodes.
LEMMA WrittenCited ==
  ASSUME NEW N, NEW R, NEW t, NEW a, NEW b, NEW c, NEW S,
         NodesInv(N), RelsInv(N, R, t), a \in DOMAIN N, b \in DOMAIN N,
         c.weight \in Weights, c.created \in Nat, c.created <= t,
         S = Put(R, <<a, b>>, c)
  PROVE  /\ RelsInv(N, S, t)
         /\ GraphIn(N, S) = Memory!WriteCited(GraphIn(N, R), a[2], b[2], c)
<1> DEFINE n == <<a, b>>
<1>1. n = <<n[1], n[2]>> /\ n[1] = a /\ n[2] = b /\ KeyOf(n) = <<a[2], b[2]>>
  BY DEF KeyOf
<1>2. S = [x \in DOMAIN R \cup {n} |-> IF x = n THEN c ELSE R[x]]
  BY DEF Put
<1>. HIDE DEF n
<1>3. /\ DOMAIN S = DOMAIN R \cup {n} /\ S[n] = c
      /\ \A r \in DOMAIN S : S[r] = IF r = n THEN c ELSE R[r]
  BY <1>2
<1>4. RelsInv(N, S, t)
  <2>1. IsFiniteSet(DOMAIN S)
    BY <1>3, FS_AddElement DEF RelsInv
  <2>2. ASSUME NEW r \in DOMAIN S
        PROVE  /\ r = <<r[1], r[2]>> /\ r[1] \in DOMAIN N /\ r[2] \in DOMAIN N
               /\ S[r].weight \in Weights /\ S[r].created \in Nat /\ S[r].created <= t
    <3>1. CASE r = n
      BY <1>1, <1>3, <3>1
    <3>2. CASE r # n
      BY <1>3, <3>2 DEF RelsInv
    <3>. QED
      BY <3>1, <3>2
  <2>. QED
    BY <2>1, <2>2 DEF RelsInv
<1>5. /\ \A r, q \in DOMAIN S : KeyOf(r) = KeyOf(q) => r = q
      /\ DOMAIN Cited(S) = {KeyOf(r) : r \in DOMAIN S}
      /\ \A r \in DOMAIN S : Cited(S)[KeyOf(r)] = S[r]
  BY <1>4, CitedNodes
<1>6. /\ DOMAIN Cited(R) = {KeyOf(r) : r \in DOMAIN R}
      /\ \A r \in DOMAIN R : Cited(R)[KeyOf(r)] = R[r]
  BY CitedNodes
<1>7. DOMAIN Cited(S) = DOMAIN Cited(R) \cup {KeyOf(n)}
  BY <1>3, <1>5, <1>6
<1>8. ASSUME NEW key \in DOMAIN Cited(S)
      PROVE  Cited(S)[key] = IF key = KeyOf(n) THEN c ELSE Cited(R)[key]
  <2>1. PICK r \in DOMAIN S : key = KeyOf(r)
    BY <1>5
  <2>2. CASE r = n
    BY <1>3, <1>5, <2>1, <2>2
  <2>3. CASE r # n
    BY <1>3, <1>5, <1>6, <2>1, <2>3
  <2>. QED
    BY <2>2, <2>3
<1>9. Cited(S) = Memory!Put(Cited(R), KeyOf(n), c)
  <2>1. Cited(S) = [key \in DOMAIN Cited(S) |-> Cited(S)[key]]
    BY DEF Cited
  <2>2. Cited(S) = [key \in DOMAIN Cited(R) \cup {KeyOf(n)} |->
                      IF key = KeyOf(n) THEN c ELSE Cited(R)[key]]
    BY <1>7, <1>8, <2>1
  <2>. QED
    BY <2>2 DEF Memory!Put
<1>. QED
  BY <1>1, <1>4, <1>9 DEF GraphIn, Memory!WriteCited

\* What is written to both keeps the one the graph of the other.
LEMMA TextsOf ==
  ASSUME NEW g, IsGraph(g)
  PROVE  AsText(g) = [events |-> [id \in DOMAIN g.events |-> EventOf(EventNode(g.events[id]))],
                      actors |-> g.actors, decisions |-> g.decisions,
                      policies |-> g.policies, cited |-> g.cited]
<1> DEFINE texts == [id \in DOMAIN g.events |-> EventOf(EventNode(g.events[id]))]
<1>1. AsText(g) = [g EXCEPT !.events = texts]
  BY DEF AsText
<1>. HIDE DEF texts
<1>2. AsText(g) = [events |-> texts, actors |-> g.actors, decisions |-> g.decisions,
                   policies |-> g.policies, cited |-> g.cited]
  BY <1>1 DEF IsGraph
<1>. QED
  BY <1>2 DEF texts

LEMMA HoldsEvent ==
  ASSUME NEW N, NEW R, NEW g, Holds(N, R, g), NEW M, NEW id, NEW e \in MirroredEvent,
         GraphIn(M, R) = Memory!WriteEvent(GraphIn(N, R), id, EventOf(EventNode(e)))
  PROVE  Holds(M, R, Memory!WriteEvent(g, id, e))
<1> DEFINE h == Memory!WriteEvent(g, id, e)
           text(f) == [x \in DOMAIN f |-> EventOf(EventNode(f[x]))]
<1>1. /\ IsGraph(g) /\ AsText(g) = GraphIn(N, R)
      /\ \A x \in DOMAIN g.events : g.events[x] \in MirroredEvent
  BY DEF Holds
<1>2. h = [events |-> Memory!Put(g.events, id, e), actors |-> g.actors,
           decisions |-> g.decisions, policies |-> g.policies, cited |-> g.cited]
  BY <1>1 DEF IsGraph, Memory!WriteEvent
<1>. HIDE DEF h
<1>3. IsGraph(h) /\ h.events = Memory!Put(g.events, id, e)
  BY <1>2 DEF IsGraph
<1>4. \A x \in DOMAIN h.events : h.events[x] \in MirroredEvent
  BY <1>1, <1>3 DEF Memory!Put
<1>5. text(h.events) = Memory!Put(text(g.events), id, EventOf(EventNode(e)))
  BY <1>3 DEF Memory!Put
<1>6. /\ AsText(h) = [events |-> text(h.events), actors |-> h.actors, decisions |-> h.decisions,
                      policies |-> h.policies, cited |-> h.cited]
      /\ AsText(g) = [events |-> text(g.events), actors |-> g.actors, decisions |-> g.decisions,
                      policies |-> g.policies, cited |-> g.cited]
  BY <1>1, <1>3, TextsOf
<1>. HIDE DEF text
<1>7. AsText(h) = GraphIn(M, R)
  BY <1>1, <1>2, <1>5, <1>6 DEF Memory!WriteEvent
<1>. QED
  BY <1>3, <1>4, <1>7 DEF Holds, h

LEMMA HoldsOther ==
  ASSUME NEW N, NEW R, NEW g, Holds(N, R, g), NEW M, NEW S, NEW h, NEW id, NEW m, NEW p,
         \/ /\ GraphIn(M, S) = Memory!WriteActor(GraphIn(N, R), id, p)
            /\ h = Memory!WriteActor(g, id, p)
         \/ /\ GraphIn(M, S) = Memory!WriteDecision(GraphIn(N, R), id, p)
            /\ h = Memory!WriteDecision(g, id, p)
         \/ /\ GraphIn(M, S) = Memory!WritePolicy(GraphIn(N, R), id, p)
            /\ h = Memory!WritePolicy(g, id, p)
         \/ /\ GraphIn(M, S) = Memory!WriteCited(GraphIn(N, R), id, m, p)
            /\ h = Memory!WriteCited(g, id, m, p)
  PROVE  Holds(M, S, h)
<1> DEFINE texts == [x \in DOMAIN g.events |-> EventOf(EventNode(g.events[x]))]
<1>1. /\ IsGraph(g) /\ AsText(g) = GraphIn(N, R)
      /\ \A x \in DOMAIN g.events : g.events[x] \in MirroredEvent
  BY DEF Holds
<1>2. IsGraph(h) /\ h.events = g.events
  BY <1>1 DEF IsGraph, Memory!WriteActor, Memory!WriteDecision, Memory!WritePolicy, Memory!WriteCited
<1>3. /\ AsText(h) = [events |-> texts, actors |-> h.actors, decisions |-> h.decisions,
                      policies |-> h.policies, cited |-> h.cited]
      /\ AsText(g) = [events |-> texts, actors |-> g.actors, decisions |-> g.decisions,
                      policies |-> g.policies, cited |-> g.cited]
  BY <1>1, <1>2, TextsOf
<1>. HIDE DEF texts
<1>4. AsText(h) = GraphIn(M, S)
  BY <1>1, <1>2, <1>3
     DEF IsGraph, Memory!WriteActor, Memory!WriteDecision, Memory!WritePolicy, Memory!WriteCited
<1>. QED
  BY <1>1, <1>2, <1>4 DEF Holds

-----------------------------------------------------------------------------
(* The steps of GraphMirror.                                               *)

\* Nothing is written, or it does not get through.
LEMMA UnwrittenStep ==
  ASSUME MirrorInv, UNCHANGED database, now' \in Nat, now <= now'
  PROVE  MirrorInv'
<1>1. nodes' = nodes /\ rels' = rels /\ promised' = promised
  BY DEF database
<1>2. RelsInv(nodes, rels, now')
  <2>1. now \in Nat
    BY DEF MirrorInv
  <2>. QED
    BY <2>1 DEF MirrorInv, RelsInv
<1>. QED
  BY <1>1, <1>2 DEF MirrorInv

LEMMA NodeStep ==
  ASSUME MirrorInv, NEW l, NEW id, NEW p, WellNamed(<<l, id>>), WellFormed(<<l, id>>, p),
         nodes' = Put(nodes, <<l, id>>, p), rels' = rels, now' = now,
         Holds(nodes', rels', promised')
  PROVE  MirrorInv'
<1>1. NodesInv(nodes) /\ RelsInv(nodes, rels, now)
  BY DEF MirrorInv
<1>2. NodesInv(nodes') /\ RelsInv(nodes', rels, now)
  BY <1>1, MergeFacts
<1>. QED
  BY <1>2 DEF MirrorInv

LEMMA PutEventStep ==
  ASSUME MirrorInv, NEW id \in EventIds, NEW e \in MirroredEvent, PutEvent(id, e), now' = now
  PROVE  MirrorInv'
<1>1. CASE UNCHANGED database
  BY <1>1, UnwrittenStep DEF MirrorInv
<1>2. CASE /\ nodes' = Put(nodes, <<"Event", id>>, EventNode(e)) /\ rels' = rels
           /\ promised' = Memory!WriteEvent(promised, id, e)
  <2>1. WellNamed(<<"Event", id>>) /\ WellFormed(<<"Event", id>>, EventNode(e))
    BY DEF WellNamed, WellFormed
  <2>2. Holds(nodes', rels', promised')
    <3>1. NodesInv(nodes) /\ RelsInv(nodes, rels, now) /\ Holds(nodes, rels, promised)
      BY DEF MirrorInv
    <3>2. GraphIn(nodes', rels) = Memory!WriteEvent(GraphIn(nodes, rels), id, EventOf(EventNode(e)))
      BY <1>2, <3>1, <2>1, WrittenEvent
    <3>3. Holds(nodes', rels, Memory!WriteEvent(promised, id, e))
      BY <3>1, <3>2, HoldsEvent
    <3>. QED
      BY <1>2, <3>3
  <2>. QED
    BY <1>2, <2>1, <2>2, NodeStep
<1>. QED
  BY <1>1, <1>2 DEF PutEvent, Through, Merge, Dictionaries, database

LEMMA PutPolicyStep ==
  ASSUME MirrorInv, NEW id \in PolicyIds, NEW p, PutPolicy(id, p), now' = now
  PROVE  MirrorInv'
<1>1. CASE UNCHANGED database
  BY <1>1, UnwrittenStep DEF MirrorInv
<1>2. CASE /\ nodes' = Put(nodes, <<"Policy", id>>, PolicyNode(p)) /\ rels' = rels
           /\ promised' = Memory!WritePolicy(promised, id, p)
  <2>1. PolicyOf(PolicyNode(p)) = p
    BY DEF PolicyOf, PolicyNode
  <2>2. WellNamed(<<"Policy", id>>) /\ WellFormed(<<"Policy", id>>, PolicyNode(p))
    BY <2>1 DEF WellNamed, WellFormed
  <2>3. Holds(nodes', rels', promised')
    <3>1. NodesInv(nodes) /\ RelsInv(nodes, rels, now)
      BY DEF MirrorInv
    <3>2. GraphIn(Put(nodes, <<"Policy", id>>, PolicyNode(p)), rels) = Memory!WritePolicy(GraphIn(nodes, rels), id, p)
      BY <3>1, <2>1, <2>2, WrittenPolicy
    <3>3. Holds(nodes, rels, promised)
      BY DEF MirrorInv
    <3>. QED
      BY <1>2, <3>2, <3>3, HoldsOther
  <2>. QED
    BY <1>2, <2>2, <2>3, NodeStep
<1>. QED
  BY <1>1, <1>2 DEF PutPolicy, Through, Merge, Dictionaries, database

LEMMA WriteActorStep ==
  ASSUME MirrorInv, NEW id \in ActorIds, NEW look \in Looks \cup {Null},
         WriteActor(id, [face_embedding |-> look])
  PROVE  MirrorInv'
<1> DEFINE a == [face_embedding |-> look]
<1>1. now' = now
  BY DEF WriteActor, Caller
<1>2. WellNamed(<<"KnownActor", id>>) /\ WellFormed(<<"KnownActor", id>>, a)
  BY DEF WellNamed, WellFormed
<1>. HIDE DEF a
<1>3. CASE UNCHANGED database
  BY <1>1, <1>3, UnwrittenStep DEF MirrorInv
<1>4. CASE /\ nodes' = Put(nodes, <<"KnownActor", id>>, a) /\ rels' = rels
           /\ promised' = Memory!WriteActor(promised, id, a)
  <2>1. Holds(nodes', rels', promised')
    <3>1. NodesInv(nodes) /\ RelsInv(nodes, rels, now)
      BY DEF MirrorInv
    <3>2. GraphIn(Put(nodes, <<"KnownActor", id>>, a), rels) = Memory!WriteActor(GraphIn(nodes, rels), id, a)
      BY <3>1, <1>2, WrittenActor
    <3>3. Holds(nodes, rels, promised)
      BY DEF MirrorInv
    <3>. QED
      BY <1>4, <3>2, <3>3, HoldsOther
  <2>. QED
    BY <1>1, <1>2, <1>4, <2>1, NodeStep
<1>5. WriteActor(id, a)
  BY DEF a
<1>. QED
  BY <1>3, <1>4, <1>5 DEF WriteActor, Through, Merge, Dictionaries, database

LEMMA WriteDecisionStep ==
  ASSUME MirrorInv, NEW id \in DecisionIds, NEW of, WriteDecision(id, of)
  PROVE  MirrorInv'
<1> DEFINE d == [ts |-> now, triggered_by |-> of]
<1>1. now' = now
  BY DEF WriteDecision, Caller
<1>2. WellNamed(<<"VLMDecision", id>>) /\ WellFormed(<<"VLMDecision", id>>, d)
  BY DEF WellNamed, WellFormed
<1>3. \/ UNCHANGED database
      \/ /\ nodes' = Put(nodes, <<"VLMDecision", id>>, d) /\ rels' = rels
         /\ promised' = Memory!WriteDecision(promised, id, d)
  BY DEF WriteDecision, Through, Merge, Dictionaries, database
<1>. HIDE DEF d
<1>4. CASE UNCHANGED database
  BY <1>1, <1>4, UnwrittenStep DEF MirrorInv
<1>5. CASE /\ nodes' = Put(nodes, <<"VLMDecision", id>>, d) /\ rels' = rels
           /\ promised' = Memory!WriteDecision(promised, id, d)
  <2>1. Holds(nodes', rels', promised')
    <3>1. NodesInv(nodes) /\ RelsInv(nodes, rels, now)
      BY DEF MirrorInv
    <3>2. GraphIn(Put(nodes, <<"VLMDecision", id>>, d), rels) = Memory!WriteDecision(GraphIn(nodes, rels), id, d)
      BY <3>1, <1>2, WrittenDecision
    <3>3. Holds(nodes, rels, promised)
      BY DEF MirrorInv
    <3>. QED
      BY <1>5, <3>2, <3>3, HoldsOther
  <2>. QED
    BY <1>1, <1>2, <1>5, <2>1, NodeStep
<1>. QED
  BY <1>3, <1>4, <1>5

LEMMA NamedNode ==
  ASSUME NodesInv(nodes), NEW n \in DOMAIN nodes
  PROVE  Named(n[2]) = {n}
BY LabelledNodes DEF Named

\* Both ends exist, once each: one relationship is merged.
LEMMA WriteCitedStep ==
  ASSUME MirrorInv, NEW d, NEW m, NEW w \in Weights, WriteCited(d, m, w)
  PROVE  MirrorInv'
<1> DEFINE c == [weight |-> w, created |-> now]
<1>1. /\ now' = now /\ now \in Nat /\ NodesInv(nodes) /\ RelsInv(nodes, rels, now)
      /\ c.weight \in Weights /\ c.created \in Nat /\ c.created <= now
  BY DEF WriteCited, Caller, MirrorInv
<1>2. \/ UNCHANGED database
      \/ /\ backend = "neo4j" /\ MergeCited(d, m, c) /\ nodes' = nodes
         /\ promised' = Memory!WriteCited(promised, d, m, c)
  BY DEF WriteCited, Through, Dictionaries, database
<1>. HIDE DEF c
<1>3. CASE UNCHANGED database
  BY <1>1, <1>3, UnwrittenStep
<1>4. CASE /\ backend = "neo4j" /\ MergeCited(d, m, c) /\ nodes' = nodes
           /\ promised' = Memory!WriteCited(promised, d, m, c)
  <2>1. Memory!Citable(GraphIn(nodes, rels), d, m)
    BY <1>4, GraphParts DEF WriteCited, Current
  <2>2. /\ d \in Ids(nodes, "VLMDecision")
        /\ m \in Ids(nodes, "Event") \/ m \in Ids(nodes, "KnownActor")
    BY <2>1 DEF Memory!Citable, GraphIn, DecisionsOf, EventsOf, ActorsOf
  <2>3. PICK a \in DOMAIN nodes : a[2] = d
    BY <2>2 DEF Ids
  <2>4. PICK b \in DOMAIN nodes : b[2] = m
    BY <2>2 DEF Ids
  <2>5. Named(d) = {a} /\ Named(m) = {b}
    BY <1>1, <2>3, <2>4, NamedNode
  <2>6. Named(d) \X Named(m) = {<<a, b>>}
    BY <2>5
  <2>7. rels' = Put(rels, <<a, b>>, c)
    BY <1>4, <2>6 DEF MergeCited, Put
  <2>8. /\ RelsInv(nodes, rels', now)
        /\ GraphIn(nodes, rels') = Memory!WriteCited(GraphIn(nodes, rels), a[2], b[2], c)
    BY <1>1, <2>7, WrittenCited
  <2>9. Holds(nodes, rels, promised)
    BY DEF MirrorInv
  <2>. QED
    BY <1>1, <1>4, <2>3, <2>4, <2>8, <2>9, HoldsOther DEF MirrorInv
<1>. QED
  BY <1>2, <1>3, <1>4

LEMMA EmptyGraph ==
  ASSUME NEW N, NEW R, NEW t, N = Memory!Nothing, R = Memory!Nothing
  PROVE  NodesInv(N) /\ RelsInv(N, R, t) /\ Holds(N, R, Memory!Empty)
<1>1. DOMAIN N = {} /\ DOMAIN R = {}
  BY DEF Memory!Nothing
<1>2. NodesInv(N) /\ RelsInv(N, R, t)
  BY <1>1, FS_EmptySet DEF NodesInv, RelsInv
<1>3. \A l : Ids(N, l) = {}
  BY <1>1 DEF Ids
<1>4. /\ EventsOf(N) = Memory!Nothing /\ ActorsOf(N) = Memory!Nothing
      /\ DecisionsOf(N) = Memory!Nothing /\ PoliciesOf(N) = Memory!Nothing
  BY <1>3 DEF EventsOf, ActorsOf, DecisionsOf, PoliciesOf, Memory!Nothing
<1>5. Cited(R) = Memory!Nothing
  BY <1>1 DEF Cited, Memory!Nothing
<1>6. GraphIn(N, R) = Memory!Empty
  BY <1>4, <1>5 DEF GraphIn, Memory!Empty
<1>7. IsGraph(Memory!Empty) /\ Memory!Empty.events = Memory!Nothing /\ DOMAIN Memory!Nothing = {}
  BY DEF IsGraph, Memory!Empty, Memory!Nothing
<1>8. [id \in DOMAIN Memory!Empty.events |-> EventOf(EventNode(Memory!Empty.events[id]))]
        = Memory!Nothing
  BY <1>7 DEF Memory!Nothing
<1>9. AsText(Memory!Empty) = Memory!Empty
  BY <1>7, <1>8, TextsOf DEF Memory!Empty
<1>. QED
  BY <1>2, <1>6, <1>7, <1>9 DEF Holds

LEMMA ClearAllStep ==
  ASSUME MirrorInv, ClearAll
  PROVE  MirrorInv'
<1>1. now' = now /\ now \in Nat
  BY DEF ClearAll, Caller, MirrorInv
<1>2. CASE UNCHANGED database
  BY <1>1, <1>2, UnwrittenStep
<1>3. CASE nodes' = Memory!Nothing /\ rels' = Memory!Nothing /\ promised' = Memory!Empty
  <2>1. NodesInv(nodes') /\ RelsInv(nodes', rels', now) /\ Holds(nodes', rels', Memory!Empty)
    BY <1>3, EmptyGraph
  <2>. QED
    BY <1>1, <1>3, <2>1 DEF MirrorInv
<1>. QED
  BY <1>2, <1>3 DEF ClearAll, Through, database

LEMMA MirrorInitInv == MirrorInit => MirrorInv
<1>. SUFFICES ASSUME MirrorInit PROVE MirrorInv
  OBVIOUS
<1>1. nodes = Memory!Nothing /\ rels = Memory!Nothing /\ promised = Memory!Empty /\ now \in Nat
  BY DEF MirrorInit
<1>2. NodesInv(nodes) /\ RelsInv(nodes, rels, now) /\ Holds(nodes, rels, Memory!Empty)
  BY <1>1, EmptyGraph
<1>. QED
  BY <1>1, <1>2 DEF MirrorInv

LEMMA MirrorEventStep ==
  ASSUME MirrorInv, NEW alert \in Records, MirrorEvent(alert)
  PROVE  MirrorInv'
<1>1. now' = now /\ now \in Nat
  BY DEF MirrorEvent, MirrorInv
<1>2. CASE alert.id = Null
  BY <1>1, <1>2, UnwrittenStep DEF MirrorEvent, database
<1>3. CASE alert.id # Null
  <2> DEFINE e == [ts |-> CoerceTs(alert), camera_id |-> alert.camera, metadata |-> alert.metadata]
  <2>1. alert.id \in EventIds /\ alert.ts \in Int /\ alert.camera \in Cameras /\ alert.metadata \in Notes
    BY <1>3, GraphMirrorAssumption
  <2>2. e \in MirroredEvent
    BY <1>1, <2>1 DEF MirroredEvent, CoerceTs
  <2>3. PutEvent(alert.id, e)
    BY <1>3 DEF MirrorEvent
  <2>. HIDE DEF e
  <2>. QED
    BY <1>1, <2>1, <2>2, <2>3, PutEventStep
<1>. QED
  BY <1>2, <1>3

LEMMA MirrorStep == MirrorInv /\ [MirrorNext]_mirrorVars => MirrorInv'
<1>. SUFFICES ASSUME MirrorInv, [MirrorNext]_mirrorVars PROVE MirrorInv'
  OBVIOUS
<1>0. now \in Nat /\ Step \in Nat
  BY MirrorConstants DEF MirrorInv
<1>1. CASE TimePasses
  <2>1. UNCHANGED database /\ now' = now + Step
    BY <1>1 DEF TimePasses
  <2>. QED
    BY <1>0, <2>1, UnwrittenStep
<1>2. CASE Restart
  BY <1>0, <1>2, UnwrittenStep DEF Restart
<1>3. CASE ClearAll
  BY <1>3, ClearAllStep
<1>4. ASSUME NEW id \in ActorIds, NEW look \in Looks \cup {Null},
             WriteActor(id, [face_embedding |-> look])
      PROVE  MirrorInv'
  BY <1>4, WriteActorStep
<1>5. ASSUME NEW id \in DecisionIds, NEW of \in EventIds \cup {Null}, WriteDecision(id, of)
      PROVE  MirrorInv'
  BY <1>5, WriteDecisionStep
<1>6. ASSUME NEW d \in DecisionIds, NEW m \in EventIds \cup ActorIds, NEW w \in Weights,
             WriteCited(d, m, w)
      PROVE  MirrorInv'
  BY <1>6, WriteCitedStep
<1>7. ASSUME NEW id \in OtherPolicies, NEW p \in Policies, WritePolicy(id, p)
      PROVE  MirrorInv'
  BY <1>7, PutPolicyStep DEF WritePolicy, Caller, PolicyIds
<1>8. ASSUME NEW alert \in Records, MirrorEvent(alert)
      PROVE  MirrorInv'
  BY <1>8, MirrorEventStep
<1>9. ASSUME NEW id \in StorePolicies, NEW kind, NEW expires, CreatePolicy(id, kind, expires)
      PROVE  MirrorInv'
  <2>1. id \in PolicyIds /\ now' = now
    BY <1>9 DEF PolicyIds, CreatePolicy
  <2>2. (\E p : PutPolicy(id, p)) \/ UNCHANGED <<database, now>>
    BY <1>9 DEF CreatePolicy
  <2>. QED
    BY <1>0, <2>1, <2>2, PutPolicyStep, UnwrittenStep
<1>10. CASE UNCHANGED <<database, now>>
  BY <1>0, <1>10, UnwrittenStep
<1>11. ASSUME NEW id \in StorePolicies,
              Revoke(id) \/ Reinstate(id) \/ \E expires \in Expiries : RefinePolicy(id, expires)
       PROVE  MirrorInv'
  BY <1>11, <1>10 DEF Revoke, Reinstate, RefinePolicy, StoreOnly
<1>12. ASSUME NEW id \in StorePolicies, NEW outcome, RecordHit(id, outcome)
       PROVE  MirrorInv'
  BY <1>12, <1>10 DEF RecordHit, StoreOnly
<1>13. CASE UNCHANGED mirrorVars
  BY <1>13, <1>10 DEF mirrorVars
<1>. QED
  BY <1>1, <1>2, <1>3, <1>4, <1>5, <1>6, <1>7, <1>8, <1>9, <1>11, <1>12, <1>13 DEF MirrorNext

\* The invariant holds in every reachable state.
THEOREM MirrorIsTyped == MirrorSpec => []MirrorInv
BY MirrorInitInv, MirrorStep, PTL DEF MirrorSpec

-----------------------------------------------------------------------------
(* The queries.                                                            *)

\* MemoryGraph instantiates the library for itself.
LEMMA MemoryLibrary ==
  ASSUME NEW S
  PROVE  Memory!Cardinality(S) = Cardinality(S) /\ Memory!Max(S) = Max(S)
BY DEF Memory!Cardinality, Cardinality, Memory!Max, Max

LEMMA SameCount ==
  ASSUME NEW S, NEW T, NEW f, IsFiniteSet(S), DOMAIN f = S, f = [s \in S |-> f[s]],
         \A s \in S : f[s] \in T,
         \A s, u \in S : f[s] = f[u] => s = u, \A x \in T : \E s \in S : f[s] = x
  PROVE  Cardinality(T) = Cardinality(S)
<1>1. f \in Bijection(S, T)
  BY DEF Bijection, Injection, Surjection, IsInjective
<1>2. ExistsBijection(S, T)
  BY <1>1 DEF ExistsBijection
<1>. QED
  BY <1>2, FS_Bijection

\* What the dictionaries hold, in terms of nodes and relationships.
LEMMA PromisedFacts ==
  ASSUME MirrorInv
  PROVE  /\ NodesInv(nodes) /\ RelsInv(nodes, rels, now)
         /\ DOMAIN promised.events = DOMAIN EventsOf(nodes)
         /\ \A id \in DOMAIN promised.events :
              promised.events[id].camera_id = EventsOf(nodes)[id].camera_id
         /\ promised.actors = ActorsOf(nodes)
         /\ promised.policies = PoliciesOf(nodes) /\ promised.cited = Cited(rels)
         /\ \A l : Ids(nodes, l) = Labelled(l)
<1> DEFINE texts == [id \in DOMAIN promised.events |-> EventOf(EventNode(promised.events[id]))]
<1>1. /\ NodesInv(nodes) /\ RelsInv(nodes, rels, now)
      /\ IsGraph(promised) /\ AsText(promised) = GraphIn(nodes, rels)
      /\ \A id \in DOMAIN promised.events : promised.events[id] \in MirroredEvent
  BY DEF MirrorInv, Holds
<1>2. AsText(promised) = [events |-> texts, actors |-> promised.actors, decisions |-> promised.decisions,
                          policies |-> promised.policies, cited |-> promised.cited]
  BY <1>1, TextsOf
<1>3. ASSUME NEW e \in MirroredEvent PROVE EventOf(EventNode(e)).camera_id = e.camera_id
  BY DEF EventOf, EventNode, MirroredEvent
<1>4. DOMAIN texts = DOMAIN promised.events
      /\ \A id \in DOMAIN promised.events : texts[id].camera_id = promised.events[id].camera_id
  BY <1>1, <1>3
<1>. HIDE DEF texts
<1>5. /\ texts = EventsOf(nodes) /\ promised.actors = ActorsOf(nodes)
      /\ promised.policies = PoliciesOf(nodes) /\ promised.cited = Cited(rels)
  BY <1>1, <1>2 DEF GraphIn
<1>6. \A l : Ids(nodes, l) = Labelled(l)
  BY DEF Ids, Labelled
<1>. QED
  BY <1>1, <1>4, <1>5, <1>6

LEMMA ActivePoliciesAgree ==
  ASSUME MirrorInv
  PROVE  Neo4jActivePolicies(now) = Memory!ActivePolicies(promised, now)
<1>1. DOMAIN promised.policies = Labelled("Policy")
  BY PromisedFacts DEF PoliciesOf
<1>2. ASSUME NEW id \in Labelled("Policy")
      PROVE  now < nodes[<<"Policy", id>>].expires_at <=> Memory!IsActive(promised.policies[id], now)
  <2> DEFINE n == <<"Policy", id>>
             p == PolicyOf(nodes[n])
  <2>1. n \in DOMAIN nodes /\ n[1] = "Policy"
    BY PromisedFacts, LabelledNodes
  <2>2. promised.policies[id] = p
    BY PromisedFacts DEF PoliciesOf
  <2>3. nodes[n] = PolicyNode(p)
    <3>1. WellFormed(n, nodes[n])
      BY <2>1, PromisedFacts DEF NodesInv
    <3>. QED
      BY <2>1, <3>1 DEF WellFormed
  <2>4. PolicyNode(p).expires_at = p.created + p.ttl
    BY DEF PolicyNode
  <2>. QED
    BY <2>2, <2>3, <2>4 DEF Memory!IsActive
<1>. QED
  BY <1>1, <1>2 DEF Neo4jActivePolicies, Memory!ActivePolicies

LEMMA EventCountsAgree ==
  ASSUME MirrorInv, NEW camera
  PROVE  Neo4jCountEvents(camera) = Memory!CountEvents(promised, camera)
<1> DEFINE S == {id \in DOMAIN promised.events : camera \in {Null, promised.events[id].camera_id}}
           T == {n \in DOMAIN nodes : n[1] = "Event" /\ camera \in {Null, nodes[n].camera_id}}
           f == [n \in T |-> n[2]]
<1>1. IsFiniteSet(T)
  BY PromisedFacts, FS_Subset DEF NodesInv
<1>2. DOMAIN promised.events = Ids(nodes, "Event")
  BY PromisedFacts DEF EventsOf
<1>3. ASSUME NEW n \in DOMAIN nodes, n[1] = "Event"
      PROVE  /\ n[2] \in DOMAIN promised.events
             /\ promised.events[n[2]].camera_id = nodes[n].camera_id
  <2>1. n = <<"Event", n[2]>>
    BY <1>3, PromisedFacts DEF NodesInv, WellNamed
  <2>2. n[2] \in Ids(nodes, "Event")
    BY <1>3 DEF Ids
  <2>3. /\ n[2] \in DOMAIN promised.events
        /\ promised.events[n[2]].camera_id = EventOf(nodes[n]).camera_id
    BY <2>1, <2>2, PromisedFacts DEF EventsOf
  <2>4. PICK e \in MirroredEvent : nodes[n] = EventNode(e)
    BY <1>3, PromisedFacts DEF NodesInv, WellFormed
  <2>5. EventOf(nodes[n]).camera_id = nodes[n].camera_id
    BY <2>4 DEF EventOf, EventNode, MirroredEvent
  <2>. QED
    BY <1>2, <2>2, <2>3, <2>5
<1>4. ASSUME NEW id \in DOMAIN promised.events
      PROVE  <<"Event", id>> \in DOMAIN nodes
  BY <1>2, PromisedFacts, LabelledNodes
<1>5. \A n \in T : f[n] \in S
  BY <1>3
<1>6. \A n, m \in T : f[n] = f[m] => n = m
  BY PromisedFacts, LabelledNodes
<1>7. ASSUME NEW id \in S PROVE \E n \in T : f[n] = id
  <2> DEFINE n == <<"Event", id>>
  <2>1. n \in DOMAIN nodes /\ n[1] = "Event" /\ n[2] = id
    BY <1>4
  <2>. HIDE DEF n
  <2>. QED
    BY <1>3, <2>1
<1>8. DOMAIN f = T /\ f = [n \in T |-> f[n]]
  OBVIOUS
<1>. HIDE DEF f, S, T
<1>9. Cardinality(S) = Cardinality(T)
  BY <1>1, <1>5, <1>6, <1>7, <1>8, SameCount
<1>10. Neo4jCountEvents(camera) = Cardinality(T)
  BY DEF T, Neo4jCountEvents
<1>11. Memory!CountEvents(promised, camera) = Cardinality(S)
  BY MemoryLibrary DEF S, Memory!CountEvents
<1>. QED
  BY <1>9, <1>10, <1>11

LEMMA PolicyCountsAgree ==
  ASSUME MirrorInv, NEW kind
  PROVE  Neo4jCountPolicies(kind) = Memory!CountPolicies(promised, kind)
<1> DEFINE S == {id \in DOMAIN promised.policies : kind \in {Null, promised.policies[id].kind}}
           T == {n \in DOMAIN nodes : n[1] = "Policy" /\ kind \in {Null, PolicyOf(nodes[n]).kind}}
           f == [n \in T |-> n[2]]
<1>1. IsFiniteSet(T)
  BY PromisedFacts, FS_Subset DEF NodesInv
<1>2. DOMAIN promised.policies = Ids(nodes, "Policy")
  BY PromisedFacts DEF PoliciesOf
<1>3. ASSUME NEW n \in DOMAIN nodes, n[1] = "Policy"
      PROVE  /\ n[2] \in DOMAIN promised.policies
             /\ promised.policies[n[2]] = PolicyOf(nodes[n])
  <2>1. n = <<"Policy", n[2]>>
    BY <1>3, PromisedFacts DEF NodesInv, WellNamed
  <2>2. n[2] \in Ids(nodes, "Policy")
    BY <1>3 DEF Ids
  <2>. QED
    BY <1>2, <2>1, <2>2, PromisedFacts DEF PoliciesOf
<1>4. ASSUME NEW id \in DOMAIN promised.policies
      PROVE  <<"Policy", id>> \in DOMAIN nodes
  BY <1>2, PromisedFacts, LabelledNodes
<1>5. \A n \in T : f[n] \in S
  BY <1>3
<1>6. \A n, m \in T : f[n] = f[m] => n = m
  BY PromisedFacts, LabelledNodes
<1>7. ASSUME NEW id \in S PROVE \E n \in T : f[n] = id
  <2> DEFINE n == <<"Policy", id>>
  <2>1. n \in DOMAIN nodes /\ n[1] = "Policy" /\ n[2] = id
    BY <1>4
  <2>. HIDE DEF n
  <2>. QED
    BY <1>3, <2>1
<1>8. DOMAIN f = T /\ f = [n \in T |-> f[n]]
  OBVIOUS
<1>. HIDE DEF f, S, T
<1>9. Cardinality(S) = Cardinality(T)
  BY <1>1, <1>5, <1>6, <1>7, <1>8, SameCount
<1>10. Neo4jCountPolicies(kind) = Cardinality(T)
  BY DEF T, Neo4jCountPolicies
<1>11. Memory!CountPolicies(promised, kind) = Cardinality(S)
  BY MemoryLibrary DEF S, Memory!CountPolicies
<1>. QED
  BY <1>9, <1>10, <1>11

LEMMA CitationCountsAgree ==
  ASSUME MirrorInv, NEW d
  PROVE  Cardinality(Neo4jCitationsFrom(d)) = Cardinality(Memory!CitationsFrom(promised, d))
<1> DEFINE S == Memory!CitationsFrom(promised, d)
           T == Neo4jCitationsFrom(d)
           f == [r \in T |-> KeyOf(r)]
<1>1. IsFiniteSet(T)
  BY PromisedFacts, FS_Subset DEF Neo4jCitationsFrom, RelsInv
<1>2. /\ \A r, q \in DOMAIN rels : KeyOf(r) = KeyOf(q) => r = q
      /\ DOMAIN promised.cited = {KeyOf(r) : r \in DOMAIN rels}
  BY PromisedFacts, CitedNodes
<1>3. \A r : KeyOf(r)[1] = r[1][2]
  BY DEF KeyOf
<1>4. \A r \in T : f[r] \in S
  BY <1>2, <1>3 DEF Neo4jCitationsFrom, Memory!CitationsFrom
<1>5. \A r, q \in T : f[r] = f[q] => r = q
  BY <1>2 DEF Neo4jCitationsFrom
<1>6. \A key \in S : \E r \in T : f[r] = key
  BY <1>2, <1>3 DEF Neo4jCitationsFrom, Memory!CitationsFrom
<1>7. DOMAIN f = T /\ f = [r \in T |-> f[r]]
  OBVIOUS
<1>. HIDE DEF f, S, T
<1>8. Cardinality(S) = Cardinality(T)
  BY <1>1, <1>4, <1>5, <1>6, <1>7, SameCount
<1>. QED
  BY <1>8 DEF S, T

\* The index answers first and the rest is filtered; a dictionary is filtered
\* first: whoever is better than an actor alike enough is alike enough.
LEMMA BestFiltered ==
  ASSUME NEW E, NEW score, NEW k, NEW least \in Int, NEW filtered,
         NEW f, score \in [E -> Int], filtered = {a \in E : score[a] >= least},
         f = [a \in filtered |-> score[a]]
  PROVE  \A a : a \in Memory!Best(k, score) /\ score[a] >= least <=> a \in Memory!Best(k, f)
<1>1. DOMAIN score = E /\ DOMAIN f = filtered /\ \A a \in filtered : f[a] = score[a]
  OBVIOUS
<1>2. ASSUME NEW a \in filtered
      PROVE  {b \in DOMAIN score : score[b] > score[a]} = {b \in DOMAIN f : f[b] > f[a]}
  <2>1. a \in E /\ score[a] \in Int /\ score[a] >= least
    OBVIOUS
  <2>2. ASSUME NEW b \in E, score[b] > score[a] PROVE b \in filtered
    <3>1. score[b] \in Int
      OBVIOUS
    <3>. QED
      BY <2>1, <2>2, <3>1
  <2>3. \A b \in filtered : b \in E
    OBVIOUS
  <2>. QED
    BY <1>1, <2>2, <2>3
<1>3. ASSUME NEW a
      PROVE  a \in Memory!Best(k, score) /\ score[a] >= least <=> a \in Memory!Best(k, f)
  <2>1. CASE a \in filtered
    <3>1. Memory!Cardinality({b \in DOMAIN score : score[b] > score[a]}) =
            Memory!Cardinality({b \in DOMAIN f : f[b] > f[a]})
      BY <1>2, <2>1
    <3>2. a \in DOMAIN score /\ a \in DOMAIN f /\ score[a] >= least
      BY <1>1, <2>1
    <3>. QED
      BY <3>1, <3>2 DEF Memory!Best
  <2>2. CASE a \notin filtered
    BY <1>1, <2>2 DEF Memory!Best
  <2>. QED
    BY <2>1, <2>2
<1>. QED
  BY <1>3

\* The order of the scores is that of the cosines.
LEMMA BestScored ==
  ASSUME NEW E, NEW cosine \in [E -> Int], NEW k
  PROVE  Memory!Best(k, [a \in E |-> TwiceScored(cosine[a])]) = Memory!Best(k, cosine)
<1> DEFINE scored == [a \in E |-> TwiceScored(cosine[a])]
<1>1. DOMAIN scored = E /\ DOMAIN cosine = E /\ \A a \in E : scored[a] = TwiceScored(cosine[a])
  OBVIOUS
<1>. HIDE DEF scored
<1>2. ASSUME NEW a \in E
      PROVE  {b \in DOMAIN scored : scored[b] > scored[a]} =
               {b \in DOMAIN cosine : cosine[b] > cosine[a]}
  <2>1. ASSUME NEW b \in E PROVE scored[b] > scored[a] <=> cosine[b] > cosine[a]
    <3>1. cosine[a] \in Int /\ cosine[b] \in Int
      OBVIOUS
    <3>2. scored[a] = 100 + cosine[a] /\ scored[b] = 100 + cosine[b]
      BY <1>1 DEF TwiceScored
    <3>. QED
      BY <3>1, <3>2
  <2>. QED
    BY <1>1, <2>1
<1>3. \A a \in E : a \in Memory!Best(k, scored) <=> a \in Memory!Best(k, cosine)
  BY <1>1, <1>2 DEF Memory!Best
<1>4. \A a : a \in Memory!Best(k, scored) <=> a \in Memory!Best(k, cosine)
  BY <1>1, <1>3 DEF Memory!Best
<1>5. Memory!Best(k, scored) = Memory!Best(k, cosine)
  BY <1>4
<1>. QED
  BY <1>5 DEF scored

LEMMA SimilarActorsAgree ==
  ASSUME MirrorInv, NEW look \in Looks, NEW k \in 1..2, NEW least \in Int
  PROVE  Neo4jSimilarActors(look, k, least) =
           Memory!SimilarActors(promised, look, k, CosineOf(least))
<1> DEFINE face(a) == nodes[<<"KnownActor", a>>].face_embedding
           E == {a \in Labelled("KnownActor") : face(a) # Null}
           cosine == [a \in E |-> Likeness[look][face(a)]]
           scored == [a \in E |-> TwiceScored(cosine[a])]
           filtered == {a \in E : cosine[a] >= CosineOf(least)}
<1>1. /\ DOMAIN promised.actors = Labelled("KnownActor")
      /\ \A a \in Labelled("KnownActor") : promised.actors[a].face_embedding = face(a)
  BY PromisedFacts DEF ActorsOf
<1>2. ASSUME NEW a \in Labelled("KnownActor") PROVE face(a) \in Looks \cup {Null}
  <2> DEFINE n == <<"KnownActor", a>>
  <2>1. n \in DOMAIN nodes /\ n[1] = "KnownActor"
    BY PromisedFacts, LabelledNodes
  <2>2. face(a) = nodes[n].face_embedding
    OBVIOUS
  <2>. HIDE DEF n, face
  <2>. QED
    BY <2>1, <2>2, PromisedFacts DEF NodesInv, WellFormed
<1>3. cosine \in [E -> Int] /\ \A a \in E : cosine[a] \in Int
  BY <1>2, MirrorConstants
<1>4. CosineOf(least) = 2 * least - 100 /\ CosineOf(least) \in Int
  BY DEF CosineOf
<1>5. Neo4jSimilarActors(look, k, least) = {a \in Memory!Best(k, cosine) : cosine[a] >= CosineOf(least)}
  <2>1. Max({1, k}) = k
    BY DEF Max
  <2>2. scored = [a \in E |-> TwiceScored(Likeness[look][face(a)])]
    OBVIOUS
  <2>3. Neo4jSimilarActors(look, k, least) =
          {a \in Memory!Best(Max({1, k}), scored) : TwiceScored(Likeness[look][face(a)]) >= 2 * least}
    BY <2>2 DEF Neo4jSimilarActors
  <2>4. Memory!Best(k, scored) = Memory!Best(k, cosine)
    <3>. HIDE DEF E, cosine
    <3>. QED
      BY <1>3, BestScored
  <2>5. \A a \in Memory!Best(k, cosine) : a \in E
    BY DEF Memory!Best
  <2>6. \A a \in E : cosine[a] = Likeness[look][face(a)]
    OBVIOUS
  <2>. HIDE DEF E, cosine, scored, face
  <2>7. ASSUME NEW a \in E
        PROVE  TwiceScored(Likeness[look][face(a)]) >= 2 * least <=> cosine[a] >= CosineOf(least)
    <3>1. cosine[a] \in Int /\ TwiceScored(Likeness[look][face(a)]) = 100 + cosine[a]
      BY <1>3, <2>6 DEF TwiceScored
    <3>. QED
      BY <1>4, <3>1
  <2>8. Neo4jSimilarActors(look, k, least) =
          {a \in Memory!Best(k, cosine) : TwiceScored(Likeness[look][face(a)]) >= 2 * least}
    BY <2>1, <2>3, <2>4
  <2>. QED
    BY <2>5, <2>7, <2>8
<1>6. Memory!SimilarActors(promised, look, k, CosineOf(least)) =
        Memory!Best(k, [a \in filtered |-> cosine[a]])
  <2> DEFINE enrolled == {a \in DOMAIN promised.actors : promised.actors[a].face_embedding # Null}
             S == {a \in enrolled : Likeness[look][promised.actors[a].face_embedding] >= CosineOf(least)}
  <2>1. enrolled = E
    BY <1>1
  <2>2. \A a \in E : Likeness[look][promised.actors[a].face_embedding] = cosine[a]
    BY <1>1
  <2>3. S = filtered
    BY <2>1, <2>2
  <2>4. Memory!SimilarActors(promised, look, k, CosineOf(least)) =
          Memory!Best(k, [a \in S |-> Likeness[look][promised.actors[a].face_embedding]])
    BY DEF Memory!SimilarActors
  <2>5. [a \in S |-> Likeness[look][promised.actors[a].face_embedding]] = [a \in filtered |-> cosine[a]]
    <3>1. \A a \in filtered : a \in E
      OBVIOUS
    <3>. HIDE DEF S, filtered, E, cosine
    <3>. QED
      BY <2>2, <2>3, <3>1
  <2>. QED
    BY <2>4, <2>5
<1>7. filtered = {a \in E : cosine[a] >= CosineOf(least)}
  OBVIOUS
<1>. HIDE DEF face, E, cosine, scored, filtered
<1> DEFINE f == [a \in filtered |-> cosine[a]]
           bound == CosineOf(least)
<1>8. f = [a \in filtered |-> cosine[a]] /\ bound \in Int /\ filtered = {a \in E : cosine[a] >= bound}
  BY <1>4, <1>7
<1>. HIDE DEF f, bound
<1>9. \A a : a \in Memory!Best(k, cosine) /\ cosine[a] >= bound <=> a \in Memory!Best(k, f)
  BY <1>3, <1>8, BestFiltered
<1>10. {a \in Memory!Best(k, cosine) : cosine[a] >= bound} = Memory!Best(k, f)
  BY <1>9
<1>. QED
  BY <1>5, <1>6, <1>10 DEF f, bound

LEMMA ScoresAgree ==
  ASSUME MirrorInv, NEW n \in DOMAIN nodes
  PROVE  Neo4jScore(n, now) = Memory!Score(promised, n[2], now)
<1> DEFINE v(c) == (c.weight * Memory!Decay(now - c.created)) \div 1000
           S == {v(rels[r]) : r \in {r \in DOMAIN rels : r[2] = n}}
           T == {v(promised.cited[key]) : key \in Memory!CitationsTo(promised, n[2])}
<1>1. /\ DOMAIN promised.cited = {KeyOf(r) : r \in DOMAIN rels}
      /\ \A r \in DOMAIN rels : promised.cited[KeyOf(r)] = rels[r]
  <2>1. NodesInv(nodes) /\ RelsInv(nodes, rels, now) /\ promised.cited = Cited(rels)
    BY PromisedFacts
  <2>. QED
    BY <2>1, CitedNodes
<1>2. \A r : KeyOf(r)[2] = r[2][2]
  BY DEF KeyOf
<1>3. \A r \in DOMAIN rels : r[2][2] = n[2] <=> r[2] = n
  BY PromisedFacts, LabelledNodes DEF RelsInv
<1>4. Memory!CitationsTo(promised, n[2]) = {KeyOf(r) : r \in {r \in DOMAIN rels : r[2] = n}}
  BY <1>1, <1>2, <1>3 DEF Memory!CitationsTo
<1>5. \A x \in S : x \in T
  <2>. TAKE x \in S
  <2>1. PICK r \in DOMAIN rels : r[2] = n /\ x = v(rels[r])
    OBVIOUS
  <2>2. x = v(promised.cited[KeyOf(r)]) /\ KeyOf(r) \in Memory!CitationsTo(promised, n[2])
    BY <1>1, <1>4, <2>1
  <2>. HIDE DEF v
  <2>. QED
    BY <2>2
<1>6. \A x \in T : x \in S
  <2>. TAKE x \in T
  <2>1. PICK key \in Memory!CitationsTo(promised, n[2]) : x = v(promised.cited[key])
    OBVIOUS
  <2>2. PICK r \in DOMAIN rels : r[2] = n /\ key = KeyOf(r)
    BY <1>4
  <2>3. x = v(rels[r])
    BY <1>1, <2>1, <2>2
  <2>. HIDE DEF v
  <2>. QED
    BY <2>2, <2>3
<1>7. {0} \cup S = {0} \cup T
  <2>. HIDE DEF S, T
  <2>. QED
    BY <1>5, <1>6
<1>8. Neo4jScore(n, now) = Max({0} \cup S)
  BY DEF Neo4jScore
<1>9. Memory!Score(promised, n[2], now) = Max({0} \cup T)
  BY MemoryLibrary DEF Memory!Score
<1>. QED
  BY <1>7, <1>8, <1>9

LEMMA CandidatesAgree ==
  ASSUME MirrorInv, NEW kind \in {"Event", "KnownActor"}, NEW threshold
  PROVE  Neo4jCandidates(threshold, kind, now) = Memory!Candidates(promised, threshold, kind, now)
<1>1. now # Null /\ Null # kind
  BY MirrorConstants DEF MirrorInv
<1>2. Neo4jCandidates(threshold, kind, now) =
        {n[2] : n \in {n \in {n \in DOMAIN nodes : kind \in {Null, n[1]}} : Neo4jScore(n, now) < threshold}}
  BY <1>1 DEF Neo4jCandidates
<1>3. Memory!Candidates(promised, threshold, kind, now) =
        {m \in Ids(nodes, kind) : Memory!Score(promised, m, now) < threshold}
  <2>1. DOMAIN promised.events = Ids(nodes, "Event") /\ DOMAIN promised.actors = Ids(nodes, "KnownActor")
    BY PromisedFacts DEF EventsOf, ActorsOf
  <2>2. CASE kind = "Event"
    BY <1>1, <2>1, <2>2 DEF Memory!Candidates
  <2>3. CASE kind = "KnownActor"
    BY <1>1, <2>1, <2>3 DEF Memory!Candidates
  <2>. QED
    BY <2>2, <2>3
<1>4. ASSUME NEW m, m \in Neo4jCandidates(threshold, kind, now)
      PROVE  m \in Memory!Candidates(promised, threshold, kind, now)
  <2>1. PICK n \in DOMAIN nodes : /\ kind = n[1] /\ m = n[2]
                                  /\ Neo4jScore(n, now) < threshold
    BY <1>1, <1>2, <1>4
  <2>2. m \in Ids(nodes, kind)
    BY <2>1 DEF Ids
  <2>. QED
    BY <1>3, <2>1, <2>2, ScoresAgree
<1>5. ASSUME NEW m, m \in Memory!Candidates(promised, threshold, kind, now)
      PROVE  m \in Neo4jCandidates(threshold, kind, now)
  <2>1. PICK n \in DOMAIN nodes : n[1] = kind /\ m = n[2]
    BY <1>3, <1>5 DEF Ids
  <2>2. Neo4jScore(n, now) < threshold
    BY <1>3, <1>5, <2>1, ScoresAgree
  <2>. QED
    BY <1>2, <2>1, <2>2
<1>. QED
  BY <1>4, <1>5

\* After the same writes, failures and restarts, the database is the graph that a
\* dictionary would hold, as its texts are encoded, and answers its queries as one,
\* similar actors on the scale of the index (BackendsAgree), for every alphabet of
\* ids, texts, looks and weights.
THEOREM BackendsAnswerAlike == MirrorSpec => []BackendsAgree
<1>1. MirrorInv => BackendsAgree
  <2>. SUFFICES ASSUME MirrorInv PROVE BackendsAgree
    OBVIOUS
  <2>1. GraphOf = AsText(promised)
    BY GraphParts DEF MirrorInv, Holds
  <2>2. \A look \in Looks, k \in 1..2, least \in {0, 50, 80} :
          Neo4jSimilarActors(look, k, least) =
            Memory!SimilarActors(promised, look, k, CosineOf(least))
    BY SimilarActorsAgree
  <2>. QED
    BY <2>1, <2>2, ActivePoliciesAgree, EventCountsAgree, PolicyCountsAgree, CitationCountsAgree,
       CandidatesAgree DEF BackendsAgree
<1>. QED
  BY <1>1, MirrorIsTyped, PTL

-----------------------------------------------------------------------------
(* Decay: only a citation of its own rescues a candidate for pruning.      *)

\* Weights, decay factors and worths.
PerMille == 0..1000

LEMMA PerMilleFacts ==
  /\ \A x : x \in PerMille <=> x \in Int /\ 0 <= x /\ x <= 1000
  /\ \A w \in Weights : w \in PerMille
<1>1. \A x : x \in PerMille <=> x \in Int /\ 0 <= x /\ x <= 1000
  BY SMTT(30) DEF PerMille
<1>2. \A w \in Weights : w \in PerMille
  <2>1. Weights \subseteq PerMille
    BY GraphMirrorAssumption DEF PerMille
  <2>. QED
    BY <2>1
<1>. QED
  BY <1>1, <1>2

\* The table of the sigmoid falls.
LEMMA DecayFalls ==
  ASSUME NEW a \in Int, NEW b \in Int, a <= b
  PROVE  /\ Memory!Decay(a) \in PerMille /\ Memory!Decay(b) \in PerMille
         /\ Memory!Decay(b) <= Memory!Decay(a)
<1> DEFINE D(age) == Memory!Decay(age)
<1>1. /\ Memory!Sigmoid[1] = 955 /\ Memory!Sigmoid[2] = 887 /\ Memory!Sigmoid[3] = 745
      /\ Memory!Sigmoid[4] = 525 /\ Memory!Sigmoid[5] = 306 /\ Memory!Sigmoid[6] = 163
      /\ Memory!Sigmoid[7] = 95 /\ Memory!Sigmoid[8] = 67 /\ Memory!Sigmoid[9] = 56
      /\ Memory!Sigmoid[10] = 52 /\ Memory!Sigmoid[11] = 51
  BY DEF Memory!Sigmoid
<1>2. DOMAIN Memory!Sigmoid = 1..11
  BY DEF Memory!Sigmoid
<1>3. \A age \in Int :
        /\ age <= 0 => D(age) = 1000
        /\ age \in 1..11 => D(age) = Memory!Sigmoid[age]
        /\ age > 11 => D(age) = 50
  BY <1>2 DEF Memory!Decay, Memory!Floor
<1>4. \A age \in Int :
        /\ age <= 0 => D(age) = 1000
        /\ age = 1 => D(age) = 955
        /\ age = 2 => D(age) = 887
        /\ age = 3 => D(age) = 745
        /\ age = 4 => D(age) = 525
        /\ age = 5 => D(age) = 306
        /\ age = 6 => D(age) = 163
        /\ age = 7 => D(age) = 95
        /\ age = 8 => D(age) = 67
        /\ age = 9 => D(age) = 56
        /\ age = 10 => D(age) = 52
        /\ age = 11 => D(age) = 51
        /\ age > 11 => D(age) = 50
  BY <1>1, <1>3
<1>. HIDE DEF D
<1>5. \A age \in Int : D(age) \in PerMille
  BY <1>4, PerMilleFacts
<1>6. D(a) \in PerMille /\ D(b) \in PerMille
  BY <1>5
<1>7. D(b) <= D(a)
  BY <1>4
<1>. QED
  BY <1>6, <1>7 DEF D

\* What a citation of some weight is worth at some age.
Value(weight, age) == (weight * Memory!Decay(age)) \div 1000

LEMMA ValueFalls ==
  ASSUME NEW w \in PerMille, NEW a \in Int, NEW b \in Int, a <= b
  PROVE  Value(w, a) \in PerMille /\ Value(w, b) <= Value(w, a)
<1> DEFINE p == Memory!Decay(a)
           q == Memory!Decay(b)
<1>1. p \in PerMille /\ q \in PerMille /\ q <= p
  BY DecayFalls
<1>. HIDE DEF p, q
<1>2. w \in Int /\ p \in Int /\ q \in Int /\ 0 <= w /\ w <= 1000 /\ 0 <= q /\ q <= p /\ p <= 1000
  BY <1>1, PerMilleFacts
<1> DEFINE x == w * p
           y == w * q
<1>3. x \in Int /\ y \in Int
  BY <1>2
<1>4. 0 <= y /\ y <= x
  BY <1>2
<1>5. x <= 1000 * 1000
  BY <1>2
<1>. HIDE DEF x, y
<1>6. /\ x \div 1000 \in Int /\ 0 <= x \div 1000 /\ x \div 1000 <= 1000
      /\ y \div 1000 <= x \div 1000
  BY <1>3, <1>4, <1>5
<1>7. x \div 1000 \in PerMille
  BY <1>6, PerMilleFacts
<1>. QED
  BY <1>6, <1>7 DEF x, y, p, q, Value

LEMMA ValueBounded ==
  ASSUME NEW w \in PerMille, NEW a \in Int
  PROVE  Value(w, a) \in PerMille
<1>1. a <= a
  OBVIOUS
<1>. QED
  BY <1>1, ValueFalls

LEMMA LeastOf ==
  ASSUME NEW T \in SUBSET Nat, T # {}
  PROVE  \E x \in T : \A y \in T : x <= y
<1> DEFINE R == {ss \in Nat \X Nat : ss[1] < ss[2]}
<1>1. IsWellFoundedOn(R, Nat)
  BY NatLessThanWellFounded DEF OpToRel
<1>. HIDE DEF R
<1>2. PICK x \in T : \A y \in T : <<y, x>> \notin R
  BY <1>1, WFMin
<1>3. ASSUME NEW y \in T PROVE x <= y
  <2>1. x \in Nat /\ y \in Nat /\ ~ (y < x)
    BY <1>2 DEF R
  <2>. QED
    BY <2>1
<1>. QED
  BY <1>3

LEMMA LargestOf ==
  ASSUME NEW n \in Nat, NEW T \in SUBSET (0..n), T # {}
  PROVE  Max(T) \in T /\ \A x \in T : x <= Max(T)
<1> DEFINE M == {n - x : x \in T}
<1>1. \A x \in T : n - x \in Nat /\ x \in Nat
  OBVIOUS
<1>2. M \in SUBSET Nat /\ M # {}
  BY <1>1
<1>3. PICK m \in M : \A k \in M : m <= k
  <2>. HIDE DEF M
  <2>. QED
    BY <1>2, LeastOf
<1>4. PICK x \in T : m = n - x
  BY DEF M
<1>5. ASSUME NEW y \in T PROVE y <= x
  <2>1. m <= n - y
    BY <1>3
  <2>. QED
    BY <1>1, <1>4, <2>1
<1>. QED
  BY <1>1, <1>5 DEF Max

LEMMA LargestPerMille ==
  ASSUME NEW T, \A x \in T : x \in PerMille, T # {}
  PROVE  Max(T) \in T /\ \A x \in T : x <= Max(T)
<1> DEFINE k == 1000
<1>1. k \in Nat /\ T \in SUBSET (0..k)
  BY DEF PerMille
<1>. HIDE DEF k
<1>. QED
  BY <1>1, LargestOf

\* What the citations of a node are worth, and who is a candidate.
Worth(R, n, t) ==
  {0} \cup {Value(R[r].weight, t - R[r].created) : r \in {r \in DOMAIN R : r[2] = n}}
CandidatesIn(N, R, threshold, kind, t) ==
  {n[2] : n \in {n \in {n \in DOMAIN N : kind = n[1]} : Max(Worth(R, n, t)) < threshold}}

LEMMA CandidatesAre ==
  ASSUME NEW threshold, NEW kind \in {"Event", "KnownActor"}, now \in Nat, now' \in Nat
  PROVE  /\ Neo4jCandidates(threshold, kind, now) = CandidatesIn(nodes, rels, threshold, kind, now)
         /\ Neo4jCandidates(threshold, kind, now)' = CandidatesIn(nodes', rels', threshold, kind, now')
<1>1. now # Null /\ now' # Null /\ \A n : kind \in {Null, n[1]} <=> kind = n[1]
  BY MirrorConstants
<1>2. Neo4jCandidates(threshold, kind, now) = CandidatesIn(nodes, rels, threshold, kind, now)
  <2>1. \A n : Neo4jScore(n, now) = Max(Worth(rels, n, now))
    BY DEF Neo4jScore, Worth, Value
  <2>. QED
    BY <1>1, <2>1 DEF Neo4jCandidates, CandidatesIn
<1>3. Neo4jCandidates(threshold, kind, now)' = CandidatesIn(nodes', rels', threshold, kind, now')
  <2>1. Neo4jCandidates(threshold, kind, now)' =
          {n[2] : n \in {n \in {n \in DOMAIN nodes' : kind \in {Null, n[1]}} :
                           Max(Worth(rels', n, now')) < threshold}}
    BY <1>1 DEF Neo4jCandidates, Neo4jScore, Worth, Value
  <2>. QED
    BY <1>1, <2>1 DEF CandidatesIn
<1>. QED
  BY <1>2, <1>3

LEMMA WorthTyped ==
  ASSUME NEW N, NEW R, NEW t \in Nat, NEW n, RelsInv(N, R, t)
  PROVE  /\ \A x \in Worth(R, n, t) : x \in PerMille
         /\ Max(Worth(R, n, t)) \in Worth(R, n, t)
         /\ \A x \in Worth(R, n, t) : x <= Max(Worth(R, n, t))
<1>1. ASSUME NEW r \in DOMAIN R
      PROVE  Value(R[r].weight, t - R[r].created) \in PerMille
  <2>1. R[r].weight \in PerMille
    <3>1. R[r].weight \in Weights
      BY DEF RelsInv
    <3>. QED
      BY <3>1, PerMilleFacts
  <2>2. t - R[r].created \in Int
    <3>1. R[r].created \in Nat
      BY DEF RelsInv
    <3>. QED
      BY <3>1
  <2>. QED
    BY <2>1, <2>2, ValueBounded
<1>2. ASSUME NEW x \in Worth(R, n, t) PROVE x \in PerMille
  <2>1. CASE x = 0
    BY <2>1, PerMilleFacts
  <2>2. CASE x # 0
    <3>1. PICK r \in DOMAIN R : x = Value(R[r].weight, t - R[r].created)
      BY <2>2 DEF Worth
    <3>. QED
      BY <1>1, <3>1
  <2>. QED
    BY <2>1, <2>2
<1>3. 0 \in Worth(R, n, t)
  BY DEF Worth
<1>4. (\A x \in Worth(R, n, t) : x \in PerMille) /\ Worth(R, n, t) # {}
  BY <1>2, <1>3
<1>. QED
  BY <1>4, LargestPerMille

LEMMA StaysCandidate ==
  ASSUME NEW N, NEW R, NEW t \in Nat, NEW M, NEW S, NEW u \in Nat,
         NodesInv(N), RelsInv(N, R, t), NodesInv(M), RelsInv(M, S, u), t <= u,
         NEW threshold \in Int, NEW kind, NEW m,
         m \in CandidatesIn(N, R, threshold, kind, t), m \in Ids(M, kind),
         \A r \in DOMAIN S : r[2][2] = m => r \in DOMAIN R /\ S[r] = R[r]
  PROVE  m \in CandidatesIn(M, S, threshold, kind, u)
<1>1. PICK n \in DOMAIN N : kind = n[1] /\ m = n[2] /\ Max(Worth(R, n, t)) < threshold
  BY DEF CandidatesIn
<1>2. PICK o \in DOMAIN M : kind = o[1] /\ m = o[2]
  BY DEF Ids
<1>3. n = o
  <2>1. n = <<n[1], n[2]>> /\ o = <<o[1], o[2]>>
    BY DEF NodesInv, WellNamed
  <2>. QED
    BY <1>1, <1>2, <2>1
<1> DEFINE old == Worth(R, n, t)
           new == Worth(S, n, u)
<1>4. /\ \A x \in old : x \in PerMille /\ x <= Max(old)
      /\ \A x \in new : x \in PerMille
      /\ Max(old) \in old /\ Max(new) \in new
  BY WorthTyped
<1>5. ASSUME NEW x \in new PROVE \E y \in old : x <= y
  <2>1. CASE x = 0
    <3>1. 0 \in old
      BY DEF Worth
    <3>. QED
      BY <2>1, <3>1
  <2>2. CASE x # 0
    <3>1. PICK r \in DOMAIN S :
            r[2] = n /\ x = Value(S[r].weight, u - S[r].created)
      BY <2>2 DEF Worth
    <3>2. r \in DOMAIN R /\ S[r] = R[r]
      BY <1>1, <3>1
    <3> DEFINE w == R[r].weight
               a == t - R[r].created
               b == u - R[r].created
               y == Value(w, a)
    <3>3. R[r].created \in Nat /\ w \in Weights
      BY <3>2 DEF RelsInv
    <3>4. a \in Int /\ b \in Int /\ a <= b
      BY <3>3
    <3>8. w \in PerMille
      BY <3>3, PerMilleFacts
    <3>5. x = Value(w, b)
      BY <3>1, <3>2
    <3>6. y \in old
      BY <3>1, <3>2 DEF Worth
    <3>. HIDE DEF w, a, b, old
    <3>7. x <= y
      BY <3>4, <3>5, <3>8, ValueFalls
    <3>. QED
      BY <3>6, <3>7
  <2>. QED
    BY <2>1, <2>2
<1>6. Max(new) < threshold
  <2>. HIDE DEF old, new
  <2>1. Max(new) \in new /\ Max(old) \in old
    BY <1>4
  <2>2. PICK y \in old : Max(new) <= y
    BY <1>5, <2>1
  <2>3. y <= Max(old)
    BY <1>4
  <2>4. (\A x \in old : x \in Int) /\ (\A x \in new : x \in Int)
    BY <1>4, PerMilleFacts
  <2> DEFINE p == Max(old)
             q == Max(new)
  <2>5. y \in Int /\ p \in Int /\ q \in Int
    BY <2>1, <2>4
  <2>6. q <= y /\ y <= p /\ p < threshold
    BY <1>1, <2>2, <2>3 DEF old
  <2>. HIDE DEF p, q
  <2>7. q < threshold
    BY <2>5, <2>6
  <2>. QED
    BY <2>7 DEF q
<1>. QED
  BY <1>1, <1>2, <1>3, <1>6 DEF CandidatesIn

LEMMA TimeNeverFalls ==
  ASSUME MirrorInv, [MirrorNext]_mirrorVars
  PROVE  now' \in Nat /\ now <= now'
<1>1. now \in Nat /\ Step \in Nat
  BY MirrorConstants DEF MirrorInv
<1>2. now' = now \/ now' = now + Step
  BY DEF MirrorNext, mirrorVars, TimePasses, Restart, ClearAll, Caller, WriteActor, WriteDecision,
         WriteCited, WritePolicy, MirrorEvent, CreatePolicy, RefinePolicy, Revoke, Reinstate,
         RecordHit, StoreOnly
<1>. QED
  BY <1>1, <1>2

\* As time passes and others are cited, a candidate for pruning stays one as long
\* as it is there: only a citation of its own rescues it.
THEOREM CitationsRescue == MirrorSpec => OnlyCitationsRescue
<1> DEFINE Rescue ==
      \A kind \in {"Event", "KnownActor"}, threshold \in Thresholds :
        \A m \in Neo4jCandidates(threshold, kind, now) :
          \/ m \in Neo4jCandidates(threshold, kind, now)'
          \/ m \notin Labelled(kind)'
          \/ \E r \in Neo4jCitationsTo(m)' : r \notin DOMAIN rels \/ rels'[r] # rels[r]
<1>1. MirrorInv /\ [MirrorNext]_mirrorVars => [Rescue]_mirrorVars
  <2>. SUFFICES ASSUME MirrorInv, [MirrorNext]_mirrorVars PROVE Rescue
    OBVIOUS
  <2>1. MirrorInv'
    BY MirrorStep
  <2>2. now \in Nat /\ now' \in Nat /\ now <= now'
    BY TimeNeverFalls DEF MirrorInv
  <2>3. NodesInv(nodes) /\ RelsInv(nodes, rels, now) /\ NodesInv(nodes') /\ RelsInv(nodes', rels', now')
    BY <2>1 DEF MirrorInv
  <2>4. ASSUME NEW kind \in {"Event", "KnownActor"}, NEW threshold \in Thresholds,
               NEW m \in Neo4jCandidates(threshold, kind, now),
               m \in Labelled(kind)',
               ~ \E r \in Neo4jCitationsTo(m)' : r \notin DOMAIN rels \/ rels'[r] # rels[r]
        PROVE  m \in Neo4jCandidates(threshold, kind, now)'
    <3>1. m \in CandidatesIn(nodes, rels, threshold, kind, now)
      BY <2>2, CandidatesAre
    <3>2. m \in Ids(nodes', kind)
      BY <2>4 DEF Labelled, Ids
    <3>3. \A r \in DOMAIN rels' : r[2][2] = m => r \in DOMAIN rels /\ rels'[r] = rels[r]
      BY <2>4 DEF Neo4jCitationsTo
    <3>4. threshold \in Int
      BY MirrorConstants
    <3>5. m \in CandidatesIn(nodes', rels', threshold, kind, now')
      BY <2>2, <2>3, <3>1, <3>2, <3>3, <3>4, StaysCandidate
    <3>. QED
      BY <2>2, <3>5, CandidatesAre
  <2>. QED
    BY <2>4
<1>. QED
  BY <1>1, MirrorIsTyped, PTL DEF MirrorSpec, OnlyCitationsRescue

=============================================================================
