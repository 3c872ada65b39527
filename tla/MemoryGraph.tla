---------------------------- MODULE MemoryGraph ----------------------------
(***************************************************************************)
(* The memory graph as its protocol promises it (services/memory,          *)
(* graph/client.py, GraphClient), which is what InMemoryGraphClient does:  *)
(* nodes by id, citations by (decision, memory), queries over both, and    *)
(* the candidates for pruning with the decay of dynamics.py.               *)
(*                                                                         *)
(* A graph is a value; the client's operations are operators on graphs, so *)
(* that whoever holds one (GraphMirror) can use them.  Weights and decay   *)
(* factors are per mille, time is counted in weeks, likeness in per cent.  *)
(***************************************************************************)
EXTENDS Integers, FiniteSets, FiniteSetsExt, Functions

CONSTANTS
  Likeness,   \* cosine of a face with an enrolled one
  Null

Put(f, key, value) == [x \in DOMAIN f \cup {key} |-> IF x = key THEN value ELSE f[x]]

----------------------------------------------------------------------------
(* The writes, each idempotent on the id.                                  *)

Nothing == [x \in {} |-> Null]
Empty   == [events |-> Nothing, actors |-> Nothing, decisions |-> Nothing,
            policies |-> Nothing, cited |-> Nothing]

WriteEvent(g, id, e)    == [g EXCEPT !.events = Put(@, id, e)]
WriteActor(g, id, a)    == [g EXCEPT !.actors = Put(@, id, a)]
WriteDecision(g, id, d) == [g EXCEPT !.decisions = Put(@, id, d)]
WritePolicy(g, id, p)   == [g EXCEPT !.policies = Put(@, id, p)]
WriteCited(g, d, m, c)  == [g EXCEPT !.cited = Put(@, <<d, m>>, c)]

\* What the caller answers for: both ends of a citation exist.
Citable(g, d, m) == d \in DOMAIN g.decisions /\ m \in DOMAIN g.events \cup DOMAIN g.actors

----------------------------------------------------------------------------
(* The queries.                                                            *)

CitationsFrom(g, d) == {key \in DOMAIN g.cited : key[1] = d}
CitationsTo(g, m)   == {key \in DOMAIN g.cited : key[2] = m}

IsActive(p, now) == now < p.created + p.ttl

ActivePolicies(g, now) == {id \in DOMAIN g.policies : IsActive(g.policies[id], now)}

CountEvents(g, camera) ==
  Cardinality({id \in DOMAIN g.events : camera \in {Null, g.events[id].camera_id}})
CountPolicies(g, kind) ==
  Cardinality({id \in DOMAIN g.policies : kind \in {Null, g.policies[id].kind}})

\* The k most alike, best first, of the enrolled actors alike enough; actors
\* equally alike come in any order, all of them are in this set.
Best(k, scores) ==
  {a \in DOMAIN scores : Cardinality({b \in DOMAIN scores : scores[b] > scores[a]}) < k}
SimilarActors(g, look, k, least) ==
  LET score(a) == Likeness[look][g.actors[a].face_embedding]
      enrolled == {a \in DOMAIN g.actors : g.actors[a].face_embedding # Null}
  IN Best(k, [a \in {a \in enrolled : score(a) >= least} |-> score(a)])

----------------------------------------------------------------------------
(* Decay: one at age 0, then a reverse sigmoid around four weeks with a    *)
(* floor.  The ages here are whole weeks, beyond the linear segment of the *)
(* first day.                                                              *)

Floor   == 50
Sigmoid == <<955, 887, 745, 525, 306, 163, 95, 67, 56, 52, 51>>
\* Mutant: the two ends of the clamp of the exponent are swapped.
DecayClampSwapped(age) ==
  IF age <= 0 THEN 1000
  ELSE IF age < 8 THEN Sigmoid[age]
  ELSE 1000 - Floor

Decay(age) ==
  IF age <= 0 THEN 1000
  ELSE IF age \in DOMAIN Sigmoid THEN Sigmoid[age]
  ELSE Floor

\* A node is worth what its best citation is still worth.
Score(g, m, now) ==
  Max({0} \cup {(g.cited[key].weight * Decay(now - g.cited[key].created)) \div 1000 :
                key \in CitationsTo(g, m)})

LatestCitation(g) == Max({0} \cup {g.cited[key].created : key \in DOMAIN g.cited})

\* `kind` is Null for both kinds, `when` Null for the time of the last citation.
Candidates(g, threshold, kind, when) ==
  LET now == IF when = Null THEN LatestCitation(g) ELSE when
      nodes == (IF kind \in {Null, "Event"} THEN DOMAIN g.events ELSE {})
               \cup (IF kind \in {Null, "KnownActor"} THEN DOMAIN g.actors ELSE {})
  IN IF when = Null /\ g.cited = Nothing THEN {}
     ELSE {m \in nodes : Score(g, m, now) < threshold}
=============================================================================
