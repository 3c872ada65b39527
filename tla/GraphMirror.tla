---------------------------- MODULE GraphMirror ----------------------------
(***************************************************************************)
(* The memory graph in Neo4j, the process-local one it falls back to, and  *)
(* what the ha-agent mirrors into whichever it got at boot.                *)
(*                                                                         *)
(*   nodes, rels   the database: nodes by label and id with their          *)
(*                 properties, CITED relationships (Neo4jGraphClient)      *)
(*   promised      the graph a dictionary would hold after the same writes *)
(*   dicts         the process-local graph (InMemoryGraphClient)           *)
(*   backend       which of the two make_graph_client returned             *)
(*   rows, hits    the SQLite tables of PolicyStore, which a restart keeps *)
(*                                                                         *)
(* MemoryGraph says what a graph client promises; that the Cypher          *)
(* statements keep this promise is the property BackendsAgree.  What only  *)
(* travels along (tags, names, scopes, rationales) is left out.            *)
(***************************************************************************)
EXTENDS Integers, Sequences, FiniteSets, FiniteSetsExt, Functions

CONSTANTS
  EventIds, ActorIds, DecisionIds,
  StorePolicies, OtherPolicies,   \* policies of the ha-agent; of other callers
  Cameras, Notes, Keys, Looks, Likeness, Kinds, Ttls, Weights, Thresholds,
  Records,                        \* what the alert log records
  Step, MaxTime, MaxRequests, Null

\* Ids are globally unique (types.py: `evt_`, `pol_` and random digits), a weight
\* is in [0, 1], and Null is no value of its own.
ASSUME GraphMirrorAssumption ==
  /\ EventIds \cap ActorIds = {} /\ (EventIds \cup ActorIds) \cap DecisionIds = {}
  /\ (EventIds \cup ActorIds \cup DecisionIds) \cap (StorePolicies \cup OtherPolicies) = {}
  /\ Records \subseteq [id : EventIds \cup {Null}, ts : Int, camera : Cameras, metadata : Notes]
  /\ Likeness \in [Looks -> [Looks -> -100..100]]
  /\ Weights \subseteq 0..1000 /\ Thresholds \subseteq Int
  /\ Step \in Nat /\ MaxTime \in Nat
  /\ Null \notin Int \cup Looks \cup {"Event", "KnownActor"}

VARIABLES nodes, rels, promised, dicts, backend, rows, hits, now, requests

database == <<nodes, rels, promised>>
store    == <<rows, hits>>
mirrorVars == <<database, dicts, backend, store, now, requests>>

PolicyIds == StorePolicies \cup OtherPolicies
Times     == 0..MaxTime
GraphClients  == {"neo4j", "in_memory"}

----------------------------------------------------------------------------
(* Properties of nodes hold scalars and lists: metadata travels as a       *)
(* string of `key=value` between semicolons.  A text is its part up to the *)
(* first semicolon and the parts behind it, each with the key before its   *)
(* first `=`, Null where it has none.                                      *)

Plain(head) == [head |-> head, tail |-> <<>>]

Encode(metadata) ==
  LET parts(k) == IF metadata[k] = Null THEN <<>>
                  ELSE <<[key |-> k, head |-> metadata[k].head]>> \o metadata[k].tail
      joined[i \in 0..Len(Keys)] == IF i = 0 THEN <<>> ELSE joined[i - 1] \o parts(Keys[i])
  IN joined[Len(Keys)]

\* Later parts of a key win, parts without a key are dropped.
Decode(text) ==
  LET at(k) == {i \in DOMAIN text : text[i].key = k}
  IN [k \in Range(Keys) |-> IF at(k) = {} THEN Null ELSE Plain(text[Max(at(k))].head)]

----------------------------------------------------------------------------
(* Neo4jGraphClient: what its statements do to nodes and relationships.    *)

Put(f, key, value) == [x \in DOMAIN f \cup {key} |-> IF x = key THEN value ELSE f[x]]

EventNode(e)  == [e EXCEPT !.metadata = Encode(@)]
EventOf(node) == [node EXCEPT !.metadata = Decode(@)]

\* Mutant: the expiry is the lifetime, not when it ends.
PolicyNodeUnkept(p) == [policy |-> p, expires_at |-> p.ttl]

PolicyNode(p) == [policy |-> p, expires_at |-> p.created + p.ttl]
PolicyOf(node) == node.policy

\* Mutant: MERGE ... ON CREATE SET.
MergeOnCreate(label, id, properties) ==
  nodes' = IF <<label, id>> \in DOMAIN nodes THEN nodes ELSE Put(nodes, <<label, id>>, properties)

\* MERGE on label and id, then SET of every property.
Merge(label, id, properties) == nodes' = Put(nodes, <<label, id>>, properties)

Named(id) == {n \in DOMAIN nodes : n[2] = id}

\* MATCH both ends, MERGE the relationship, SET its properties: nothing is
\* created where an end is missing.
MergeCited(d, m, citation) ==
  LET ends == Named(d) \X Named(m)
  IN rels' = [r \in DOMAIN rels \cup ends |-> IF r \in ends THEN citation ELSE rels[r]]

Labels == {"Event", "KnownActor", "VLMDecision", "Policy"}
Labelled(label) == {n[2] : n \in {n \in DOMAIN nodes : n[1] = label}}

\* read_* and list_all_*, together: the graph the database holds.
GraphOf ==
  [events    |-> [id \in Labelled("Event") |-> EventOf(nodes[<<"Event", id>>])],
   actors    |-> [id \in Labelled("KnownActor") |-> nodes[<<"KnownActor", id>>]],
   decisions |-> [id \in Labelled("VLMDecision") |-> nodes[<<"VLMDecision", id>>]],
   policies  |-> [id \in Labelled("Policy") |-> PolicyOf(nodes[<<"Policy", id>>])],
   cited     |-> [key \in {<<r[1][2], r[2][2]>> : r \in DOMAIN rels} |->
                    rels[CHOOSE r \in DOMAIN rels : key = <<r[1][2], r[2][2]>>]]]

Memory == INSTANCE MemoryGraph

----------------------------------------------------------------------------
(* Its queries.                                                            *)

Neo4jCitationsTo(m)   == {r \in DOMAIN rels : r[2][2] = m}
Neo4jCitationsFrom(d) == {r \in DOMAIN rels : r[1][2] = d}

Neo4jActivePolicies(t) == {id \in Labelled("Policy") : t < nodes[<<"Policy", id>>].expires_at}

Neo4jCountEvents(camera) ==
  Cardinality({n \in DOMAIN nodes : n[1] = "Event" /\ camera \in {Null, nodes[n].camera_id}})

Neo4jCountPolicies(kind) ==
  Cardinality({n \in DOMAIN nodes : n[1] = "Policy" /\ kind \in {Null, PolicyOf(nodes[n]).kind}})

\* The vector index scores a cosine c as (1 + c) / 2: this is twice the score.  It
\* answers with the k best, at least one; those below `least` are filtered then.
TwiceScored(cosine) == 100 + cosine

Neo4jSimilarActors(look, k, least) ==
  LET score(a) == TwiceScored(Likeness[look][nodes[<<"KnownActor", a>>].face_embedding])
      indexed  == {a \in Labelled("KnownActor") : nodes[<<"KnownActor", a>>].face_embedding # Null}
  IN {a \in Memory!Best(Max({1, k}), [a \in indexed |-> score(a)]) : score(a) >= 2 * least}

Neo4jScore(n, t) ==
  Max({0} \cup {(rels[r].weight * Memory!Decay(t - rels[r].created)) \div 1000 :
                r \in {r \in DOMAIN rels : r[2] = n}})

Neo4jCandidates(threshold, kind, when) ==
  LET t == IF when = Null THEN Max({0} \cup {rels[r].created : r \in DOMAIN rels}) ELSE when
      matched == {n \in DOMAIN nodes : kind \in {Null, n[1]}}
  IN {n[2] : n \in {n \in matched : Neo4jScore(n, t) < threshold}}

----------------------------------------------------------------------------
MirrorTypeOK ==
  /\ DOMAIN nodes \subseteq Labels \X (EventIds \cup ActorIds \cup DecisionIds \cup PolicyIds)
  /\ DOMAIN rels \subseteq (DOMAIN nodes) \X (DOMAIN nodes)
  /\ backend \in GraphClients
  /\ DOMAIN rows \subseteq StorePolicies
  /\ now \in Times

MirrorInit ==
  /\ nodes = Memory!Nothing /\ rels = Memory!Nothing
  /\ promised = Memory!Empty /\ dicts = Memory!Empty
  /\ backend \in GraphClients
  /\ rows = Memory!Nothing /\ hits = <<>>
  /\ now = 0 /\ requests = 0

TimePasses ==
  /\ now + Step <= MaxTime /\ now' = now + Step
  /\ UNCHANGED <<database, dicts, backend, store, requests>>

----------------------------------------------------------------------------
(* One write through the client in use; the database may be out of reach,  *)
(* which raises and changes nothing.                                       *)

\* The dictionaries the write goes to: those in use, or those that say what
\* the database owes.
Dictionaries == IF backend = "neo4j" THEN promised ELSE dicts

Through(statement, written) ==
  \/ backend = "neo4j" /\ statement /\ promised' = written /\ UNCHANGED dicts
  \/ backend = "neo4j" /\ UNCHANGED <<database, dicts>>
  \/ backend = "in_memory" /\ dicts' = written /\ UNCHANGED database

Requested == requests < MaxRequests /\ requests' = requests + 1

PutEvent(id, e) ==
  Through(Merge("Event", id, EventNode(e)) /\ UNCHANGED rels,
          Memory!WriteEvent(Dictionaries, id, e))
PutPolicy(id, p) ==
  Through(Merge("Policy", id, PolicyNode(p)) /\ UNCHANGED rels,
          Memory!WritePolicy(Dictionaries, id, p))

\* Callers of the library.
Caller == Requested /\ UNCHANGED <<backend, store, now>>

WriteActor(id, a) ==
  /\ Caller
  /\ Through(Merge("KnownActor", id, a) /\ UNCHANGED rels,
             Memory!WriteActor(Dictionaries, id, a))
WriteDecision(id, of) ==
  LET d == [ts |-> now, triggered_by |-> of]
  IN /\ Caller
     /\ Through(Merge("VLMDecision", id, d) /\ UNCHANGED rels,
                Memory!WriteDecision(Dictionaries, id, d))
WritePolicy(id, p) == Caller /\ PutPolicy(id, p)
Current == IF backend = "neo4j" THEN GraphOf ELSE dicts
WriteCited(d, m, weight) ==
  LET citation == [weight |-> weight, created |-> now]
  IN /\ Memory!Citable(Current, d, m)
     /\ Caller
     /\ Through(MergeCited(d, m, citation) /\ UNCHANGED nodes,
                Memory!WriteCited(Dictionaries, d, m, citation))
ClearAll ==
  /\ Caller
  /\ Through(nodes' = Memory!Nothing /\ rels' = Memory!Nothing, Memory!Empty)

----------------------------------------------------------------------------
(* graph_mirror.py: alerts become events, policies of the store become     *)
(* policies of the graph; whatever the graph raises is swallowed.          *)

CoerceTs(alert) == IF alert.ts > 0 THEN alert.ts ELSE now

MirrorEvent(alert) ==
  /\ Requested
  /\ IF alert.id = Null THEN UNCHANGED <<database, dicts>>
     ELSE PutEvent(alert.id, [ts |-> CoerceTs(alert), camera_id |-> alert.camera,
                              metadata |-> alert.metadata])
  /\ UNCHANGED <<backend, store, now>>

Ttl(row) == IF row.expires = Null THEN 0 ELSE Max({0, row.expires - row.created})

\* commit_guidance: the row, its provenance, which can fail, and then the mirror.
CreatePolicy(id, kind, expires) ==
  LET row == [kind |-> kind, created |-> now, expires |-> expires,
              revoked |-> FALSE, applied |-> 0, last_applied |-> Null]
  IN /\ id \notin DOMAIN rows
     /\ Requested /\ rows' = Put(rows, id, row)
     /\ \/ PutPolicy(id, [kind |-> kind, ttl |-> Ttl(row), created |-> now])
        \/ UNCHANGED <<database, dicts>>
     /\ UNCHANGED <<backend, hits, now>>

----------------------------------------------------------------------------
(* The policy store.                                                       *)

StoreOnly == Requested /\ UNCHANGED <<database, dicts, backend, now>>

\* refine_guidance patches the row, revoked or not; a proposal without an expiry
\* leaves the one it had.
RefinePolicy(id, expires) ==
  /\ id \in DOMAIN rows
  /\ rows' = IF expires = Null THEN rows ELSE [rows EXCEPT ![id].expires = expires]
  /\ UNCHANGED hits
  /\ StoreOnly

Revoke(id)    == id \in DOMAIN rows /\ rows' = [rows EXCEPT ![id].revoked = TRUE]
                 /\ UNCHANGED hits /\ StoreOnly
Reinstate(id) == id \in DOMAIN rows /\ rows' = [rows EXCEPT ![id].revoked = FALSE]
                 /\ UNCHANGED hits /\ StoreOnly

RecordHit(id, outcome) ==
  /\ id \in DOMAIN rows
  /\ hits' = Append(hits, [policy |-> id, outcome |-> outcome, at |-> now])
  /\ rows' = IF outcome = "noop" THEN rows
             ELSE [rows EXCEPT ![id].applied = @ + 1, ![id].last_applied = now]
  /\ StoreOnly

AllPolicies(kind) ==
  {id \in DOMAIN rows : /\ kind \in {Null, rows[id].kind}
                        /\ ~rows[id].revoked
                        /\ rows[id].expires = Null \/ rows[id].expires > now}

----------------------------------------------------------------------------
(* The ha-agent starts again: make_graph_client decides for a backend, by  *)
(* whether the database can be reached at that moment.                     *)

Restart ==
  /\ Requested
  /\ backend' \in GraphClients
  /\ dicts' = Memory!Empty
  /\ UNCHANGED <<database, store, now>>

Policies == [kind : Kinds, ttl : Ttls, created : {now}]
Expiries == {Null, now} \cup {now + t : t \in Ttls}

MirrorNext ==
  \/ TimePasses \/ Restart \/ ClearAll
  \/ \E id \in ActorIds, look \in Looks \cup {Null} : WriteActor(id, [face_embedding |-> look])
  \/ \E id \in DecisionIds, of \in EventIds \cup {Null} : WriteDecision(id, of)
  \/ \E d \in DecisionIds, m \in EventIds \cup ActorIds, w \in Weights : WriteCited(d, m, w)
  \/ \E id \in OtherPolicies, p \in Policies : WritePolicy(id, p)
  \/ \E alert \in Records : MirrorEvent(alert)
  \/ \E id \in StorePolicies, kind \in Kinds, expires \in Expiries : CreatePolicy(id, kind, expires)
  \/ \E id \in StorePolicies, expires \in Expiries : RefinePolicy(id, expires)
  \/ \E id \in StorePolicies : Revoke(id) \/ Reinstate(id)
  \/ \E id \in StorePolicies, outcome \in {"dismissed", "boosted", "noop"} : RecordHit(id, outcome)

MirrorSpec == MirrorInit /\ [][MirrorNext]_mirrorVars

----------------------------------------------------------------------------
(* Properties.                                                             *)

\* What the encoding leaves of a graph's texts.
AsText(g) == [g EXCEPT !.events = [id \in DOMAIN g.events |-> EventOf(EventNode(g.events[id]))]]

\* The cosine that has a score.
CosineOf(score) == 2 * score - 100

\* After the same writes, in any order, with statements that fail and restarts
\* in between, the database is read back as the graph a dictionary would hold, but
\* for what the encoding takes of its texts, and the queries it answers itself
\* (policies by `expires_at`, counts, citations by pattern, scores of what was
\* collected) give the same (client.py:14: "both satisfy the same operations
\* contract"); the vector index finds from a score on whom the dictionaries find
\* from its cosine on.
BackendsAgree ==
  /\ GraphOf = AsText(promised)
  /\ Neo4jActivePolicies(now) = Memory!ActivePolicies(promised, now)
  /\ \A camera \in Cameras \cup {Null} :
       Neo4jCountEvents(camera) = Memory!CountEvents(promised, camera)
  /\ \A kind \in Kinds \cup {Null} :
       Neo4jCountPolicies(kind) = Memory!CountPolicies(promised, kind)
  /\ \A look \in Looks, k \in 1..2, least \in {0, 50, 80} :
       Neo4jSimilarActors(look, k, least) =
         Memory!SimilarActors(promised, look, k, CosineOf(least))
  /\ \A d \in DecisionIds :
       Cardinality(Neo4jCitationsFrom(d)) = Cardinality(Memory!CitationsFrom(promised, d))
  /\ \A kind \in {"Event", "KnownActor"}, threshold \in Thresholds :
       Neo4jCandidates(threshold, kind, now) = Memory!Candidates(promised, threshold, kind, now)

\* As time passes and others are cited a memory that has become a candidate
\* for pruning stays one: only a citation of its own rescues it.
OnlyCitationsRescue ==
  [][\A kind \in {"Event", "KnownActor"}, threshold \in Thresholds :
       \A m \in Neo4jCandidates(threshold, kind, now) :
         \/ m \in Neo4jCandidates(threshold, kind, now)'
         \/ m \notin Labelled(kind)'
         \/ \E r \in Neo4jCitationsTo(m)' : r \notin DOMAIN rels \/ rels'[r] # rels[r]]_mirrorVars

----------------------------------------------------------------------------
(* Claims of comments and documents that the code does not keep.           *)

\* client.py:88: "filtered to ``>= min_similarity``" of the cosine - the database
\* compares it with the score, and finds actors the dictionaries do not.
SimilarityIsOneScale ==
  \A look \in Looks, least \in {0, 50} :
    Neo4jSimilarActors(look, 2, least) = Memory!SimilarActors(promised, look, 2, least)

\* client.py:743: "Mirror the in-memory implementation's semantics" -
\* for all kinds, decisions and policies are among the candidates, as actors.
CandidatesMirrorInMemory ==
  \A threshold \in Thresholds :
    Neo4jCandidates(threshold, Null, now) = Memory!Candidates(promised, threshold, Null, now)

\* graph_mirror.py:17: "The SQLite write is authoritative; the graph is a
\* shadow" - a policy without an expiry has a lifetime of 0 in the graph, and
\* one that was revoked stays.
ShadowAgrees ==
  \A id \in StorePolicies \cap DOMAIN Current.policies :
    Memory!IsActive(Current.policies[id], now) <=> id \in AllPolicies(Null)

\* The same - a refinement that shortens the expiry of a row leaves the graph's:
\* the policy ends there later than in the store.
ShadowIsNarrower ==
  \A id \in StorePolicies \cap Memory!ActivePolicies(Current, now) :
    id \in DOMAIN rows /\ (rows[id].expires = Null \/ rows[id].expires > now)

\* client.py:808: "we round-trip via a deterministic string encoding" - a
\* headline with a semicolon is cut off there.
MetadataRoundTrips ==
  \A id \in Labelled("Event") :
    EventOf(nodes[<<"Event", id>>]).metadata = promised.events[id].metadata
=============================================================================
