------------------------------ MODULE Identity ------------------------------
(***************************************************************************)
(* The identity store of the preprocessor and what writes it: the routes   *)
(* /identity/* (label, resolve, reject, merge), the enrichment worker that *)
(* stores the embeddings of an event's tracks from a process of its own,   *)
(* the client in ha-agent that repeats a post whose answer was lost, and   *)
(* the enrolments of the memory service, which reach only the live cache.  *)
(* Every route runs to its end before another one starts (its only awaits  *)
(* are on the uncontended lock of the cache), so a route is one action.    *)
(*                                                                         *)
(* An embedding is one of a few Looks that have nothing in common (cosine  *)
(* 0), and the frames of a track look alike.  A template's vector is its   *)
(* direction: integer weights of the looks, kept in lowest terms.  It is   *)
(* normalised by the sum of the weights where the code uses the Euclidean  *)
(* norm, so a mixed centroid is weighted as its frames are; the cosine     *)
(* with a look and its threshold are the code's.  All vectors of a         *)
(* modality have one length.                                               *)
(***************************************************************************)
EXTENDS Integers, Sequences, FiniteSets, FiniteSetsExt, SequencesExt

CONSTANTS
    Subjects,       \* the slugs of the names the operator uses
    Tracks, Events, Modalities, Looks,
    EventOf,        \* [Tracks -> Events]
    KindOf,         \* [Tracks -> {"person", "pet"}], from the best detection
    FramesOf,       \* [Tracks -> Nat], frames of a track with an embedding
    LookOf,         \* [Tracks -> Looks]
    ModalitiesOf,   \* [Tracks -> SUBSET Modalities]
    MemoryLook,     \* the look of the memory service's vectors, no track's
    Percent,        \* [Modalities -> Nat], the threshold of a match
    MaxRequests, MaxCopies, MaxNews,    \* bounds
    Nil

Kinds == {"person", "pet"}
Nowhere == [l \in Looks |-> 0]

\* The kind is the form's, or the track's; the modalities a subset the form
\* may name, or all of the track's.
Forms ==
    [op : {"label"}, subject : Subjects, track : Tracks,
     modalities : (SUBSET Modalities) \ {{}}, kind : Kinds]
    \cup [op : {"resolve"}, events : {{e} : e \in Events} \cup {Events}]
    \cup [op : {"reject"}, track : Tracks]
    \cup [op : {"merge"}, from : Subjects, into : Subjects]

\* Neither a request nor a subject is mistaken for the absence of one.
ASSUME IdentityAssumption ==
    /\ Nil \notin [form : Forms, stale : BOOLEAN] /\ Nil \notin Subjects
    /\ IsFiniteSet(Tracks) /\ IsFiniteSet(Looks)
    /\ EventOf \in [Tracks -> Events] /\ FramesOf \in [Tracks -> Nat]
    /\ LookOf \in [Tracks -> Looks] /\ MemoryLook \in Looks

VARIABLES
    subjects,       \* [Subjects -> [known, active, kind]]
    template,       \* [Subjects -> [Modalities -> [n, dir]]], n = 0: no row
    rows,           \* [Modalities -> Seq(Subjects)], template rows as inserted
    provenance,     \* [Subjects -> [Modalities -> [Tracks -> Nat]]], frame_count
    resolution,     \* [Tracks -> [Modalities -> [subject, verdict]]]
    cache,          \* [Subjects -> [Modalities -> direction]], the live ActorCache
    copies,         \* [Events -> Nat], how often the embeddings were stored
    enriched,       \* the events with an enriched_ts
    worker,         \* the event whose embeddings the worker has just stored
    last,           \* the last request, whose answer may be lost; stale once
                    \* embeddings have been stored since
    requests, news  \* counters of the bounds

store == <<subjects, template, rows, provenance, resolution>>
feed == <<copies, enriched, worker>>
identityVars == <<store, cache, feed, last, requests, news>>

Unresolved == [subject |-> Nil, verdict |-> "none"]
NoTemplate == [n |-> 0, dir |-> Nowhere]

IdentityInit ==
    /\ subjects = [s \in Subjects |-> [known |-> FALSE, active |-> FALSE, kind |-> "person"]]
    /\ template = [s \in Subjects |-> [m \in Modalities |-> NoTemplate]]
    /\ rows = [m \in Modalities |-> <<>>]
    /\ provenance = [s \in Subjects |-> [m \in Modalities |-> [t \in Tracks |-> 0]]]
    /\ resolution = [t \in Tracks |-> [m \in Modalities |-> Unresolved]]
    /\ cache = [s \in Subjects |-> [m \in Modalities |-> Nowhere]]
    /\ copies = [e \in Events |-> 0]
    /\ enriched = {}
    /\ worker = Nil
    /\ last = Nil
    /\ requests = 0
    /\ news = 0

-----------------------------------------------------------------------------
(* Vectors *)

Units(v) == UNION {{x} \X (1..v[x]) : x \in DOMAIN v}
Sum(v) == Cardinality(Units(v))
Lowest(v) ==    \* _unit: of a direction only its proportions count
    LET total == Sum(v)
        divisors == {d \in 1..total : \A l \in Looks : v[l] % d = 0}
    IN  IF total = 0 THEN v ELSE [l \in Looks |-> v[l] \div Max(divisors)]
Plus(v, a, w, b) == Lowest([l \in Looks |-> v[l] * a + w[l] * b])
Pure(k) == [l \in Looks |-> IF l = k THEN 1 ELSE 0]
Square(v) == MapThenSumSet(LAMBDA l : v[l] * v[l], Looks)

Closer(v, w, k) == v[k] * v[k] * Square(w) > w[k] * w[k] * Square(v)
Clears(v, k, percent) ==
    v[k] * v[k] * 10000 >= percent * percent * Square(v)

-----------------------------------------------------------------------------
(* Resolution *)

Frames(t, m) == IF m \in ModalitiesOf[t] THEN copies[EventOf[t]] * FramesOf[t] ELSE 0

\* The templates of active subjects, under the number of their row.
Corpus(m) ==
    [i \in {i \in DOMAIN rows[m] : subjects[rows[m][i]].active} |->
       [subject |-> rows[m][i], dir |-> template[rows[m][i]][m].dir]]

\* The first of the nearest templates, if it clears the modality's threshold (those
\* that are equally near clear it together).
Match(corpus, look, percent) ==
    LET nearest == {i \in DOMAIN corpus :
                      \A j \in DOMAIN corpus : ~Closer(corpus[j].dir, corpus[i].dir, look)}
        matching == {i \in nearest : Clears(corpus[i].dir, look, percent)}
    IN  IF matching = {} THEN Nil ELSE corpus[Min(matching)].subject

\* Mutant: the sweep writes its verdict over the operator's.
PersistAuto(row, s) == IF s = Nil THEN row ELSE [subject |-> s, verdict |-> "auto"]

\* A row that matches nothing any more stays as it is, and so does a verdict.
Persist(row, s) ==
    IF s = Nil THEN row
    ELSE [subject |-> s, verdict |-> IF row.verdict = "rejected" THEN "rejected" ELSE "auto"]

\* Resolve the stored embeddings of tracks against the templates just written.
Sweep(tracks, old) ==
    \E corpora \in {[m \in Modalities |-> Corpus(m)]'}, prior \in {old} :
        resolution' = [t \in Tracks |-> [m \in Modalities |->
            IF t \in tracks /\ Frames(t, m) > 0
            THEN Persist(prior[t][m], Match(corpora[m], LookOf[t], Percent[m]))
            ELSE prior[t][m]]]

-----------------------------------------------------------------------------
(* The routes; each is guarded by what its request names *)

\* Mutant: the provenance is not asked.
EnrolsAgain(s, t, m) == Frames(t, m) > 0
Enrols(s, t, m) == Frames(t, m) > 0 /\ provenance[s][m][t] = 0

Strengthened(old, t, m) ==
    [n |-> old.n + Frames(t, m),
     dir |-> IF old.n = 0 THEN Pure(LookOf[t])
             ELSE Plus(old.dir, old.n, Pure(LookOf[t]), Frames(t, m) * Sum(old.dir))]

AddRows(s, ms) ==
    [m \in Modalities |-> IF m \in ms /\ template[s][m].n = 0
                          THEN Append(rows[m], s) ELSE rows[m]]

\* Mutant: what is cached wins.
OverlayKept(old, event) ==
    [m \in Modalities |-> IF old[m] = Nowhere THEN event[m] ELSE old[m]]

\* ActorCache.upsert: a modality the event does not carry keeps its value.
Overlay(old, event) ==
    [m \in Modalities |-> IF event[m] = Nowhere THEN old[m] ELSE event[m]]
Templates(s) == [m \in Modalities |-> template[s][m].dir]

Refreshed(old, s) == [old EXCEPT ![s] = Overlay(@, Templates(s)')]

Label(r) ==
    LET s == r.subject
        t == r.track
        present == {m \in r.modalities : Frames(t, m) > 0}
        new == {m \in present : Enrols(s, t, m)}
    IN  /\ subjects' = [subjects EXCEPT ![s] = [known |-> TRUE, active |-> TRUE, kind |-> r.kind]]
        /\ rows' = AddRows(s, new)
        /\ template' = [template EXCEPT ![s] = [m \in Modalities |->
                           IF m \in new THEN Strengthened(@[m], t, m) ELSE @[m]]]
        /\ provenance' = [provenance EXCEPT ![s] = [m \in Modalities |->
                           IF m \in new THEN [@[m] EXCEPT ![t] = Frames(t, m)] ELSE @[m]]]
        /\ IF present = {}          \* 400: only the subject has been written
           THEN UNCHANGED <<resolution, cache>>
           ELSE /\ Sweep(Tracks, [resolution EXCEPT ![t] = [m \in Modalities |-> Unresolved]])
                /\ cache' = Refreshed(cache, s)

Resolve(r) ==
    /\ UNCHANGED <<subjects, template, rows, provenance, cache>>
    /\ Sweep({t \in Tracks : EventOf[t] \in r.events}, resolution)

Reject(r) ==
    /\ resolution' = [resolution EXCEPT ![r.track] = [m \in Modalities |->
                        IF @[m] = Unresolved THEN Unresolved
                        ELSE [@[m] EXCEPT !.verdict = "rejected"]]]
    /\ UNCHANGED <<subjects, template, rows, provenance, cache>>

MayMerge(from, into) ==
    /\ from # into
    /\ subjects[from].known /\ subjects[into].known
    /\ subjects[from].kind = subjects[into].kind

Without(s, q) == IF s \in ToSet(q) THEN RemoveAt(q, CHOOSE i \in DOMAIN q : q[i] = s) ELSE q

\* Mutant: the template of the merged-away subject replaces the survivor's.
MergedOver(a, b) == IF b.n = 0 THEN a ELSE b

\* The mean of the two directions, each of length one; frames are added.
Merged(a, b) ==
    IF a.n = 0 THEN b
    ELSE IF b.n = 0 THEN a
    ELSE [n |-> a.n + b.n, dir |-> Plus(a.dir, Sum(b.dir), b.dir, Sum(a.dir))]

Repointed(from, into) ==
    [t \in Tracks |-> [m \in Modalities |->
        IF resolution[t][m].subject = from
        THEN [resolution[t][m] EXCEPT !.subject = into] ELSE resolution[t][m]]]

Merge(r) ==
    IF ~MayMerge(r.from, r.into)    \* 400 or 404
    THEN UNCHANGED <<store, cache>>
    ELSE /\ subjects' = [subjects EXCEPT ![r.from].active = FALSE]
         /\ template' = [template EXCEPT
              ![r.into] = [m \in Modalities |-> Merged(@[m], template[r.from][m])],
              ![r.from] = [m \in Modalities |-> NoTemplate]]
         /\ rows' = [m \in Modalities |-> Without(r.from,
              AddRows(r.into, {k \in Modalities : template[r.from][k].n > 0})[m])]
         /\ provenance' = [provenance EXCEPT     \* a row that collides is dropped
              ![r.into] = [m \in Modalities |-> [t \in Tracks |->
                  IF @[m][t] = 0 THEN provenance[r.from][m][t] ELSE @[m][t]]],
              ![r.from] = [m \in Modalities |-> [t \in Tracks |-> 0]]]
         /\ Sweep(Tracks, Repointed(r.from, r.into))
         /\ cache' = Refreshed([cache EXCEPT ![r.from] = [m \in Modalities |-> Nowhere]],
                               r.into)

Handle(r) ==
    \/ r.op = "label" /\ Label(r)
    \/ r.op = "resolve" /\ Resolve(r)
    \/ r.op = "reject" /\ Reject(r)
    \/ r.op = "merge" /\ Merge(r)

Offered(r) ==   \* what the review page sends
    CASE r.op = "label" -> r.kind = KindOf[r.track] /\ r.modalities = ModalitiesOf[r.track]
      [] r.op = "merge" -> r.from # r.into
      [] OTHER -> TRUE

Request ==
    /\ requests + news < MaxRequests
    /\ requests' = requests + 1
    /\ \E r \in Forms : Offered(r) /\ Handle(r) /\ last' = [form |-> r, stale |-> FALSE]
    /\ UNCHANGED <<feed, news>>

\* _post_json: the answer was lost after the server had done its work.
Retry ==
    /\ last # Nil
    /\ \E r \in {last.form} : Handle(r)
    /\ last' = Nil
    /\ UNCHANGED <<feed, requests, news>>

-----------------------------------------------------------------------------
(* The enrichment worker, the memory service's events, a restart *)

StoreEmbeddings(e) ==
    /\ worker = Nil
    /\ e \notin enriched /\ copies[e] < MaxCopies
    /\ copies' = [copies EXCEPT ![e] = @ + 1]
    /\ worker' = e
    /\ last' = IF last = Nil THEN Nil ELSE [last EXCEPT !.stale = TRUE]
    /\ UNCHANGED <<store, cache, enriched, requests, news>>

MarkEnriched ==
    /\ worker # Nil
    /\ enriched' = enriched \cup {worker}
    /\ worker' = Nil
    /\ UNCHANGED <<store, cache, copies, last, requests, news>>

WorkerCrash ==
    /\ worker # Nil
    /\ worker' = Nil
    /\ UNCHANGED <<store, cache, copies, enriched, last, requests, news>>

Enrolled(s, m) ==
    /\ news < MaxNews /\ requests + news < MaxRequests
    /\ news' = news + 1
    /\ cache' = [cache EXCEPT ![s] = Overlay(@,
                   [x \in Modalities |-> IF x = m THEN Pure(MemoryLook) ELSE Nowhere])]
    /\ UNCHANGED <<store, feed, last, requests>>

Deactivated(s) ==
    /\ news < MaxNews /\ requests + news < MaxRequests
    /\ news' = news + 1
    /\ cache' = [cache EXCEPT ![s] = [m \in Modalities |-> Nowhere]]
    /\ UNCHANGED <<store, feed, last, requests>>

PreprocessorRestarts ==
    /\ news < MaxNews /\ requests + news < MaxRequests
    /\ news' = news + 1
    /\ cache' = [s \in Subjects |-> [m \in Modalities |-> Nowhere]]
    /\ last' = Nil
    /\ UNCHANGED <<store, feed, requests>>

IdentityNext ==
    \/ Request
    \/ Retry
    \/ \E e \in Events : StoreEmbeddings(e)
    \/ MarkEnriched
    \/ WorkerCrash
    \/ \E s \in Subjects, m \in Modalities : Enrolled(s, m)
    \/ \E s \in Subjects : Deactivated(s)
    \/ PreprocessorRestarts

IdentitySpec == IdentityInit /\ [][IdentityNext]_identityVars

-----------------------------------------------------------------------------
(* Properties *)

IdentityTypeOK ==
    /\ subjects \in [Subjects -> [known : BOOLEAN, active : BOOLEAN, kind : Kinds]]
    /\ \A s \in Subjects, m \in Modalities :
         /\ template[s][m].n \in Nat
         /\ template[s][m].dir \in [Looks -> Nat] /\ cache[s][m] \in [Looks -> Nat]
         /\ (template[s][m].n = 0) = (template[s][m].dir = Nowhere)
         /\ (template[s][m].n > 0) = (s \in ToSet(rows[m])) /\ IsInjective(rows[m])
    /\ \A t \in Tracks, m \in Modalities :
         (resolution[t][m].subject = Nil) = (resolution[t][m].verdict = "none")
    /\ enriched \subseteq {e \in Events : copies[e] > 0}

\* Whatever was labelled, merged, stored twice or repeated: a row that names a
\* subject names one with a template in that modality, a template exists
\* exactly where a track is on record as its source, that track is stored, and
\* a template counts at least the frames its sources contributed.
EveryNameHasEvidence ==
    /\ \A t \in Tracks, m \in Modalities :
         LET s == resolution[t][m].subject IN
         s # Nil => template[s][m].n > 0 /\ Frames(t, m) > 0 /\ subjects[s].known
    /\ \A s \in Subjects, m \in Modalities :
         LET sources == {t \in Tracks : provenance[s][m][t] > 0} IN
         /\ (template[s][m].n > 0) = (sources # {})
         /\ \A t \in sources : Frames(t, m) >= provenance[s][m][t]
         /\ template[s][m].n >= Sum(provenance[s][m])

\* The live cache is written by the routes, by the memory service's events and
\* by a restart: a vector in it is the store's template of that subject now,
\* or a vector the memory service sent, never an earlier one of the store's.
LiveCacheIsCurrent ==
    \A s \in Subjects, m \in Modalities :
        cache[s][m] \in {Nowhere, template[s][m].dir, Pure(MemoryLook)}

\* ha-agent repeats a post whose answer was lost; the work was done the first
\* time, and unless embeddings were stored in between, doing it again changes
\* no row of the store: no track weighs twice, no verdict is undone.
RetriesChangeNothing ==
    [][requests' = requests /\ last # Nil /\ last' = Nil /\ ~last.stale /\ news' = news
          => UNCHANGED store]_identityVars

\* A correction of the operator's stays: a rejected row is still rejected after
\* every sweep, merge and repeated request, until its track is labelled.
Labelled(t) ==
    \E request \in {last, last'} \ {Nil} :
        request.form.op = "label" /\ request.form.track = t
VerdictsAreKept ==
    [][\A t \in Tracks, m \in Modalities :
         resolution[t][m].verdict = "rejected" /\ ~Labelled(t)
           => resolution'[t][m].verdict = "rejected"]_identityVars

(* What comments of the code say and TLC refutes *)

\* identity_api.py: an explicit label overrides any prior verdict on the track
\* "so it re-resolves to the new subject".  A track labelled by mistake first
\* stays a source of the wrong subject, whose older row wins the tie.
LabelSticks ==
    [][requests' # requests /\ last'.form.op = "label"
         => \A m \in Modalities :
              resolution'[last'.form.track][m].subject \in {Nil, last'.form.subject}]_identityVars

\* identity_store.py: "a track only contributes once".  Merging two subjects
\* enrolled from one track adds its frames twice and drops one source.
ContributesOnce ==
    \A s \in Subjects, m \in Modalities : template[s][m].n = Sum(provenance[s][m])

\* identity_api.py: "keep the live cache consistent".  A merge into a subject
\* that was merged away itself moves every row and template to it and caches
\* it, but leaves it inactive, so no sweep names it any more.
NamedIsActive ==
    \A t \in Tracks, m \in Modalities :
        resolution[t][m].subject # Nil => subjects[resolution[t][m].subject].active

=============================================================================
