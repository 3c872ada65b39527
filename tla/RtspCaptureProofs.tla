-------------------------- MODULE RtspCaptureProofs --------------------------
(***************************************************************************)
(* Proofs about RtspCapture: no encode worker is lost or left over, what   *)
(* the supervisor knows is running once its calls have returned, and calls *)
(* that do not overlap leave one capture per camera.  And about            *)
(* CameraFeeds, which says what is to be captured: a capture never goes    *)
(* back to a URL that was resolved earlier.                                *)
(***************************************************************************)
EXTENDS RtspCapture, CameraFeeds, FiniteSetTheorems, SequenceTheorems, TLAPS

----------------------------------------------------------------------------
(* Counting the jobs of the backlog.                                       *)

Places(q, job) == {i \in DOMAIN q : q[i] = job}
Count(q, job)  == Cardinality(Places(q, job))

LEMMA PlacesAreFinite ==
  ASSUME NEW q \in Seq(Jobs), NEW job
  PROVE  IsFiniteSet(Places(q, job)) /\ Count(q, job) \in Nat
  <1>1. IsFiniteSet(1..Len(q))
    BY FS_Interval, LenProperties
  <1>2. Places(q, job) \subseteq 1..Len(q)
    BY DEF Places
  <1>3. IsFiniteSet(Places(q, job))
    BY <1>1, <1>2, FS_Subset
  <1>4. QED
    BY <1>3, FS_CardinalityType DEF Count

\* A job leaves the backlog.
LEMMA CountTail ==
  ASSUME NEW q \in Seq(Jobs), q # << >>, NEW job
  PROVE  Count(q, job) = Count(Tail(q), job) + (IF Head(q) = job THEN 1 ELSE 0)
  <1> DEFINE d == Tail(q)
             P == Places(q, job) \ {1}
             D == Places(d, job)
             f == [i \in D |-> i + 1]
  <1>1. /\ d \in Seq(Jobs) /\ Len(d) = Len(q) - 1 /\ Len(q) \in Nat \ {0}
        /\ \A i \in 1..Len(d) : d[i] = q[i + 1]
        /\ Head(q) = q[1]
    BY HeadTailProperties, EmptySeq, LenProperties
  <1>2. DOMAIN d = 1..Len(d) /\ DOMAIN q = 1..Len(q)
    BY <1>1
  <1> HIDE DEF d
  <1>3. \A i \in D : i \in Nat /\ i + 1 \in P
    BY <1>1, <1>2 DEF Places
  <1>4. \A i \in P : i - 1 \in D /\ (i - 1) + 1 = i
    BY <1>1, <1>2 DEF Places
  <1> HIDE DEF P, D
  <1>5. f \in Bijection(D, P)
    <2>1. f \in [D -> P]
      BY <1>3
    <2>2. \A i, j \in D : f[i] = f[j] => i = j
      BY <1>3
    <2>3. \A p \in P : \E i \in D : f[i] = p
      BY <1>4
    <2> HIDE DEF f
    <2>4. QED
      BY <2>1, <2>2, <2>3 DEF Bijection, Injection, Surjection, IsInjective
  <1>6. ExistsBijection(D, P)
    BY <1>5 DEF ExistsBijection
  <1>7. IsFiniteSet(D) /\ Cardinality(D) \in Nat
    BY <1>1, PlacesAreFinite DEF D, Count
  <1>8. IsFiniteSet(P) /\ Cardinality(P) = Cardinality(D)
    BY <1>6, <1>7, FS_Bijection
  <1>9. CASE Head(q) = job
    <2>1. Places(q, job) = P \cup {1} /\ 1 \notin P
      BY <1>1, <1>2, <1>9 DEF Places, P
    <2>2. QED
      BY <1>7, <1>8, <1>9, <2>1, FS_AddElement DEF Count, D, d
  <1>10. CASE Head(q) # job
    <2>1. Places(q, job) = P
      BY <1>1, <1>2, <1>10 DEF Places, P
    <2>2. QED
      BY <1>7, <1>8, <1>10, <2>1 DEF Count, D, d
  <1>11. QED
    BY <1>9, <1>10

\* A decode job joins the backlog.
LEMMA CountAppend ==
  ASSUME NEW q \in Seq(Jobs), NEW x \in Jobs, NEW job, x # job
  PROVE  Count(Append(q, x), job) = Count(q, job)
  <1>1. /\ Len(q) \in Nat /\ DOMAIN q = 1..Len(q) /\ DOMAIN Append(q, x) = 1..(Len(q) + 1)
        /\ \A i \in 1..Len(q) : Append(q, x)[i] = q[i]
        /\ Append(q, x)[Len(q) + 1] = x
    BY AppendProperties, LenProperties
  <1>2. Places(Append(q, x), job) = Places(q, job)
    BY <1>1 DEF Places
  <1>3. QED
    BY <1>2 DEF Count

\* start() submits one job per worker.
LEMMA CountStart ==
  ASSUME NEW q \in Seq(Jobs), NEW t \in Tasks, NEW u \in Tasks
  PROVE  /\ q \o EncodeJobs(t) \in Seq(Jobs)
         /\ Count(q \o EncodeJobs(t), <<"encode", u>>)
              = Count(q, <<"encode", u>>) + (IF u = t THEN Workers ELSE 0)
  <1> DEFINE n == Len(q)
             e == EncodeJobs(t)
             r == q \o e
             job == <<"encode", u>>
  <1>1. n \in Nat /\ Workers \in Nat /\ DOMAIN q = 1..n
    BY LenProperties, RtspAssumption
  <1>2. e \in Seq(Jobs) /\ Len(e) = Workers /\ \A i \in 1..Workers : e[i] = <<"encode", t>>
    BY <1>1 DEF EncodeJobs, Jobs
  <1>3. /\ r \in Seq(Jobs) /\ DOMAIN r = 1..(n + Workers)
        /\ \A i \in 1..(n + Workers) : r[i] = IF i <= n THEN q[i] ELSE e[i - n]
    <2>1. r \in Seq(Jobs) /\ Len(r) = n + Workers
      BY <1>1, <1>2, ConcatProperties
    <2>2. \A i \in 1..(n + Workers) : r[i] = IF i <= n THEN q[i] ELSE e[i - n]
      BY <1>1, <1>2, ConcatProperties
    <2>3. QED
      BY <2>1, <2>2
  <1> HIDE DEF e, r
  <1>4. CASE u = t
    <2> DEFINE N == (n + 1)..(n + Workers)
    <2>1. \A i \in N : i - n \in 1..Workers /\ i \in 1..(n + Workers) /\ ~ (i <= n)
      BY <1>1
    <2>2. \A i \in N : r[i] = job
      BY <1>2, <1>3, <1>4, <2>1
    <2>3. Places(r, job) = Places(q, job) \cup N /\ Places(q, job) \cap N = {}
      <3>1. \A i \in 1..(n + Workers) : i \in N \/ i \in 1..n
        BY <1>1
      <3>2. \A i \in 1..n : i \in 1..(n + Workers) /\ i \notin N /\ r[i] = q[i]
        BY <1>1, <1>3
      <3>3. Places(q, job) \subseteq 1..n /\ Places(r, job) \subseteq 1..(n + Workers)
        BY <1>1, <1>3 DEF Places
      <3>4. QED
        BY <1>1, <1>3, <2>1, <2>2, <3>1, <3>2, <3>3 DEF Places
    <2>4. IsFiniteSet(N) /\ Cardinality(N) = Workers
      <3>1. n + 1 \in Int /\ n + Workers \in Int
        BY <1>1
      <3>2. IsFiniteSet(N) /\ Cardinality(N) = IF n + 1 > n + Workers THEN 0 ELSE (n + Workers) - (n + 1) + 1
        BY <3>1, FS_Interval
      <3>3. QED
        BY <1>1, <3>2
    <2> HIDE DEF N
    <2>5. IsFiniteSet(Places(q, job)) /\ Count(q, job) \in Nat
      BY PlacesAreFinite
    <2>6. Cardinality(Places(q, job) \cup N) = Cardinality(Places(q, job)) + Cardinality(N)
      <3>1. Cardinality(Places(q, job) \cap N) = 0
        BY <2>3, FS_EmptySet
      <3>2. Cardinality(Places(q, job)) \in Nat /\ Cardinality(N) \in Nat
        BY <1>1, <2>4, <2>5 DEF Count
      <3>3. Cardinality(Places(q, job) \cup N)
              = Cardinality(Places(q, job)) + Cardinality(N) - Cardinality(Places(q, job) \cap N)
        BY <2>4, <2>5, FS_Union
      <3>4. QED
        BY <3>1, <3>2, <3>3
    <2>7. QED
      BY <1>3, <1>4, <2>3, <2>4, <2>6 DEF Count, r, e
  <1>5. CASE u # t
    <2>1. \A i \in 1..(n + Workers) : ~ (i <= n) => r[i] # job
      <3>1. ASSUME NEW i \in 1..(n + Workers), ~ (i <= n) PROVE r[i] # job
        <4>1. i - n \in 1..Workers
          BY <1>1, <3>1
        <4>2. r[i] = <<"encode", t>>
          BY <1>2, <1>3, <3>1, <4>1
        <4>3. QED
          BY <1>5, <4>2
      <3>2. QED
        BY <3>1
    <2>2. Places(r, job) = Places(q, job)
      <3>1. \A i \in 1..n : i \in 1..(n + Workers) /\ i <= n /\ r[i] = q[i]
        BY <1>1, <1>3
      <3>2. \A i \in 1..(n + Workers) : i <= n => i \in 1..n
        BY <1>1
      <3>3. QED
        BY <1>1, <1>3, <2>1, <3>1, <3>2 DEF Places
    <2>3. Count(q, job) \in Nat
      BY PlacesAreFinite
    <2>4. QED
      BY <1>3, <1>5, <2>2, <2>3 DEF Count, r, e
  <1>6. QED
    BY <1>4, <1>5

\* Cancelling decode jobs moves and removes no encode job.
LEMMA VoidedIsABacklog ==
  ASSUME backlog \in Seq(Jobs), NEW ts
  PROVE  /\ DriveVoided(ts) \in Seq(Jobs)
         /\ DOMAIN DriveVoided(ts) = DOMAIN backlog
         /\ \A i \in DOMAIN backlog :
              DriveVoided(ts)[i] = IF backlog[i] \in {"drive"} \X ts THEN Void ELSE backlog[i]
  <1> DEFINE v == DriveVoided(ts)
  <1>1. /\ DOMAIN v = DOMAIN backlog /\ DOMAIN backlog = 1..Len(backlog) /\ Len(backlog) \in Nat
        /\ \A i \in DOMAIN backlog :
             v[i] = IF backlog[i] \in {"drive"} \X ts THEN Void ELSE backlog[i]
    BY DEF DriveVoided
  <1>2. \A i \in DOMAIN backlog : v[i] \in Jobs
    BY <1>1 DEF Jobs, Void
  <1>3. v = [i \in 1..Len(backlog) |-> v[i]]
    BY <1>1 DEF DriveVoided
  <1> HIDE DEF v
  <1>4. v \in Seq(Jobs)
    BY <1>1, <1>2, <1>3
  <1>5. QED
    BY <1>1, <1>4 DEF v

LEMMA CountVoided ==
  ASSUME backlog \in Seq(Jobs), NEW ts, NEW u \in Tasks
  PROVE  Count(DriveVoided(ts), <<"encode", u>>) = Count(backlog, <<"encode", u>>)
  <1> DEFINE v == DriveVoided(ts)
  <1>1. /\ DOMAIN v = DOMAIN backlog
        /\ \A i \in DOMAIN backlog : v[i] = <<"encode", u>> <=> backlog[i] = <<"encode", u>>
    BY VoidedIsABacklog DEF Void
  <1> HIDE DEF v
  <1>2. Places(v, <<"encode", u>>) = Places(backlog, <<"encode", u>>)
    BY <1>1 DEF Places
  <1>3. QED
    BY <1>2 DEF Count, v

----------------------------------------------------------------------------
(* The inductive invariant.                                                *)

Waiting(t) == Count(backlog, <<"encode", t>>)
Worked(t)  == encoding[t] + Waiting(t)

\* The encode workers of a task, in a thread or in the backlog.
WorkerInv ==
  \A t \in Tasks :
    /\ Worked(t) <= Workers
    /\ phase[t] = "live" => Worked(t) = Workers
    /\ phase[t] \in {"made", "stopped"} => Worked(t) = 0

\* The task an add() will start exists once, and is not started yet.
StartInv ==
  /\ \A k \in Callers : starts[k] # NoTask => phase[starts[k]] = "made"
  /\ \A j, k \in Callers : starts[j] # NoTask /\ starts[j] = starts[k] => j = k

\* A registered task is the one of its camera, and is live or about to be.
RegisteredInv ==
  \A c \in Cameras : tasks[c] # NoTask =>
    /\ camera[tasks[c]] = c
    /\ phase[tasks[c]] = "live" \/ \E k \in Callers : starts[k] = tasks[c]

\* As long as no two calls overlapped: one caller is busy, what is live is
\* registered, what is being stopped is awaited by a caller that has
\* unregistered it or put in its place the task that it will start.
SerialInv ==
  /\ \A j, k \in Callers : ~ Idle(j) /\ ~ Idle(k) => j = k
  /\ \A t \in Tasks : phase[t] = "live" => tasks[camera[t]] = t
  /\ \A t \in Tasks : phase[t] \in {"cancelling", "joining"} =>
       \E k \in Callers : t \in waitsFor[k]
  /\ \A k \in Callers : \A t \in waitsFor[k] : tasks[camera[t]] \in {NoTask, starts[k]}
  /\ \A k \in Callers : starts[k] # NoTask => tasks[camera[starts[k]]] = starts[k]

IInv ==
  TypeOK /\ WorkerInv /\ StartInv /\ RegisteredInv /\ (~ overlapped => SerialInv)

----------------------------------------------------------------------------
(* One step of the inductive invariant, part by part.                      *)

LEMMA CountsAreNaturals ==
  TypeOK => \A t \in Tasks : Waiting(t) \in Nat /\ encoding[t] \in Nat
  BY PlacesAreFinite, RtspAssumption DEF TypeOK, Waiting

\* What the calls do to the backlog.
LEMMA Started ==
  ASSUME TypeOK, NEW t \in Tasks, Start(t)
  PROVE  /\ backlog' \in Seq(Jobs)
         /\ \A u \in Tasks :
              Waiting(u)'
                = Waiting(u) + (IF u = t THEN Workers ELSE 0)
  BY CountStart DEF Start, TypeOK, Waiting

LEMMA Voided ==
  ASSUME TypeOK, NEW ts, backlog' = DriveVoided(ts)
  PROVE  /\ backlog' \in Seq(Jobs)
         /\ \A u \in Tasks :
              Waiting(u)' = Waiting(u)
  <1>1. backlog \in Seq(Jobs)
    BY DEF TypeOK
  <1>2. QED
    BY <1>1, VoidedIsABacklog, CountVoided DEF Waiting

\* A thread takes a job.
LEMMA Taken ==
  ASSUME TypeOK, RunJob
  PROVE  /\ backlog' \in Seq(Jobs)
         /\ \A u \in Tasks :
              encoding'[u] + Waiting(u)'
                = encoding[u] + Waiting(u)
         /\ \A u \in Tasks : encoding'[u] \in Nat
         /\ driving' \subseteq Tasks
  <1> DEFINE job == Head(backlog)
  <1>1. backlog \in Seq(Jobs) /\ backlog # << >> /\ backlog' = Tail(backlog)
    BY DEF RunJob, TypeOK
  <1>2. job \in Jobs /\ backlog' \in Seq(Jobs)
    BY <1>1, HeadTailProperties
  <1>3. /\ job[1] \in {"encode", "drive"} => job[2] \in Tasks
        /\ \A u \in Tasks : job = <<"encode", u>> <=> job[1] = "encode" /\ job[2] = u
    BY <1>2 DEF Jobs, Void
  <1>4. /\ encoding' = IF job[1] = "encode" THEN [encoding EXCEPT ![job[2]] = @ + 1] ELSE encoding
        /\ driving' = IF job[1] = "drive" THEN driving \cup {job[2]} ELSE driving
    BY DEF RunJob
  <1> HIDE DEF job
  <1>5. ASSUME NEW u \in Tasks
        PROVE  /\ encoding'[u] + Waiting(u)'
                    = encoding[u] + Waiting(u)
               /\ encoding'[u] \in Nat
    <2>1. encoding \in [Tasks -> Nat]
      BY DEF TypeOK
    <2>2. Waiting(u)
            = Waiting(u)' + (IF job = <<"encode", u>> THEN 1 ELSE 0)
      BY <1>1, CountTail DEF job, Waiting
    <2>3. Waiting(u)' \in Nat
      BY <1>2, PlacesAreFinite DEF Waiting
    <2>4. encoding'[u] = IF job = <<"encode", u>> THEN encoding[u] + 1 ELSE encoding[u]
      BY <1>3, <1>4, <2>1
    <2>5. QED
      BY <2>1, <2>2, <2>3, <2>4
  <1>6. QED
    BY <1>2, <1>3, <1>4, <1>5 DEF TypeOK

LEMMA Connected ==
  ASSUME TypeOK, NEW t \in Tasks, Connect(t)
  PROVE  /\ backlog' \in Seq(Jobs)
         /\ \A u \in Tasks :
              Waiting(u)' = Waiting(u)
  <1>1. backlog \in Seq(Jobs) /\ <<"drive", t>> \in Jobs /\ backlog' = Append(backlog, <<"drive", t>>)
    BY DEF Connect, TypeOK, Jobs
  <1>2. backlog' \in Seq(Jobs)
    BY <1>1, AppendProperties
  <1>3. ASSUME NEW u \in Tasks
        PROVE  Waiting(u)' = Waiting(u)
    <2>1. <<"drive", t>> # <<"encode", u>>
      OBVIOUS
    <2>2. QED
      BY <1>1, <2>1, CountAppend DEF Waiting
  <1>4. QED
    BY <1>2, <1>3

\* The part of stop() before its first suspension, task by task.
LEMMA BeganStop ==
  ASSUME TypeOK, NEW ts \in SUBSET Tasks, BeginStop(ts)
  PROVE  /\ phase' \in [Tasks -> Phases]
         /\ capture' \in [Tasks -> {"none", "ready", "stream", "backoff"}]
         /\ \A t \in Tasks :
              phase'[t] = IF t \in ts /\ phase[t] = "live" THEN "cancelling" ELSE phase[t]
         /\ backlog' = DriveVoided({t \in ts : phase[t] = "live"})
  BY DEF BeginStop, TypeOK, Phases

LEMMA TypeStep == IInv /\ [Next]_vars => TypeOK'
  <1> SUFFICES ASSUME IInv, [Next]_vars PROVE TypeOK'
    OBVIOUS
  <1>0. TypeOK /\ \A t \in Tasks : Worked(t) <= Workers
    BY DEF IInv, WorkerInv
  <1>1. ASSUME NEW k \in Adders, NEW c \in Cameras, Add(k, c) PROVE TypeOK'
    <2>1. PICK t \in Tasks :
            /\ Garbage(t)
            /\ camera' = [camera EXCEPT ![t] = c]
            /\ tasks' = [tasks EXCEPT ![c] = t]
            /\ IF tasks[c] # NoTask /\ phase[tasks[c]] = "live"
               THEN /\ phase' = [phase EXCEPT ![t] = "made", ![tasks[c]] = "cancelling"]
                    /\ capture' = [capture EXCEPT ![tasks[c]] = "none"]
                    /\ backlog' = DriveVoided({tasks[c]})
                    /\ waitsFor' = [waitsFor EXCEPT ![k] = {tasks[c]}]
                    /\ starts' = [starts EXCEPT ![k] = t]
               ELSE /\ Start(t)
                    /\ UNCHANGED <<waitsFor, starts>>
      BY <1>1 DEF Add
    <2>2. UNCHANGED <<encoding, driving>> /\ overlapped' \in BOOLEAN
      BY <1>0, <1>1 DEF Add, Calls, TypeOK
    <2>3. backlog' \in Seq(Jobs)
      BY <1>0, <2>1, Started, Voided
    <2>4. phase' \in [Tasks -> Phases] /\ capture' \in [Tasks -> {"none", "ready", "stream", "backoff"}]
      BY <1>0, <2>1 DEF TypeOK, Start, Phases
    <2>5. waitsFor' \in [Callers -> SUBSET Tasks] /\ starts' \in [Callers -> Tasks \cup {NoTask}]
      <3>1. k \in Callers /\ waitsFor \in [Callers -> SUBSET Tasks]
            /\ starts \in [Callers -> Tasks \cup {NoTask}] /\ tasks[c] \in Tasks \cup {NoTask}
        BY <1>0 DEF TypeOK, Callers
      <3>2. QED
        BY <2>1, <3>1
    <2>6. camera' \in [Tasks -> Cameras] /\ tasks' \in [Cameras -> Tasks \cup {NoTask}]
      BY <1>0, <2>1 DEF TypeOK
    <2>7. QED
      BY <1>0, <2>2, <2>3, <2>4, <2>5, <2>6 DEF TypeOK
  <1>2. ASSUME NEW k \in Removers, NEW c \in Cameras, RemoveCamera(k, c) PROVE TypeOK'
    <2>1. BeginStop({tasks[c]}) /\ {tasks[c]} \in SUBSET Tasks
      BY <1>0, <1>2 DEF RemoveCamera, TypeOK
    <2>2. QED
      BY <1>0, <1>2, <2>1, BeganStop, Voided DEF RemoveCamera, Calls, TypeOK
  <1>3. ASSUME NEW k \in Closers, Close(k) PROVE TypeOK'
    <2> DEFINE registered == {tasks[c] : c \in Cameras} \ {NoTask}
    <2>1. BeginStop(registered) /\ registered \in SUBSET Tasks
      BY <1>0, <1>3 DEF Close, TypeOK
    <2>2. waitsFor' \in [Callers -> SUBSET Tasks]
      BY <1>0, <1>3, <2>1 DEF Close, TypeOK
    <2> HIDE DEF registered
    <2>3. QED
      BY <1>0, <1>3, <2>1, <2>2, BeganStop, Voided DEF Close, Calls, TypeOK
  <1>4. ASSUME NEW k \in Callers, Resume(k) PROVE TypeOK'
    <2>1. backlog' \in Seq(Jobs) /\ phase' \in [Tasks -> Phases]
          /\ capture' \in [Tasks -> {"none", "ready", "stream", "backoff"}]
      <3>1. CASE starts[k] = NoTask
        BY <1>0, <1>4, <3>1 DEF Resume, TypeOK
      <3>2. CASE starts[k] # NoTask
        <4>1. starts[k] \in Tasks /\ Start(starts[k])
          BY <1>0, <1>4, <3>2 DEF Resume, TypeOK
        <4>2. QED
          BY <1>0, <4>1, Started DEF Start, TypeOK, Phases
      <3>3. QED
        BY <3>1, <3>2
    <2>2. QED
      BY <1>0, <1>4, <2>1 DEF Resume, TypeOK
  <1>5. ASSUME NEW t \in Tasks, Cancelled(t) \/ Joined(t) PROVE TypeOK'
    BY <1>0, <1>5 DEF Cancelled, Joined, TypeOK, Phases
  <1>6. ASSUME NEW t \in Tasks, Connect(t) PROVE TypeOK'
    BY <1>0, <1>6, Connected DEF Connect, TypeOK
  <1>7. ASSUME NEW t \in Tasks, BackoffOver(t) PROVE TypeOK'
    BY <1>0, <1>7 DEF BackoffOver, TypeOK
  <1>8. ASSUME NEW t \in Tasks, EncoderExits(t) PROVE TypeOK'
    BY <1>0, <1>8, RtspAssumption DEF EncoderExits, TypeOK
  <1>9. ASSUME NEW t \in Tasks, DriveEnds(t) PROVE TypeOK'
    BY <1>0, <1>9 DEF DriveEnds, TypeOK
  <1>10. CASE RunJob
    <2>1. \A u \in Tasks : encoding'[u] \in 0..Workers
      <3>1. ASSUME NEW u \in Tasks PROVE encoding'[u] \in 0..Workers
        <4>1. encoding'[u] + Waiting(u)' <= Workers /\ encoding'[u] \in Nat
          BY <1>0, <1>10, Taken DEF Worked
        <4>2. Waiting(u)' \in Nat
          BY <1>0, <1>10, Taken, PlacesAreFinite DEF Waiting
        <4>3. QED
          BY <4>1, <4>2, RtspAssumption
      <3>2. QED
        BY <3>1
    <2>2. encoding' = [u \in Tasks |-> encoding'[u]]
      BY <1>0, <1>10 DEF RunJob, TypeOK
    <2>3. QED
      BY <1>0, <1>10, <2>1, <2>2, Taken DEF RunJob, TypeOK
  <1>11. CASE UNCHANGED vars
    BY <1>0, <1>11 DEF vars, TypeOK
  <1>12. QED
    BY <1>1, <1>2, <1>3, <1>4, <1>5, <1>6, <1>7, <1>8, <1>9, <1>10, <1>11 DEF Next

LEMMA WorkerStep == IInv /\ [Next]_vars => WorkerInv'
  <1> SUFFICES ASSUME IInv, [Next]_vars PROVE WorkerInv'
    OBVIOUS
  <1>0. TypeOK /\ WorkerInv /\ StartInv /\ Workers \in Nat \ {0}
    BY RtspAssumption DEF IInv
  <1>1. \A t \in Tasks : Waiting(t) \in Nat /\ encoding[t] \in Nat
    BY <1>0, CountsAreNaturals
  \* A step that starts no task, and lets no worker go, and stops none that
  \* still has one.
  <1>2. ASSUME \A t \in Tasks : Worked(t)' = Worked(t),
               \A t \in Tasks : phase'[t] = "live" => phase[t] = "live",
               \A t \in Tasks : phase'[t] \in {"made", "stopped"} =>
                 phase[t] \in {"made", "stopped"} \/ Worked(t) = 0
        PROVE  WorkerInv'
    BY <1>0, <1>2 DEF WorkerInv
  \* A step that starts one.
  <1>3. ASSUME NEW t \in Tasks, Start(t), phase[t] \in {"made", "stopped"}, encoding' = encoding
        PROVE  WorkerInv'
    <2>1. \A u \in Tasks : Worked(u)' = Worked(u) + (IF u = t THEN Workers ELSE 0)
      <3>1. \A u \in Tasks : Waiting(u)'
                = Waiting(u) + (IF u = t THEN Workers ELSE 0)
        BY <1>0, <1>3, Started
      <3>2. QED
        BY <1>0, <1>1, <1>3, <3>1 DEF Worked
    <2>2. \A u \in Tasks : phase'[u] = IF u = t THEN "live" ELSE phase[u]
      BY <1>0, <1>3 DEF Start, TypeOK
    <2>3. Worked(t) = 0 /\ \A u \in Tasks : Worked(u) \in Nat
      BY <1>0, <1>1, <1>3 DEF WorkerInv, Worked
    <2>4. Worked(t)' = Workers /\ \A u \in Tasks \ {t} : Worked(u)' = Worked(u)
      BY <1>0, <2>1, <2>3
    <2>5. QED
      BY <1>0, <2>2, <2>4 DEF WorkerInv
  <1>4. ASSUME NEW k \in Adders, NEW c \in Cameras, Add(k, c) PROVE WorkerInv'
    <2>1. PICK t \in Tasks :
            /\ Garbage(t)
            /\ IF tasks[c] # NoTask /\ phase[tasks[c]] = "live"
               THEN /\ phase' = [phase EXCEPT ![t] = "made", ![tasks[c]] = "cancelling"]
                    /\ backlog' = DriveVoided({tasks[c]})
               ELSE Start(t)
      BY <1>4 DEF Add
    <2>2. encoding' = encoding /\ phase[t] = "stopped"
      BY <1>4, <2>1 DEF Add, Garbage
    <2>3. CASE tasks[c] # NoTask /\ phase[tasks[c]] = "live"
      <3>1. \A u \in Tasks : Worked(u)' = Worked(u)
        BY <1>0, <2>1, <2>2, <2>3, Voided DEF Worked
      <3>2. \A u \in Tasks : phase'[u] =
              IF u = tasks[c] THEN "cancelling" ELSE IF u = t THEN "made" ELSE phase[u]
        BY <1>0, <2>1, <2>3 DEF TypeOK
      <3>3. QED
        BY <1>2, <2>2, <3>1, <3>2
    <2>4. CASE ~ (tasks[c] # NoTask /\ phase[tasks[c]] = "live")
      BY <1>3, <2>1, <2>2, <2>4
    <2>5. QED
      BY <2>3, <2>4
  <1>5. ASSUME NEW ts \in SUBSET Tasks, BeginStop(ts), encoding' = encoding PROVE WorkerInv'
    <2>1. \A u \in Tasks : Worked(u)' = Worked(u)
      BY <1>0, <1>5, BeganStop, Voided DEF Worked
    <2>2. \A u \in Tasks : phase'[u] \in {phase[u], "cancelling"}
      BY <1>0, <1>5, BeganStop
    <2>3. QED
      BY <1>2, <2>1, <2>2
  <1>6. ASSUME NEW k \in Removers, NEW c \in Cameras, RemoveCamera(k, c) PROVE WorkerInv'
    BY <1>0, <1>5, <1>6 DEF RemoveCamera, TypeOK
  <1>7. ASSUME NEW k \in Closers, Close(k) PROVE WorkerInv'
    <2>1. {tasks[c] : c \in Cameras} \ {NoTask} \in SUBSET Tasks
      BY <1>0 DEF TypeOK
    <2>2. QED
      BY <1>5, <1>7, <2>1 DEF Close
  <1>8. ASSUME NEW k \in Callers, Resume(k) PROVE WorkerInv'
    <2>1. CASE starts[k] = NoTask
      BY <1>2, <1>8, <2>1 DEF Resume, Worked, Waiting
    <2>2. CASE starts[k] # NoTask
      BY <1>0, <1>3, <1>8, <2>2 DEF Resume, StartInv, TypeOK
    <2>3. QED
      BY <2>1, <2>2
  <1>9. ASSUME NEW t \in Tasks, Cancelled(t) PROVE WorkerInv'
    BY <1>0, <1>2, <1>9 DEF Cancelled, Worked, Waiting, TypeOK
  <1>10. ASSUME NEW t \in Tasks, Joined(t) PROVE WorkerInv'
    <2>1. Worked(t) = 0
      BY <1>10 DEF Joined, Worked, Waiting, Queued, Count, Places
    <2>2. QED
      BY <1>0, <1>2, <1>10, <2>1 DEF Joined, Worked, Waiting, TypeOK
  <1>11. ASSUME NEW t \in Tasks, Connect(t) PROVE WorkerInv'
    BY <1>0, <1>2, <1>11, Connected DEF Connect, Worked
  <1>12. ASSUME NEW t \in Tasks, EncoderExits(t) PROVE WorkerInv'
    <2>1. /\ backlog' = backlog /\ phase' = phase /\ phase[t] \in {"cancelling", "joining"}
          /\ \A u \in Tasks : encoding'[u] = IF u = t THEN encoding[u] - 1 ELSE encoding[u]
      BY <1>0, <1>12 DEF EncoderExits, TypeOK
    <2>2. \A u \in Tasks : Worked(u)' = IF u = t THEN Worked(u) - 1 ELSE Worked(u)
      <3>1. \A u \in Tasks : Waiting(u)' = Waiting(u)
        BY <2>1 DEF Waiting
      <3>2. QED
        BY <1>1, <2>1, <3>1 DEF Worked
    <2>3. \A u \in Tasks : Worked(u) \in Nat
      BY <1>1 DEF Worked
    <2>4. QED
      BY <1>0, <2>1, <2>2, <2>3 DEF WorkerInv
  <1>13. CASE RunJob
    <2>1. \A u \in Tasks : Worked(u)' = Worked(u)
      BY <1>0, <1>13, Taken DEF Worked
    <2>2. QED
      BY <1>2, <1>13, <2>1 DEF RunJob
  <1>14. ASSUME UNCHANGED <<phase, encoding, backlog>> PROVE WorkerInv'
    BY <1>2, <1>14 DEF Worked, Waiting
  <1>15. QED
    BY <1>4, <1>6, <1>7, <1>8, <1>9, <1>10, <1>11, <1>12, <1>13, <1>14
      DEF Next, vars, BackoffOver, DriveEnds

LEMMA StartStep == IInv /\ [Next]_vars => StartInv'
  <1> SUFFICES ASSUME IInv, [Next]_vars PROVE StartInv'
    OBVIOUS
  <1> USE DEF StartInv
  <1>0. TypeOK /\ StartInv /\ Adders \subseteq Callers
    BY DEF IInv, Callers
  <1>1. ASSUME NEW k \in Adders, NEW c \in Cameras, Add(k, c) PROVE StartInv'
    <2>1. PICK t \in Tasks :
            /\ Garbage(t)
            /\ IF tasks[c] # NoTask /\ phase[tasks[c]] = "live"
               THEN /\ phase' = [phase EXCEPT ![t] = "made", ![tasks[c]] = "cancelling"]
                    /\ starts' = [starts EXCEPT ![k] = t]
               ELSE Start(t) /\ UNCHANGED starts
      BY <1>1 DEF Add
    <2>2. phase[t] = "stopped" /\ (\A j \in Callers : starts[j] # t) /\ k \in Callers
      BY <1>0, <2>1 DEF Garbage
    <2>3. CASE tasks[c] # NoTask /\ phase[tasks[c]] = "live"
      <3>1. \A u \in Tasks : phase'[u] =
              IF u = tasks[c] THEN "cancelling" ELSE IF u = t THEN "made" ELSE phase[u]
        BY <1>0, <2>1, <2>3 DEF TypeOK
      <3>2. \A j \in Callers : starts'[j] = IF j = k THEN t ELSE starts[j]
        BY <1>0, <2>1, <2>2, <2>3 DEF TypeOK
      <3>3. t # tasks[c] /\ \A j \in Callers : starts[j] \in Tasks \cup {NoTask}
        BY <1>0, <2>2, <2>3 DEF TypeOK
      <3>4. QED
        BY <1>0, <2>2, <2>3, <3>1, <3>2, <3>3
    <2>4. CASE ~ (tasks[c] # NoTask /\ phase[tasks[c]] = "live")
      BY <1>0, <2>1, <2>2, <2>4 DEF Start, TypeOK
    <2>5. QED
      BY <2>3, <2>4
  <1>2. ASSUME NEW ts \in SUBSET Tasks, BeginStop(ts), starts' = starts PROVE StartInv'
    <2>1. \A u \in Tasks : phase[u] = "made" => phase'[u] = "made"
      BY <1>0, <1>2, BeganStop
    <2>2. QED
      BY <1>0, <1>2, <2>1 DEF TypeOK
  <1>3. ASSUME NEW k \in Removers, NEW c \in Cameras, RemoveCamera(k, c) PROVE StartInv'
    BY <1>0, <1>2, <1>3 DEF RemoveCamera, TypeOK
  <1>4. ASSUME NEW k \in Closers, Close(k) PROVE StartInv'
    <2>1. {tasks[c] : c \in Cameras} \ {NoTask} \in SUBSET Tasks
      BY <1>0 DEF TypeOK
    <2>2. QED
      BY <1>2, <1>4, <2>1 DEF Close
  <1>5. ASSUME NEW k \in Callers, Resume(k) PROVE StartInv'
    <2>1. CASE starts[k] = NoTask
      BY <1>0, <1>5, <2>1 DEF Resume, TypeOK
    <2>2. CASE starts[k] # NoTask
      <3>1. \A u \in Tasks : phase'[u] = IF u = starts[k] THEN "live" ELSE phase[u]
        BY <1>0, <1>5, <2>2 DEF Resume, Start, TypeOK
      <3>2. \A j \in Callers : starts'[j] = IF j = k THEN NoTask ELSE starts[j]
        BY <1>0, <1>5 DEF Resume, TypeOK
      <3>3. QED
        BY <1>0, <2>2, <3>1, <3>2 DEF TypeOK
    <2>3. QED
      BY <2>1, <2>2
  <1>6. ASSUME NEW t \in Tasks, Cancelled(t) \/ Joined(t) PROVE StartInv'
    BY <1>0, <1>6 DEF Cancelled, Joined, TypeOK
  <1>7. ASSUME UNCHANGED <<phase, starts>> PROVE StartInv'
    BY <1>0, <1>7
  <1>8. QED
    BY <1>1, <1>3, <1>4, <1>5, <1>6, <1>7
      DEF Next, vars, Connect, BackoffOver, EncoderExits, DriveEnds, RunJob

LEMMA RegisteredStep == IInv /\ [Next]_vars => RegisteredInv'
  <1> SUFFICES ASSUME IInv, [Next]_vars PROVE RegisteredInv'
    OBVIOUS
  <1> USE DEF RegisteredInv
  <1>0. TypeOK /\ StartInv /\ RegisteredInv /\ Adders \subseteq Callers
    BY DEF IInv, Callers
  <1>1. ASSUME NEW k \in Adders, NEW c \in Cameras, Add(k, c) PROVE RegisteredInv'
    <2>1. PICK t \in Tasks :
            /\ Garbage(t)
            /\ camera' = [camera EXCEPT ![t] = c]
            /\ tasks' = [tasks EXCEPT ![c] = t]
            /\ IF tasks[c] # NoTask /\ phase[tasks[c]] = "live"
               THEN /\ phase' = [phase EXCEPT ![t] = "made", ![tasks[c]] = "cancelling"]
                    /\ starts' = [starts EXCEPT ![k] = t]
               ELSE Start(t) /\ UNCHANGED starts
      BY <1>1 DEF Add
    <2>2. /\ phase[t] = "stopped" /\ (\A j \in Callers : starts[j] # t)
          /\ \A d \in Cameras : tasks[d] # t
      BY <2>1 DEF Garbage
    <2>3. /\ \A d \in Cameras : tasks'[d] = IF d = c THEN t ELSE tasks[d]
          /\ \A u \in Tasks : camera'[u] = IF u = t THEN c ELSE camera[u]
      BY <1>0, <2>1 DEF TypeOK
    <2>4. CASE tasks[c] # NoTask /\ phase[tasks[c]] = "live"
      <3>1. \A u \in Tasks : phase'[u] =
              IF u = tasks[c] THEN "cancelling" ELSE IF u = t THEN "made" ELSE phase[u]
        BY <1>0, <2>1, <2>4 DEF TypeOK
      <3>2. k \in Callers /\ Idle(k)
        BY <1>0, <1>1 DEF Add, Calls
      <3>3. \A j \in Callers : starts'[j] = IF j = k THEN t ELSE starts[j]
        BY <1>0, <2>1, <2>4 DEF TypeOK
      <3>4. ASSUME NEW d \in Cameras, tasks'[d] # NoTask
            PROVE  /\ camera'[tasks'[d]] = d
                   /\ phase'[tasks'[d]] = "live" \/ \E j \in Callers : starts'[j] = tasks'[d]
        <4>1. CASE d = c
          BY <2>3, <3>2, <3>3, <4>1
        <4>2. CASE d # c
          <5>1. tasks'[d] = tasks[d] /\ tasks[d] \in Tasks \ {t}
            BY <1>0, <2>2, <2>3, <3>4, <4>2 DEF TypeOK
          <5>2. camera[tasks[d]] = d /\ tasks[d] # tasks[c]
            BY <1>0, <2>4, <4>2, <5>1, RtspAssumption
          <5>3. phase[tasks[d]] = "live" => phase'[tasks[d]] = "live"
            BY <3>1, <5>1, <5>2
          <5>4. ASSUME NEW j \in Callers, starts[j] = tasks[d] PROVE starts'[j] = tasks[d]
            <6>1. starts[j] # NoTask
              BY <5>1, <5>4, RtspAssumption
            <6>2. j # k
              BY <3>2, <6>1 DEF Idle
            <6>3. QED
              BY <3>3, <5>4, <6>2
          <5>5. camera'[tasks'[d]] = d
            BY <2>3, <5>1, <5>2
          <5>6. phase[tasks[d]] = "live" \/ \E j \in Callers : starts[j] = tasks[d]
            BY <1>0, <5>1, RtspAssumption
          <5>7. QED
            BY <5>1, <5>3, <5>4, <5>5, <5>6
        <4>3. QED
          BY <4>1, <4>2
      <3>5. QED
        BY <3>4
    <2>5. CASE ~ (tasks[c] # NoTask /\ phase[tasks[c]] = "live")
      <3>1. \A u \in Tasks : phase'[u] = IF u = t THEN "live" ELSE phase[u]
        BY <1>0, <2>1, <2>5 DEF TypeOK, Start
      <3>2. starts' = starts
        BY <2>1, <2>5
      <3>3. ASSUME NEW d \in Cameras, tasks'[d] # NoTask, d # c
            PROVE  /\ camera'[tasks'[d]] = d
                   /\ phase'[tasks'[d]] = "live" \/ \E j \in Callers : starts'[j] = tasks'[d]
        <4>1. tasks'[d] = tasks[d] /\ tasks[d] \in Tasks \ {t}
          BY <1>0, <2>2, <2>3, <3>3 DEF TypeOK
        <4>2. /\ camera[tasks[d]] = d
              /\ phase[tasks[d]] = "live" \/ \E j \in Callers : starts[j] = tasks[d]
          BY <1>0, <4>1, RtspAssumption
        <4>3. QED
          BY <2>3, <3>1, <3>2, <4>1, <4>2
      <3>4. QED
        BY <2>3, <3>1, <3>3
    <2>6. QED
      BY <2>4, <2>5
  \* What is stopped is taken out of the registry in the same step.
  <1>2. ASSUME NEW ts \in SUBSET Tasks, BeginStop(ts), UNCHANGED <<starts, camera>>,
               \A d \in Cameras : tasks'[d] # NoTask => tasks'[d] = tasks[d] /\ tasks[d] \notin ts
        PROVE  RegisteredInv'
    <2>1. \A u \in Tasks \ ts : phase'[u] = phase[u]
      BY <1>0, <1>2, BeganStop
    <2>2. QED
      BY <1>0, <1>2, <2>1 DEF TypeOK
  <1>3. ASSUME NEW k \in Removers, NEW c \in Cameras, RemoveCamera(k, c) PROVE RegisteredInv'
    <2>1. \A d \in Cameras : tasks'[d] = IF d = c THEN NoTask ELSE tasks[d]
      BY <1>0, <1>3 DEF RemoveCamera, TypeOK
    <2>2. \A d \in Cameras : tasks[d] # NoTask /\ d # c => tasks[d] # tasks[c]
      BY <1>0
    <2>3. {tasks[c]} \in SUBSET Tasks /\ BeginStop({tasks[c]}) /\ UNCHANGED <<starts, camera>>
      BY <1>0, <1>3 DEF RemoveCamera, TypeOK
    <2>4. QED
      BY <1>2, <2>1, <2>2, <2>3
  <1>4. ASSUME NEW k \in Closers, Close(k) PROVE RegisteredInv'
    BY <1>4 DEF Close
  <1>5. ASSUME NEW k \in Callers, Resume(k) PROVE RegisteredInv'
    <2>1. CASE starts[k] = NoTask
      BY <1>0, <1>5, <2>1 DEF Resume, TypeOK
    <2>2. CASE starts[k] # NoTask
      <3>1. \A u \in Tasks : phase'[u] = IF u = starts[k] THEN "live" ELSE phase[u]
        BY <1>0, <1>5, <2>2 DEF Resume, Start, TypeOK
      <3>2. \A j \in Callers : starts'[j] = IF j = k THEN NoTask ELSE starts[j]
        BY <1>0, <1>5 DEF Resume, TypeOK
      <3>3. UNCHANGED <<tasks, camera>>
        BY <1>5 DEF Resume
      <3>4. ASSUME NEW d \in Cameras, tasks[d] # NoTask
            PROVE  phase'[tasks[d]] = "live" \/ \E j \in Callers : starts'[j] = tasks[d]
        <4>1. tasks[d] \in Tasks
          BY <1>0, <3>4 DEF TypeOK
        <4>2. CASE tasks[d] = starts[k]
          BY <3>1, <4>1, <4>2
        <4>3. CASE tasks[d] # starts[k] /\ phase[tasks[d]] = "live"
          BY <3>1, <4>1, <4>3
        <4>4. ASSUME NEW j \in Callers, starts[j] = tasks[d], tasks[d] # starts[k]
              PROVE  starts'[j] = tasks[d]
          BY <3>2, <4>4
        <4>5. QED
          BY <1>0, <3>4, <4>2, <4>3, <4>4
      <3>5. QED
        BY <1>0, <3>3, <3>4
    <2>3. QED
      BY <2>1, <2>2
  <1>6. ASSUME NEW t \in Tasks, Cancelled(t) \/ Joined(t) PROVE RegisteredInv'
    <2>1. /\ \A u \in Tasks : phase[u] = "live" => phase'[u] = "live"
          /\ UNCHANGED <<tasks, camera, starts>>
      BY <1>0, <1>6 DEF Cancelled, Joined, TypeOK
    <2>2. QED
      BY <1>0, <2>1 DEF TypeOK
  <1>7. ASSUME UNCHANGED <<phase, starts, tasks, camera>> PROVE RegisteredInv'
    BY <1>0, <1>7
  <1>8. QED
    BY <1>1, <1>3, <1>4, <1>5, <1>6, <1>7
      DEF Next, vars, Connect, BackoffOver, EncoderExits, DriveEnds, RunJob

LEMMA SerialStep == IInv /\ [Next]_vars /\ ~ overlapped' => SerialInv'
  <1> SUFFICES ASSUME IInv, [Next]_vars, ~ overlapped' PROVE SerialInv'
    OBVIOUS
  <1>0. /\ TypeOK /\ StartInv /\ RegisteredInv /\ (~ overlapped => SerialInv)
        /\ Callers = Adders \cup Removers \cup Closers
        /\ NoTask \notin Tasks
    BY RtspAssumption DEF IInv, Callers
  \* A call that overlaps none finds every caller idle, and so no task that is
  \* being stopped or about to be started.
  <1>1. ASSUME NEW k \in Callers, Calls(k)
        PROVE  /\ SerialInv
               /\ \A j \in Callers : waitsFor[j] = {} /\ starts[j] = NoTask
               /\ \A t \in Tasks : phase[t] \notin {"cancelling", "joining"}
    <2>1. ~ overlapped /\ \A j \in Callers : Idle(j)
      BY <1>0, <1>1 DEF Calls, TypeOK
    <2>2. QED
      BY <1>0, <2>1 DEF SerialInv, Idle
  <1>2. ASSUME NEW k \in Adders, NEW c \in Cameras, Add(k, c) PROVE SerialInv'
    <2>1. PICK t \in Tasks :
            /\ Garbage(t)
            /\ camera' = [camera EXCEPT ![t] = c]
            /\ tasks' = [tasks EXCEPT ![c] = t]
            /\ IF tasks[c] # NoTask /\ phase[tasks[c]] = "live"
               THEN /\ phase' = [phase EXCEPT ![t] = "made", ![tasks[c]] = "cancelling"]
                    /\ waitsFor' = [waitsFor EXCEPT ![k] = {tasks[c]}]
                    /\ starts' = [starts EXCEPT ![k] = t]
               ELSE /\ Start(t)
                    /\ UNCHANGED <<waitsFor, starts>>
      BY <1>2 DEF Add
    <2>2. k \in Callers /\ Calls(k)
      BY <1>0, <1>2 DEF Add
    <2>3. /\ \A j \in Callers : waitsFor[j] = {} /\ starts[j] = NoTask
          /\ \A u \in Tasks : phase[u] \notin {"cancelling", "joining"}
          /\ \A u \in Tasks : phase[u] = "live" => tasks[camera[u]] = u
      BY <1>1, <2>2 DEF SerialInv
    <2>4. phase[t] = "stopped" /\ \A d \in Cameras : tasks[d] # t
      BY <2>1 DEF Garbage
    <2>5. /\ \A d \in Cameras : tasks'[d] = IF d = c THEN t ELSE tasks[d]
          /\ \A u \in Tasks : camera'[u] = IF u = t THEN c ELSE camera[u]
          /\ \A u \in Tasks : camera[u] \in Cameras /\ camera'[u] \in Cameras
      BY <1>0, <2>1 DEF TypeOK
    <2>6. CASE tasks[c] # NoTask /\ phase[tasks[c]] = "live"
      <3>1. tasks[c] \in Tasks /\ camera[tasks[c]] = c /\ tasks[c] # t
        BY <1>0, <2>4, <2>6 DEF TypeOK, RegisteredInv
      <3>2. \A u \in Tasks : phase'[u] =
              IF u = tasks[c] THEN "cancelling" ELSE IF u = t THEN "made" ELSE phase[u]
        BY <1>0, <2>1, <2>6 DEF TypeOK
      <3>3. \A j \in Callers : /\ waitsFor'[j] = IF j = k THEN {tasks[c]} ELSE {}
                               /\ starts'[j] = IF j = k THEN t ELSE NoTask
        BY <1>0, <2>1, <2>3, <2>6 DEF TypeOK
      <3>4. \A i, j \in Callers : ~ Idle(i)' /\ ~ Idle(j)' => i = j
        BY <3>3 DEF Idle
      <3>5. ASSUME NEW u \in Tasks, phase'[u] = "live" PROVE tasks'[camera'[u]] = u
        <4>1. u # tasks[c] /\ u # t /\ phase[u] = "live"
          BY <3>2, <3>5
        <4>2. QED
          BY <2>3, <2>5, <4>1
      <3>6. \A u \in Tasks : phase'[u] \in {"cancelling", "joining"} =>
              \E j \in Callers : u \in waitsFor'[j]
        BY <2>2, <2>3, <3>2, <3>3
      <3>7. \A j \in Callers : \A u \in waitsFor'[j] : tasks'[camera'[u]] \in {NoTask, starts'[j]}
        BY <2>5, <3>1, <3>3
      <3>8. \A j \in Callers : starts'[j] # NoTask => tasks'[camera'[starts'[j]]] = starts'[j]
        BY <2>5, <3>3
      <3>9. QED
        BY <3>4, <3>5, <3>6, <3>7, <3>8 DEF SerialInv
    <2>7. CASE ~ (tasks[c] # NoTask /\ phase[tasks[c]] = "live")
      <3>1. UNCHANGED <<waitsFor, starts>>
        BY <2>1, <2>7
      <3>2. \A u \in Tasks : phase'[u] = IF u = t THEN "live" ELSE phase[u]
        BY <1>0, <2>1, <2>7 DEF TypeOK, Start
      <3>3. ASSUME NEW u \in Tasks, phase'[u] = "live" PROVE tasks'[camera'[u]] = u
        <4>1. CASE u = t
          BY <2>5, <4>1
        <4>2. CASE u # t
          <5>1. phase[u] = "live" /\ tasks[camera[u]] = u /\ camera[u] # c
            BY <1>0, <2>3, <2>7, <3>2, <3>3, <4>2
          <5>2. QED
            BY <2>5, <4>2, <5>1
        <4>3. QED
          BY <4>1, <4>2
      <3>4. QED
        BY <2>3, <3>1, <3>2, <3>3 DEF SerialInv, Idle
    <2>8. QED
      BY <2>6, <2>7
  \* A stop of registered tasks: they are unregistered, and awaited by k.
  <1>3. ASSUME NEW k \in Callers, Calls(k), NEW ts \in SUBSET Tasks, BeginStop(ts),
               UNCHANGED <<camera, starts>>,
               waitsFor' = [waitsFor EXCEPT ![k] = {t \in ts : phase[t] = "live"}],
               \A c \in Cameras : tasks'[c] = IF tasks[c] \in ts THEN NoTask ELSE tasks[c]
        PROVE  SerialInv'
    <2>1. /\ \A j \in Callers : waitsFor[j] = {} /\ starts[j] = NoTask
          /\ \A u \in Tasks : phase[u] \notin {"cancelling", "joining"}
          /\ \A u \in Tasks : phase[u] = "live" => tasks[camera[u]] = u
      BY <1>1, <1>3 DEF SerialInv
    <2>2. \A u \in Tasks :
            phase'[u] = IF u \in ts /\ phase[u] = "live" THEN "cancelling" ELSE phase[u]
      BY <1>0, <1>3, BeganStop
    <2>3. \A j \in Callers :
            waitsFor'[j] = IF j = k THEN {t \in ts : phase[t] = "live"} ELSE {}
      BY <1>0, <1>3, <2>1 DEF TypeOK
    <2>4. \A u \in Tasks : camera[u] \in Cameras
      BY <1>0 DEF TypeOK
    <2>5. \A i, j \in Callers : ~ Idle(i)' /\ ~ Idle(j)' => i = j
      BY <1>3, <2>1, <2>3 DEF Idle
    <2>6. \A u \in Tasks : phase'[u] = "live" => tasks'[camera[u]] = u
      BY <1>3, <2>1, <2>2, <2>4
    <2>7. \A u \in Tasks : phase'[u] \in {"cancelling", "joining"} => u \in waitsFor'[k]
      BY <2>1, <2>2, <2>3
    <2>8. \A j \in Callers : \A u \in waitsFor'[j] : tasks'[camera[u]] = NoTask
      BY <1>3, <2>1, <2>3, <2>4
    <2>9. QED
      BY <1>3, <2>1, <2>5, <2>6, <2>7, <2>8 DEF SerialInv
  <1>4. ASSUME NEW k \in Removers, NEW c \in Cameras, RemoveCamera(k, c) PROVE SerialInv'
    <2>1. \A d \in Cameras : tasks'[d] = IF d = c THEN NoTask ELSE tasks[d]
      BY <1>0, <1>4 DEF RemoveCamera, TypeOK
    <2>2. \A d \in Cameras : tasks[d] = tasks[c] => d = c
      BY <1>0, <1>4 DEF RemoveCamera, RegisteredInv
    <2>3. tasks[c] \in Tasks /\ k \in Callers
      BY <1>0, <1>4 DEF RemoveCamera, TypeOK
    <2>4. QED
      BY <1>3, <1>4, <2>1, <2>2, <2>3 DEF RemoveCamera
  <1>5. ASSUME NEW k \in Closers, Close(k) PROVE SerialInv'
    <2> DEFINE registered == {tasks[c] : c \in Cameras} \ {NoTask}
    <2>1. registered \in SUBSET Tasks /\ k \in Callers
      BY <1>0 DEF TypeOK
    <2>2. \A c \in Cameras : tasks'[c] = IF tasks[c] \in registered THEN NoTask ELSE tasks[c]
      BY <1>5 DEF Close
    <2>3. /\ Calls(k) /\ BeginStop(registered) /\ UNCHANGED <<camera, starts>>
          /\ waitsFor' = [waitsFor EXCEPT ![k] = {t \in registered : phase[t] = "live"}]
      BY <1>5 DEF Close
    <2> HIDE DEF registered
    <2>4. QED
      BY <1>3, <2>1, <2>2, <2>3
  <1>6. ASSUME NEW k \in Callers, Resume(k) PROVE SerialInv'
    <2>1. SerialInv /\ ~ Idle(k) /\ UNCHANGED <<tasks, camera>>
      BY <1>0, <1>6 DEF Resume
    <2>2. \A j \in Callers : /\ waitsFor'[j] = IF j = k THEN {} ELSE waitsFor[j]
                             /\ starts'[j] = IF j = k THEN NoTask ELSE starts[j]
      BY <1>0, <1>6 DEF Resume, TypeOK
    <2>3. \A j \in Callers : j # k => waitsFor[j] = {} /\ starts[j] = NoTask
      BY <2>1 DEF SerialInv, Idle
    <2>4. \A u \in Tasks : phase[u] \notin {"cancelling", "joining"}
      <3>1. ASSUME NEW u \in Tasks, phase[u] \in {"cancelling", "joining"} PROVE FALSE
        <4>1. u \in waitsFor[k]
          BY <2>1, <2>3, <3>1 DEF SerialInv
        <4>2. QED
          BY <1>6, <3>1, <4>1 DEF Resume
      <3>2. QED
        BY <3>1
    <2>5. \A u \in Tasks : phase'[u] = IF u = starts[k] THEN "live" ELSE phase[u]
      BY <1>0, <1>6 DEF Resume, Start, TypeOK
    <2>6. \A u \in Tasks : phase'[u] = "live" => tasks[camera[u]] = u
      BY <1>0, <2>1, <2>5 DEF SerialInv
    <2>7. \A u \in Tasks : phase'[u] \notin {"cancelling", "joining"}
      BY <2>4, <2>5
    <2>8. \A j \in Callers : waitsFor'[j] = {} /\ starts'[j] = NoTask
      BY <2>2, <2>3
    <2>9. QED
      BY <2>1, <2>6, <2>7, <2>8 DEF SerialInv, Idle
  <1>7. ASSUME NEW t \in Tasks, Cancelled(t) \/ Joined(t) PROVE SerialInv'
    <2>1. SerialInv /\ UNCHANGED <<tasks, camera, waitsFor, starts>>
      BY <1>0, <1>7 DEF Cancelled, Joined
    <2>2. \A u \in Tasks :
            /\ phase'[u] = "live" => phase[u] = "live"
            /\ phase'[u] \in {"cancelling", "joining"} => phase[u] \in {"cancelling", "joining"}
      BY <1>0, <1>7 DEF Cancelled, Joined, TypeOK
    <2>3. QED
      BY <2>1, <2>2 DEF SerialInv, Idle
  <1>8. ASSUME UNCHANGED <<tasks, camera, phase, waitsFor, starts, overlapped>> PROVE SerialInv'
    BY <1>0, <1>8 DEF SerialInv, Idle
  <1>9. QED
    BY <1>2, <1>4, <1>5, <1>6, <1>7, <1>8
      DEF Next, vars, Connect, BackoffOver, EncoderExits, DriveEnds, RunJob

----------------------------------------------------------------------------
(* The theorems.                                                           *)

LEMMA Initially == Init => IInv
  <1> SUFFICES ASSUME Init PROVE IInv
    OBVIOUS
  <1>1. TypeOK
    <2>1. backlog \in Seq(Jobs)
      BY DEF Init
    <2>2. camera \in [Tasks -> Cameras] /\ tasks \in [Cameras -> Tasks \cup {NoTask}]
      BY DEF Init
    <2>3. encoding \in [Tasks -> 0..Workers]
      BY RtspAssumption DEF Init
    <2>4. QED
      BY <2>1, <2>2, <2>3 DEF Init, TypeOK, Phases
  <1>2. \A t \in Tasks : Worked(t) = 0
    <2>1. \A t \in Tasks : Waiting(t) = 0
      BY FS_EmptySet DEF Init, Waiting, Count, Places
    <2>2. QED
      BY <2>1 DEF Init, Worked
  <1>3. WorkerInv
    BY <1>2, RtspAssumption DEF Init, WorkerInv
  <1>4. StartInv /\ RegisteredInv
    BY DEF Init, StartInv, RegisteredInv
  <1>5. SerialInv
    BY DEF Init, SerialInv, Idle
  <1>6. QED
    BY <1>1, <1>3, <1>4, <1>5 DEF IInv

LEMMA Inductive == Spec => []IInv
  <1>1. IInv /\ [Next]_vars => IInv'
    BY TypeStep, WorkerStep, StartStep, RegisteredStep, SerialStep DEF IInv
  <1>2. QED
    BY Initially, <1>1, PTL DEF Spec

\* For any number of cameras, calls, workers and threads the supervisor and its
\* tasks keep their shape; no task has more encode workers in threads than it
\* was given.
THEOREM Typing == Spec => []TypeOK
  <1>1. IInv => TypeOK
    BY DEF IInv
  <1>2. QED
    BY Inductive, <1>1, PTL

\* However adds, removes and the shutdown overlap: a live task has all its
\* encode workers, in a thread or in the executor's queue, and one whose stop()
\* is over has left none behind.
THEOREM NoWorkerIsLost == Spec => []WorkersAreAccountedFor
  <1>1. IInv => WorkersAreAccountedFor
    <2>1. \A t \in Tasks : Queued(<<"encode", t>>) = Waiting(t)
      BY DEF Queued, Waiting, Count, Places
    <2>2. QED
      BY <2>1 DEF IInv, WorkerInv, Worked, WorkersAreAccountedFor
  <1>2. QED
    BY Inductive, <1>1, PTL

\* However calls overlapped: once all have returned, every task the supervisor
\* knows is running.
THEOREM KnownIsRunning == Spec => []RegisteredIsLive
  <1>1. IInv => RegisteredIsLive
    BY DEF IInv, RegisteredInv, RegisteredIsLive, Idle
  <1>2. QED
    BY Inductive, <1>1, PTL

\* Calls that do not overlap leave one capture per camera, whatever is added,
\* restarted and removed, and in whatever order.
THEOREM OneCapturePerCamera == Spec => []OneLiveTaskPerCamera
  <1>1. IInv => OneLiveTaskPerCamera
    <2> SUFFICES ASSUME IInv, NEW t \in Tasks, NEW u \in Tasks, ~ overlapped,
                        phase[t] = "live", phase[u] \in {"live", "cancelling", "joining"},
                        camera[t] = camera[u]
                 PROVE  t = u
      BY DEF OneLiveTaskPerCamera
    <2>1. SerialInv /\ StartInv /\ NoTask \notin Tasks /\ tasks[camera[t]] = t
      BY RtspAssumption DEF IInv, SerialInv
    <2>2. CASE phase[u] = "live"
      BY <2>1, <2>2 DEF SerialInv
    <2>3. CASE phase[u] \in {"cancelling", "joining"}
      <3>1. PICK k \in Callers : u \in waitsFor[k]
        BY <2>1, <2>3 DEF SerialInv
      <3>2. t = starts[k]
        BY <2>1, <3>1 DEF SerialInv
      <3>3. QED
        BY <2>1, <3>2 DEF StartInv
    <2>4. QED
      BY <2>2, <2>3
  <1>2. QED
    BY Inductive, <1>1, PTL

----------------------------------------------------------------------------
(* CameraFeeds.                                                            *)

IsOn(f, S) == f = [x \in S |-> f[x]]

\* What the rest needs of the types; devices and URLs can be anything.
FeedTypes ==
  /\ changes \in Nat
  /\ IsOn(pc, Reconciles) /\ IsOn(url, Reconciles)
  /\ wire = [configured |-> wire.configured, removed |-> wire.removed]
  /\ \E M : wire.configured \in Seq(M)
  /\ IsOn(captures, Devices)
  /\ newest \in [Devices -> Nat]

\* The lock: one reconcile at a time resolves and publishes.
OnePublisher ==
  \A r, q \in Reconciles : Publishing(r) /\ Publishing(q) => r = q

At(i) == wire.configured[i].url.at
Sent  == 1..Len(wire.configured)

\* What is on the wire was resolved before now, in the order it was sent, and not
\* before anything that is captured.
WireInv ==
  /\ \A i \in Sent : At(i) \in Nat /\ At(i) <= changes
  /\ \A i, j \in Sent : i < j => At(i) <= At(j)
  /\ \A d \in Devices : newest[d] <= changes
  /\ \A d \in Devices, i \in Sent : newest[d] <= At(i)

\* A URL that was resolved and is not sent yet is as new as all of it.
SendInv ==
  \A r \in Reconciles : pc[r] = "send" =>
    /\ url[r].at \in Nat /\ url[r].at <= changes
    /\ \A i \in Sent : At(i) <= url[r].at
    /\ \A d \in Devices : newest[d] <= url[r].at

FeedInv == FeedTypes /\ OnePublisher /\ WireInv /\ SendInv

----------------------------------------------------------------------------

\* Steps that resolve, send and receive no URL; they may end publishing and lose
\* what is on the wire.
NoUrlMoves ==
  /\ changes' \in Nat /\ changes <= changes'
  /\ IsOn(pc', Reconciles) /\ IsOn(url', Reconciles)
  /\ wire' = [configured |-> wire'.configured, removed |-> wire'.removed]
  /\ wire'.configured = wire.configured \/ wire'.configured = <<>>
  /\ IsOn(captures', Devices)
  /\ newest' = newest
  /\ \A r \in Reconciles : pc'[r] \in {"publish", "send"} =>
       pc'[r] = pc[r] /\ url'[r] = url[r]

LEMMA NoUrlMovesKeeps == FeedInv /\ NoUrlMoves => FeedInv'
  <1> SUFFICES ASSUME FeedInv, NoUrlMoves PROVE FeedInv'
    OBVIOUS
  <1> USE DEF FeedInv
  <1>1. FeedTypes'
    <2>1. \E M : wire'.configured \in Seq(M)
      BY EmptySeq DEF FeedTypes, NoUrlMoves
    <2>2. QED
      BY <2>1 DEF FeedTypes, NoUrlMoves
  <1>2. OnePublisher'
    BY DEF OnePublisher, Publishing, NoUrlMoves
  <1>3. \A i \in Sent' : i \in Sent /\ At(i)' = At(i)
    BY EmptySeq DEF Sent, At, NoUrlMoves
  <1>4. changes \in Nat /\ changes' \in Nat /\ changes <= changes' /\ newest' = newest
        /\ \A d \in Devices : newest[d] \in Nat
    BY DEF NoUrlMoves, FeedTypes
  <1>5. WireInv'
    BY <1>3, <1>4 DEF WireInv
  <1>6. SendInv'
    BY <1>3, <1>4 DEF SendInv, NoUrlMoves
  <1>7. QED
    BY <1>1, <1>2, <1>5, <1>6

\* The lock is taken while nobody publishes.
LEMMA ApplyKeeps ==
  ASSUME FeedInv, NEW r \in Reconciles, Apply(r)
  PROVE  FeedInv'
  <1> USE DEF FeedInv
  <1>1. /\ \A q \in Reconciles : ~ Publishing(q)
        /\ UNCHANGED <<changes, url, wire, captures, newest>>
    BY DEF Apply, Reconciled, homeVars, nodeVars
  <1>2. PICK s \in {"idle", "publish"} : pc' = [pc EXCEPT ![r] = s]
    BY DEF Apply, Reconciled
  <1>3. IsOn(pc', Reconciles)
    BY <1>2 DEF FeedTypes, IsOn
  <1>4. \A q \in Reconciles : pc'[q] # "send" /\ (pc'[q] = "publish" => q = r)
    BY <1>1, <1>2 DEF FeedTypes, IsOn, Publishing
  <1>5. FeedTypes'
    BY <1>1, <1>3 DEF FeedTypes
  <1>6. OnePublisher'
    BY <1>4 DEF OnePublisher, Publishing
  <1>7. WireInv' /\ SendInv'
    BY <1>1, <1>4 DEF WireInv, SendInv, Sent, At
  <1>8. QED
    BY <1>5, <1>6, <1>7

\* What is resolved now is as new as anything.
LEMMA ResolveKeeps ==
  ASSUME FeedInv, NEW r \in Reconciles, Resolve(r)
  PROVE  FeedInv'
  <1> USE DEF FeedInv
  <1>0. PICK state :
          LET found == Resolved(Head(todo[r]).device, state)
          IN IF found = NoUrl THEN Over(r)
             ELSE /\ url' = [url EXCEPT ![r] = found]
                  /\ pc' = [pc EXCEPT ![r] = "send"]
    BY DEF Resolve
  <1>1. /\ pc[r] = "publish"
        /\ UNCHANGED <<changes, wire, captures, newest>>
    BY DEF Resolve, homeVars, nodeVars
  <1> DEFINE found == Resolved(Head(todo[r]).device, state)
  <1>2. /\ \/ \E s \in {"idle", "publish"} : pc' = [pc EXCEPT ![r] = s]
           \/ pc' = [pc EXCEPT ![r] = "send"] /\ url' = [url EXCEPT ![r] = found]
                                              /\ found # NoUrl
        /\ \E u : url' = [url EXCEPT ![r] = u]
    BY <1>0 DEF Over
  <1>3. found # NoUrl => found.at = changes
    BY DEF Resolved
  <1> HIDE DEF found
  <1>4. FeedTypes'
    BY <1>1, <1>2 DEF FeedTypes, IsOn
  <1>5. /\ pc'[r] = "send" => url'[r].at = changes
        /\ \A q \in Reconciles \ {r} : pc'[q] = pc[q] /\ url'[q] = url[q]
    BY <1>2, <1>3 DEF FeedTypes, IsOn
  <1>6. \A q \in Reconciles : q # r => ~ Publishing(q)
    BY <1>1 DEF OnePublisher, Publishing
  <1>7. OnePublisher'
    BY <1>5, <1>6 DEF OnePublisher, Publishing
  <1>8. WireInv'
    BY <1>1 DEF WireInv, Sent, At
  <1>9. SendInv'
    BY <1>1, <1>5, <1>6 DEF SendInv, WireInv, Sent, At, Publishing, FeedTypes
  <1>10. QED
    BY <1>4, <1>7, <1>8, <1>9

\* The URL that is sent is put behind all that is on the wire.
LEMMA PublishKeeps ==
  ASSUME FeedInv, NEW r \in Reconciles, PublishConfig(r)
  PROVE  FeedInv'
  <1> USE DEF FeedInv
  <1> DEFINE p == Head(todo[r])
             m == [device |-> p.device, url |-> url[r]]
             w == wire.configured
  <1>1. /\ Publishing(r)
        /\ pc[r] = "send" \/ p.kind = "removed"
        /\ UNCHANGED <<changes, captures, newest>>
        /\ \E s \in {"idle", "publish"} : pc' = [pc EXCEPT ![r] = s]
        /\ url' = [url EXCEPT ![r] = NoUrl]
    BY DEF PublishConfig, Over, Publishing, homeVars
  <1>2. \/ wire' = wire
        \/ p.kind = "configured" /\ wire' = [wire EXCEPT !.configured = Append(@, m)]
        \/ wire' = [wire EXCEPT !.removed = Append(@, p.device)]
    BY DEF PublishConfig, SentConfig
  <1> HIDE DEF p
  <1>3. /\ wire' = [configured |-> wire'.configured, removed |-> wire'.removed]
        /\ \/ wire'.configured = w
           \/ pc[r] = "send" /\ wire'.configured = Append(w, m)
    BY <1>1, <1>2 DEF FeedTypes
  <1>4. IsOn(pc', Reconciles) /\ IsOn(url', Reconciles)
    BY <1>1 DEF FeedTypes, IsOn
  <1>5. \A q \in Reconciles : pc'[q] # "send" /\ (pc'[q] = "publish" => q = r)
    <2>1. \A q \in Reconciles : q # r => ~ Publishing(q)
      BY <1>1 DEF OnePublisher
    <2>2. QED
      BY <1>1, <2>1 DEF FeedTypes, IsOn, Publishing
  <1>6. OnePublisher' /\ SendInv'
    BY <1>5 DEF OnePublisher, SendInv, Publishing
  <1>7. CASE wire'.configured = w
    <2>1. FeedTypes' /\ WireInv'
      BY <1>1, <1>3, <1>4, <1>7 DEF FeedTypes, WireInv, Sent, At
    <2>2. QED
      BY <1>6, <2>1
  <1>8. CASE pc[r] = "send" /\ wire'.configured = Append(w, m)
    <2>1. PICK M : w \in Seq(M)
      BY DEF FeedTypes
    <2>2. w \in Seq(M \cup {m}) /\ m \in M \cup {m}
      BY <2>1, SeqMonotonic
    <2> DEFINE v == wire'.configured
               n == Len(w)
    <2>3. /\ v \in Seq(M \cup {m}) /\ Len(v) = n + 1 /\ n \in Nat
          /\ \A i \in 1..n : v[i] = w[i]
          /\ v[n + 1] = m
      BY <1>8, <2>2, AppendProperties, LenProperties
    <2>4. /\ m.url.at \in Nat /\ m.url.at <= changes
          /\ \A i \in 1..n : w[i].url.at <= m.url.at
          /\ \A d \in Devices : newest[d] <= m.url.at
      BY <1>8 DEF SendInv, Sent, At
    <2>5. FeedTypes'
      BY <1>1, <1>3, <1>4, <2>3 DEF FeedTypes
    <2> HIDE DEF v, n, w, m
    <2>6. \A i \in 1..n + 1 : i \in 1..n \/ i = n + 1
      BY <2>3
    <2>7. /\ \A i \in 1..n : w[i].url.at \in Nat /\ w[i].url.at <= changes
          /\ \A i, j \in 1..n : i < j => w[i].url.at <= w[j].url.at
          /\ \A d \in Devices : newest[d] <= changes
          /\ \A d \in Devices, i \in 1..n : newest[d] <= w[i].url.at
      BY DEF WireInv, Sent, At, n, w
    <2>8. /\ \A i \in 1..n + 1 : v[i].url.at \in Nat /\ v[i].url.at <= changes
          /\ \A d \in Devices, i \in 1..n + 1 : newest[d] <= v[i].url.at
      <3> SUFFICES ASSUME NEW i \in 1..n + 1
                   PROVE  /\ v[i].url.at \in Nat /\ v[i].url.at <= changes
                          /\ \A d \in Devices : newest[d] <= v[i].url.at
        OBVIOUS
      <3>1. CASE i \in 1..n
        BY <2>3, <2>7, <3>1
      <3>2. CASE i = n + 1
        BY <2>3, <2>4, <3>2
      <3>3. QED
        BY <2>6, <3>1, <3>2
    <2>9. \A i, j \in 1..n + 1 : i < j => v[i].url.at <= v[j].url.at
      <3> SUFFICES ASSUME NEW i \in 1..n + 1, NEW j \in 1..n + 1, i < j
                   PROVE  v[i].url.at <= v[j].url.at
        OBVIOUS
      <3>1. i \in 1..n
        BY <2>3
      <3>2. CASE j \in 1..n
        BY <2>3, <2>7, <3>1, <3>2
      <3>3. CASE j = n + 1
        BY <2>3, <2>4, <3>1, <3>3
      <3>4. QED
        BY <2>6, <3>2, <3>3
    <2>10. WireInv'
      BY <1>1, <2>3, <2>7, <2>8, <2>9 DEF WireInv, Sent, At, v
    <2>11. QED
      BY <1>6, <2>5, <2>10
  <1>9. QED
    BY <1>3, <1>7, <1>8

LEMMA MaxOfTwo ==
  ASSUME NEW a \in Nat, NEW b \in Nat, a <= b
  PROVE  Max({a, b}) = b
  <1>1. \E x \in {a, b} : \A y \in {a, b} : x >= y
    OBVIOUS
  <1>2. \A x \in {a, b} : (\A y \in {a, b} : x >= y) => x = b
    OBVIOUS
  <1>3. QED
    BY <1>1, <1>2 DEF Max

\* What is captured is the oldest of what was on the wire.
LEMMA OnConfiguredKeeps ==
  ASSUME FeedInv, OnConfigured
  PROVE  /\ FeedInv'
         /\ \A d \in Devices : captures'[d] # captures[d] => captures'[d].at >= newest[d]
  <1> USE DEF FeedInv
  <1> DEFINE w == wire.configured
             v == wire'.configured
             m == Head(w)
  <1>1. /\ w # <<>>
        /\ captures' = [captures EXCEPT ![m.device] = m.url]
        /\ newest' = [newest EXCEPT ![m.device] = Max({@, m.url.at})]
        /\ wire' = [wire EXCEPT !.configured = Tail(@)]
        /\ UNCHANGED <<changes, pc, url>>
    BY DEF OnConfigured, agentVars
  <1>2. wire' = [configured |-> v, removed |-> wire'.removed] /\ v = Tail(w)
    BY <1>1 DEF FeedTypes
  <1>3. PICK M : w \in Seq(M)
    BY DEF FeedTypes
  <1>4. /\ m = w[1] /\ Len(w) \in Nat \ {0}
        /\ v \in Seq(M) /\ Len(v) = Len(w) - 1
        /\ \A i \in 1..Len(v) : v[i] = w[i + 1]
    <2>1. Len(w) \in Nat \ {0}
      BY <1>1, <1>3, EmptySeq, LenProperties
    <2>2. m = w[1]
      BY <1>1, <1>3, HeadTailProperties
    <2>3. v \in Seq(M) /\ Len(v) = Len(w) - 1 /\ \A i \in 1..Len(v) : v[i] = w[i + 1]
      BY <1>1, <1>2, <1>3, HeadTailProperties
    <2>4. QED
      BY <2>1, <2>2, <2>3
  <1>5. 1 \in Sent /\ m.url.at = At(1)
    BY <1>4 DEF Sent, At
  <1>6. \A i \in Sent' : i + 1 \in Sent /\ 1 < i + 1 /\ At(i)' = At(i + 1) /\ i \in Nat
    BY <1>4 DEF Sent, At
  <1> HIDE DEF w, v, m
  <1>7. m.url.at \in Nat /\ m.url.at <= changes
        /\ \A d \in Devices : newest[d] <= m.url.at
    BY <1>5 DEF WireInv
  <1>8. \A d \in Devices : newest'[d] = newest[d] \/ newest'[d] = m.url.at
    <2> SUFFICES ASSUME NEW d \in Devices
                 PROVE  newest'[d] = newest[d] \/ newest'[d] = m.url.at
      OBVIOUS
    <2>1. CASE d = m.device
      <3>1. newest'[d] = Max({newest[d], m.url.at})
        BY <1>1, <2>1 DEF FeedTypes
      <3>2. newest[d] \in Nat
        BY DEF FeedTypes
      <3>3. QED
        BY <1>7, <3>1, <3>2, MaxOfTwo
    <2>2. CASE d # m.device
      BY <1>1, <2>2 DEF FeedTypes
    <2>3. QED
      BY <2>1, <2>2
  <1>9. newest' \in [Devices -> Nat]
    <2>1. newest' = [d \in Devices |-> newest'[d]]
      BY <1>1 DEF FeedTypes
    <2>2. QED
      BY <1>7, <1>8, <2>1 DEF FeedTypes
  <1>10. IsOn(captures', Devices)
    BY <1>1 DEF FeedTypes, IsOn
  <1>11. FeedTypes'
    <2>1. \E N : wire'.configured \in Seq(N)
      BY <1>4 DEF v
    <2>2. QED
      BY <1>1, <1>2, <1>9, <1>10, <2>1 DEF FeedTypes, v
  <1>12. OnePublisher'
    BY <1>1 DEF OnePublisher, Publishing
  <1>13. WireInv'
    <2>1. \A i \in Sent' : At(i)' \in Nat /\ At(i)' <= changes' /\ m.url.at <= At(i)'
      BY <1>1, <1>5, <1>6 DEF WireInv
    <2>2. \A i, j \in Sent' : i < j => At(i)' <= At(j)'
      <3> SUFFICES ASSUME NEW i \in Sent', NEW j \in Sent', i < j
                   PROVE  At(i)' <= At(j)'
        OBVIOUS
      <3>1. i + 1 < j + 1
        BY <1>6
      <3>2. QED
        BY <1>6, <3>1 DEF WireInv
    <2>3. \A d \in Devices : newest'[d] <= changes'
      BY <1>1, <1>7, <1>8 DEF WireInv
    <2>4. \A d \in Devices, i \in Sent' : newest'[d] <= At(i)'
      BY <1>6, <1>8, <2>1 DEF WireInv
    <2>5. QED
      BY <2>1, <2>2, <2>3, <2>4 DEF WireInv
  <1>14. SendInv'
    BY <1>1, <1>5, <1>6, <1>8 DEF SendInv
  <1>15. \A d \in Devices : captures'[d] # captures[d] => captures'[d].at >= newest[d]
    <2> SUFFICES ASSUME NEW d \in Devices, captures'[d] # captures[d]
                 PROVE  captures'[d].at >= newest[d]
      OBVIOUS
    <2>1. captures'[d] = m.url
      BY <1>1 DEF FeedTypes, IsOn
    <2>2. newest[d] \in Nat /\ newest[d] <= m.url.at /\ m.url.at \in Nat
      BY <1>7 DEF FeedTypes
    <2>3. QED
      BY <2>1, <2>2
  <1>16. QED
    BY <1>11, <1>12, <1>13, <1>14, <1>15

LEMMA FeedsInitially == FeedsInit => FeedInv
  <1> SUFFICES ASSUME FeedsInit PROVE FeedInv
    OBVIOUS
  <1>1. /\ changes = 0 /\ wire = [configured |-> <<>>, removed |-> <<>>]
        /\ newest = [d \in Devices |-> 0]
        /\ captures = [d \in Devices |-> NoUrl]
        /\ url = [q \in Reconciles |-> NoUrl]
        /\ \E r \in Reconciles : pc = [q \in Reconciles |-> IF q = r THEN "discover" ELSE "idle"]
    BY DEF FeedsInit
  <1>2. \E M : wire.configured \in Seq(M)
    BY <1>1, EmptySeq
  <1>3. FeedTypes
    BY <1>1, <1>2 DEF FeedTypes, IsOn
  <1>4. \A r \in Reconciles : pc[r] \notin {"publish", "send"}
    BY <1>1
  <1>5. Sent = {}
    BY <1>1, EmptySeq DEF Sent
  <1>6. QED
    BY <1>1, <1>3, <1>4, <1>5 DEF FeedInv, OnePublisher, Publishing, WireInv, SendInv

\* One step: the invariant is kept, and what a capture becomes is no URL, the
\* environment's, or as new as what it was.
FeedStep ==
  /\ FeedInv'
  /\ \A d \in Devices :
       \/ captures'[d] = captures[d]
       \/ captures'[d] \in {NoUrl, EnvUrl}
       \/ captures'[d].at >= newest[d]

LEMMA FeedsStep == FeedInv /\ [FeedsNext]_(feedVars) => FeedStep
  <1> SUFFICES ASSUME FeedInv, [FeedsNext]_(feedVars) PROVE FeedStep
    OBVIOUS
  <1> USE DEF homeVars, agentVars, nodeVars, Change
  <1>0. /\ FeedTypes
        /\ (NoUrlMoves => FeedInv')
        /\ (UNCHANGED captures /\ FeedInv' => FeedStep)
    BY NoUrlMovesKeeps DEF FeedStep, FeedInv
  <1>1. CASE \/ \E c \in CameraEntities, s \in {"idle", "unavailable", "absent"} :
                  EntityChanges(c, s)
             \/ \E c \in CameraEntities : SourceChanges(c)
             \/ \E d \in Devices : FileChanges(d)
    <2>1. changes' = changes + 1 /\ UNCHANGED <<pc, url, wire, captures, newest>>
      BY <1>1 DEF EntityChanges, SourceChanges, FileChanges, Told
    <2>2. NoUrlMoves
      BY <1>0, <2>1 DEF NoUrlMoves, FeedTypes
    <2>3. QED
      BY <1>0, <2>1, <2>2
  <1>2. CASE \E r \in Reconciles, d \in Devices :
               \/ \E enabled \in {"true", "false"} : DiscoveryEnable(r, d, enabled)
               \/ \E form \in Forms : DiscoveryOverride(r, d, form)
               \/ DiscoveryReset(r, d)
               \/ \E s \in SuggestedMotions(d) : UseGenericMotion(r, d, s)
    <2>1. PICK r \in Reconciles : \E d \in Devices : \E entry : Edit(r, d, entry)
      BY <1>2 DEF DiscoveryEnable, DiscoveryOverride, DiscoveryReset,
                  UseGenericMotion
    <2>2. /\ changes' = changes + 1 /\ pc' = [pc EXCEPT ![r] = "discover"]
          /\ UNCHANGED <<url, wire, captures, newest>>
      BY <2>1 DEF Edit
    <2>3. IsOn(pc', Reconciles)
          /\ \A q \in Reconciles : pc'[q] \in {"publish", "send"} => pc'[q] = pc[q]
      BY <1>0, <2>2 DEF FeedTypes, IsOn
    <2>4. NoUrlMoves
      BY <1>0, <2>2, <2>3 DEF NoUrlMoves, FeedTypes
    <2>5. QED
      BY <1>0, <2>2, <2>4
  <1>3. CASE \E r \in Reconciles : Rediscover(r) \/ Discover(r)
    <2>1. PICK r \in Reconciles : \E s \in {"discover", "lock", "idle"} :
                                    pc' = [pc EXCEPT ![r] = s]
      BY <1>3 DEF Rediscover, Discover
    <2>2. UNCHANGED <<changes, url, wire, captures, newest>>
      BY <1>3 DEF Rediscover, Discover
    <2>3. IsOn(pc', Reconciles)
          /\ \A q \in Reconciles : pc'[q] \in {"publish", "send"} => pc'[q] = pc[q]
      BY <1>0, <2>1 DEF FeedTypes, IsOn
    <2>4. NoUrlMoves
      BY <1>0, <2>2, <2>3 DEF NoUrlMoves, FeedTypes
    <2>5. QED
      BY <1>0, <2>2, <2>4
  <1>4. CASE \E r \in Reconciles : Apply(r) \/ Resolve(r) \/ PublishConfig(r)
    <2>1. FeedInv'
      BY <1>4, ApplyKeeps, ResolveKeeps, PublishKeeps
    <2>2. UNCHANGED captures
      BY <1>4 DEF Apply, Reconciled, Resolve, PublishConfig
    <2>3. QED
      BY <1>0, <2>1, <2>2
  <1>5. CASE \E r \in Reconciles, connected \in BOOLEAN : AgentRestarts(r, connected)
    <2>1. /\ UNCHANGED <<changes, wire, captures, newest>>
          /\ url' = [q \in Reconciles |-> NoUrl]
          /\ \E r \in Reconciles :
               pc' = [q \in Reconciles |-> IF q = r THEN "discover" ELSE "idle"]
      BY <1>5 DEF AgentRestarts
    <2>2. NoUrlMoves
      BY <1>0, <2>1 DEF NoUrlMoves, FeedTypes, IsOn
    <2>3. QED
      BY <1>0, <2>1, <2>2
  <1>6. CASE OnConfigured
    BY <1>6, OnConfiguredKeeps DEF FeedStep
  <1>7. CASE OnRemoved \/ Bootstrap \/ Crashes
    <2>1. UNCHANGED <<changes, pc, url, newest>>
      BY <1>7 DEF OnRemoved, Bootstrap, Crashes
    <2>2. /\ wire' = [configured |-> wire'.configured, removed |-> wire'.removed]
          /\ wire'.configured = wire.configured \/ wire'.configured = <<>>
      BY <1>0, <1>7 DEF OnRemoved, Bootstrap, Crashes, FeedTypes
    <2>3. \/ captures' = captures
          \/ \E d : \E u \in {NoUrl, EnvUrl} : captures' = [captures EXCEPT ![d] = u]
          \/ captures' = [d \in Devices |-> NoUrl]
      BY <1>7 DEF OnRemoved, Bootstrap, Crashes
    <2>4. /\ IsOn(captures', Devices)
          /\ \A d \in Devices : captures'[d] \in {captures[d], NoUrl, EnvUrl}
      BY <1>0, <2>3 DEF FeedTypes, IsOn
    <2>5. NoUrlMoves
      BY <1>0, <2>1, <2>2, <2>4 DEF NoUrlMoves, FeedTypes
    <2>6. QED
      BY <1>0, <2>4, <2>5 DEF FeedStep
  <1>8. CASE \/ \E s \in Sensors : SensorReports(s)
             \/ Connects \/ Disconnects \/ Subscribes
             \/ UNCHANGED feedVars
    <2>1. UNCHANGED <<changes, pc, url, wire, captures, newest>>
      BY <1>8 DEF SensorReports, Connects, Disconnects, Subscribes, feedVars
    <2>2. NoUrlMoves
      BY <1>0, <2>1 DEF NoUrlMoves, FeedTypes
    <2>3. QED
      BY <1>0, <2>1, <2>2
  <1>9. QED
    BY <1>1, <1>2, <1>3, <1>4, <1>5, <1>6, <1>7, <1>8 DEF FeedsNext, Proceeds

\* Whatever reconciles overlap, messages are lost and processes restart, a
\* capture never goes back from a URL to one that was resolved before it.
THEOREM UrlsMoveOn == FeedsSpec => NoOlderUrl
  <1>1. FeedInv /\ [FeedsNext]_(feedVars) => FeedInv'
    BY FeedsStep DEF FeedStep
  <1>2. FeedInv /\ [FeedsNext]_(feedVars) =>
          [\A d \in Devices :
             captures'[d] # captures[d] /\ captures'[d] \notin {NoUrl, EnvUrl} =>
               captures'[d].at >= newest[d]]_(feedVars)
    BY FeedsStep DEF FeedStep
  <1>3. QED
    BY FeedsInitially, <1>1, <1>2, PTL DEF FeedsSpec, NoOlderUrl

============================================================================
