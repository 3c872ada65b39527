------------------------- MODULE CameraLoopsProofs -------------------------
(***************************************************************************)
(* Proofs about CameraLoops for any number of cameras, sensors, specs, loop *)
(* identities and concurrent reconciles.  IInv is the inductive invariant: *)
(* the properties TLC checks hold only between the steps of an apply, so   *)
(* each is strengthened by what the lock holder still owes.                *)
(***************************************************************************)
EXTENDS CameraLoops, TLAPS

\* Whoever is inside _apply_locked holds the lock, and the other way round.
LockInv ==
  \A r \in Reconciles : pc[r] \in {"stop", "start", "publish"} <=> holder = r

\* _running and the live loops are each other's inverse.
LoopInv ==
  /\ LiveLoopIsRunning
  /\ \A c \in Cameras : running[c] # NoLoop =>
       loops[running[c]].cam = c /\ ~ loops[running[c]].stop

\* While _stop_one waits for a loop, its camera has no entry in _running.
AwaitInv ==
  \A r \in Reconciles : awaiting[r] # NoLoop =>
    /\ pc[r] \in {"stop", "start"}
    /\ loops[awaiting[r]].stop
    /\ running[loops[awaiting[r]].cam] = NoLoop
    /\ loops[awaiting[r]].cam \in changed[r]
    /\ registry[loops[awaiting[r]].cam] = awaiting[r]
    /\ pc[r] = "start" => target[r][loops[awaiting[r]].cam] # NoSpec

\* Only the camera that is being stopped, or the one whose dead loop was, may
\* differ between the registry and _running.
RegInv ==
  \A c \in Cameras :
    \/ registry[c] = running[c]
    \/ /\ running[c] = NoLoop /\ registry[c] # NoLoop
       /\ loops[registry[c]].failed
    \/ \E r \in Reconciles : awaiting[r] # NoLoop /\ registry[c] = awaiting[r]
                            /\ loops[awaiting[r]].cam = c

\* What each phase of an apply has established about the running specs.
PhaseInv ==
  \A r \in Reconciles, c \in Cameras :
    /\ pc[r] \in {"start", "publish"} /\ target[r][c] = NoSpec
         => running[c] = NoLoop
    /\ pc[r] = "publish" => SpecOf(c) = target[r][c]

\* A camera whose spec the preprocessor does not know is still to be sent, or
\* was given up.
PubInv ==
  \A c \in Cameras \ unsent :
    \/ published[c] = SpecOf(c)
    \/ \E r \in Reconciles : holder = r /\ c \in changed[r]

IInv == /\ TypeOK /\ LockInv /\ LoopInv /\ AwaitInv
        /\ RegInv /\ PhaseInv /\ PubInv

-----------------------------------------------------------------------------

LEMMA LoopUpdate ==
  ASSUME NEW f \in [LoopIds -> LoopRecord], NEW l \in LoopIds
  PROVE  /\ [f EXCEPT ![l].stop = TRUE] \in [LoopIds -> LoopRecord]
         /\ [f EXCEPT ![l].ran = TRUE] \in [LoopIds -> LoopRecord]
         /\ [f EXCEPT ![l].ran = TRUE, ![l].failed = TRUE]
              \in [LoopIds -> LoopRecord]
<1>1. f[l] \in LoopRecord
  OBVIOUS
<1>2. [f[l] EXCEPT !.stop = TRUE] \in LoopRecord
  BY <1>1 DEF LoopRecord
<1>3. [f[l] EXCEPT !.ran = TRUE] \in LoopRecord
  BY <1>1 DEF LoopRecord
<1>4. [[f[l] EXCEPT !.ran = TRUE] EXCEPT !.failed = TRUE] \in LoopRecord
  BY <1>1 DEF LoopRecord
<1>5. [f EXCEPT ![l].ran = TRUE, ![l].failed = TRUE]
        = [f EXCEPT ![l] = [[f[l] EXCEPT !.ran = TRUE] EXCEPT !.failed = TRUE]]
  OBVIOUS
<1>. QED
  BY <1>2, <1>3, <1>4, <1>5

\* What the first step of run() leaves of the loops' records.
LEMMA RunUpdate ==
  ASSUME NEW l \in LoopIds, TypeOK, LoopRuns(l)
  PROVE  /\ loops' \in [LoopIds -> LoopRecord]
         /\ handlers' \subseteq LoopIds
         /\ \A m \in LoopIds : /\ loops'[m].cam = loops[m].cam
                               /\ loops'[m].spec = loops[m].spec
                               /\ loops'[m].stop = loops[m].stop
                               /\ loops[m].failed => loops'[m].failed
<1>1. loops \in [LoopIds -> LoopRecord] /\ handlers \subseteq LoopIds
  BY DEF TypeOK
<1>2. \/ /\ loops' = [loops EXCEPT ![l].ran = TRUE]
         /\ handlers' = handlers \cup {l}
      \/ /\ loops' = [loops EXCEPT ![l].ran = TRUE, ![l].failed = TRUE]
         /\ handlers' = handlers
  BY DEF LoopRuns
<1>3. loops' \in [LoopIds -> LoopRecord] /\ handlers' \subseteq LoopIds
  <2>1. CASE loops' = [loops EXCEPT ![l].ran = TRUE]
    BY <1>1, <1>2, <2>1, LoopUpdate
  <2>2. CASE loops' = [loops EXCEPT ![l].ran = TRUE, ![l].failed = TRUE]
    BY <1>1, <1>2, <2>2, LoopUpdate
  <2>. QED
    BY <1>2, <2>1, <2>2
<1>4. ASSUME NEW m \in LoopIds
      PROVE  /\ loops'[m].cam = loops[m].cam
             /\ loops'[m].spec = loops[m].spec
             /\ loops'[m].stop = loops[m].stop
             /\ loops[m].failed => loops'[m].failed
  <2>1. loops[m] \in LoopRecord
    BY <1>1
  <2>2. CASE loops' = [loops EXCEPT ![l].ran = TRUE]
    BY <1>1, <2>1, <2>2 DEF LoopRecord
  <2>3. CASE loops' = [loops EXCEPT ![l].ran = TRUE, ![l].failed = TRUE]
    <3>1. CASE m = l
      <4>1. loops'[m] = [[loops[m] EXCEPT !.ran = TRUE] EXCEPT !.failed = TRUE]
        BY <1>1, <2>3, <3>1
      <4>. QED
        BY <2>1, <4>1 DEF LoopRecord
    <3>2. CASE m # l
      BY <1>1, <2>3, <3>2
    <3>. QED
      BY <3>1, <3>2
  <2>. QED
    BY <1>2, <2>2, <2>3
<1>. QED
  BY <1>3, <1>4

LEMMA Initially == Init => IInv
<1>. SUFFICES ASSUME Init PROVE IInv
  OBVIOUS
<1>. USE ConstantsAssumption DEF Init
<1>1. PICK c \in Cameras, s \in Specs :
        loops = [l \in LoopIds |->
                   [cam |-> c, spec |-> s, ran |-> TRUE, failed |-> FALSE,
                    stop |-> TRUE]]
  OBVIOUS
<1>3. TypeOK
  BY <1>1 DEF TypeOK, Targets, NoTarget, Phases, LoopRecord
<1>4. \A l \in LoopIds : loops[l].stop
  BY <1>1
<1>. QED
  BY <1>3, <1>4
  DEF IInv, LockInv, LoopInv, LiveLoopIsRunning, AwaitInv, RegInv, PhaseInv, PubInv,
      SpecOf

\* Type correctness; a restart needs AwaitInv for the spec of the new loop.
LEMMA TypeStep == IInv /\ [Next]_vars => TypeOK'
<1>. SUFFICES ASSUME IInv, [Next]_vars PROVE TypeOK'
  OBVIOUS
<1>. USE ConstantsAssumption DEF IInv, TypeOK, Phases, Targets, LoopRecord, AwaitInv
<1>1. ASSUME NEW r \in Reconciles, NEW c \in Cameras,
                    NEW s \in Specs \cup {NoSpec}, PostOverride(r, c, s)
       PROVE  TypeOK'
  BY <1>1 DEF PostOverride, recVars, dispVars, pubVars
<1>2. ASSUME NEW r \in Reconciles, Rediscover(r)
       PROVE  TypeOK'
  BY <1>2 DEF Rediscover, recVars, dispVars, pubVars
<1>3. ASSUME NEW r \in Reconciles, DiscoverFails(r)
       PROVE  TypeOK'
  BY <1>3 DEF DiscoverFails, recVars, dispVars, pubVars
<1>4. ASSUME NEW r \in Reconciles, ReadTargets(r)
       PROVE  TypeOK'
  <2>1. target' \in [Reconciles -> Targets]
    BY <1>4 DEF ReadTargets, TakeLock, recVars, dispVars, pubVars
  <2>2. pc' \in [Reconciles -> Phases]
    <3>1. \E p \in Phases : pc' = [pc EXCEPT ![r] = p]
      BY <1>4 DEF ReadTargets, TakeLock
    <3>. QED
      BY <3>1
  <2>3. holder' \in Reconciles \cup {NoOne}
    BY <1>4 DEF ReadTargets, TakeLock, recVars, dispVars, pubVars
  <2>. QED
    BY <2>1, <2>2, <2>3, <1>4 DEF ReadTargets, TakeLock, recVars, dispVars, pubVars
<1>5. ASSUME NEW r \in Reconciles, EnterApply(r)
       PROVE  TypeOK'
  <2>1. pc' \in [Reconciles -> Phases]
    <3>1. \E p \in Phases : pc' = [pc EXCEPT ![r] = p]
      BY <1>5 DEF EnterApply, TakeLock
    <3>. QED
      BY <3>1
  <2>2. holder' \in Reconciles \cup {NoOne}
    BY <1>5 DEF EnterApply, TakeLock, recVars, dispVars, pubVars
  <2>. QED
    BY <2>1, <2>2, <1>5 DEF EnterApply, TakeLock, recVars, dispVars, pubVars
<1>6. ASSUME NEW r \in Reconciles, Acquire(r)
       PROVE  TypeOK'
  <2>1. pc' \in [Reconciles -> Phases]
    <3>1. \E p \in Phases : pc' = [pc EXCEPT ![r] = p]
      BY <1>6 DEF Acquire, TakeLock
    <3>. QED
      BY <3>1
  <2>2. holder' \in Reconciles \cup {NoOne}
    BY <1>6 DEF Acquire, TakeLock, recVars, dispVars, pubVars
  <2>. QED
    BY <2>1, <2>2, <1>6 DEF Acquire, TakeLock, recVars, dispVars, pubVars
<1>7. ASSUME NEW r \in Reconciles, StopRemoved(r)
       PROVE  TypeOK'
  <2>1. running' \in [Cameras -> LoopIds \cup {NoLoop}]
    BY <1>7 DEF StopRemoved, BeginStop, ToStop, recVars, dispVars, pubVars
  <2>2. loops' \in [LoopIds -> LoopRecord] /\ handlers' \subseteq LoopIds
    <3>1. PICK c \in Cameras : running[c] # NoLoop /\ BeginStop(r, c)
      BY <1>7 DEF StopRemoved, ToStop
    <3>2. running[c] \in LoopIds
      BY <3>1
    <3>. QED
      BY LoopUpdate, <3>1, <3>2 DEF BeginStop
  <2>3. awaiting' \in [Reconciles -> LoopIds \cup {NoLoop}]
    BY <1>7 DEF StopRemoved, BeginStop, ToStop, recVars, dispVars, pubVars
  <2>4. changed' \in [Reconciles -> SUBSET Cameras]
    BY <1>7 DEF StopRemoved, BeginStop, ToStop, recVars, dispVars, pubVars
  <2>. QED
    BY <2>1, <2>2, <2>3, <2>4, <1>7 DEF StopRemoved, BeginStop, ToStop, recVars, dispVars, pubVars
<1>8. ASSUME NEW r \in Reconciles, Unwound(r)
       PROVE  TypeOK'
  BY <1>8 DEF Unwound, recVars, dispVars, pubVars
<1>22. ASSUME NEW r \in Reconciles, LoopRaises(r)
       PROVE  TypeOK'
  BY <1>22 DEF LoopRaises, NoTarget, recVars, dispVars, pubVars
<1>9. ASSUME NEW r \in Reconciles, AllStopped(r)
       PROVE  TypeOK'
  BY <1>9 DEF AllStopped, recVars, dispVars, pubVars
<1>10. ASSUME NEW r \in Reconciles, StartNew(r)
       PROVE  TypeOK'
  BY <1>10 DEF StartNew, BeginStart, FreshLoop, Garbage, ToStart, recVars, dispVars, pubVars
<1>11. ASSUME NEW r \in Reconciles, RestartChanged(r)
       PROVE  TypeOK'
  <2>1. running' \in [Cameras -> LoopIds \cup {NoLoop}]
    BY <1>11 DEF RestartChanged, BeginStop, ToStart, recVars, dispVars, pubVars
  <2>2. loops' \in [LoopIds -> LoopRecord] /\ handlers' \subseteq LoopIds
    <3>1. PICK c \in Cameras : running[c] # NoLoop /\ BeginStop(r, c)
      BY <1>11 DEF RestartChanged, ToStart
    <3>2. running[c] \in LoopIds
      BY <3>1
    <3>. QED
      BY LoopUpdate, <3>1, <3>2 DEF BeginStop
  <2>3. awaiting' \in [Reconciles -> LoopIds \cup {NoLoop}]
    BY <1>11 DEF RestartChanged, BeginStop, ToStart, recVars, dispVars, pubVars
  <2>4. changed' \in [Reconciles -> SUBSET Cameras]
    BY <1>11 DEF RestartChanged, BeginStop, ToStart, recVars, dispVars, pubVars
  <2>. QED
    BY <2>1, <2>2, <2>3, <2>4, <1>11 DEF RestartChanged, BeginStop, ToStart, recVars, dispVars, pubVars
<1>12. ASSUME NEW r \in Reconciles, RestartUnwound(r)
       PROVE  TypeOK'
  BY <1>12 DEF RestartUnwound, BeginStart, FreshLoop, Garbage, recVars, dispVars, pubVars
<1>13. ASSUME NEW r \in Reconciles, AllStarted(r)
       PROVE  TypeOK'
  BY <1>13 DEF AllStarted, recVars, dispVars, pubVars
<1>14. ASSUME NEW r \in Reconciles, Publish(r)
       PROVE  TypeOK'
  <2>1. PICK c \in changed[r] :
            \/ /\ published' = [published EXCEPT ![c] = target[r][c]]
               /\ unsent' = unsent \ {c}
            \/ /\ unsent' = unsent \cup {c}
               /\ UNCHANGED published
    BY <1>14 DEF Publish, pubVars
  <2>2. c \in Cameras /\ target[r][c] \in Specs \cup {NoSpec}
    OBVIOUS
  <2>3. published' \in Targets
    <3>1. [published EXCEPT ![c] = target[r][c]] \in Targets
      BY <2>2
    <3>. QED
      BY <2>1, <3>1
  <2>4. unsent' \subseteq Cameras
    BY <2>1, <2>2
  <2>. QED
    BY <1>14, <2>1, <2>3, <2>4 DEF Publish, recVars, dispVars
<1>15. ASSUME NEW r \in Reconciles, Release(r)
       PROVE  TypeOK'
  BY <1>15 DEF Release, NoTarget, Targets, TypeOK, recVars, dispVars, pubVars
<1>16. ASSUME NEW l \in LoopIds, LoopRuns(l)
       PROVE  TypeOK'
  <2>1. loops' \in [LoopIds -> LoopRecord] /\ handlers' \subseteq LoopIds
    BY RunUpdate, <1>16
  <2>. QED
    BY <2>1, <1>16 DEF LoopRuns, recVars, dispVars, pubVars
<1>17. ASSUME NEW l \in LoopIds, CooldownOver(l)
       PROVE  TypeOK'
  BY <1>17 DEF CooldownOver, recVars, dispVars, pubVars
<1>18. ASSUME NEW cs \in Sensors, MotionEvent(cs)
       PROVE  TypeOK'
  BY <1>18 DEF MotionEvent, Deliver, recVars, dispVars, pubVars
<1>19. ASSUME StaleSnapshot PROVE TypeOK'
  BY <1>19 DEF StaleSnapshot, recVars, dispVars, pubVars
<1>20. ASSUME RecordAlert PROVE TypeOK'
  BY <1>20 DEF RecordAlert, Deliver, recVars, dispVars, pubVars
<1>21. CASE UNCHANGED vars
  BY <1>21 DEF vars, recVars, dispVars, pubVars
<1>. QED
  BY <1>1, <1>2, <1>3, <1>4, <1>5, <1>6, <1>7, <1>8, <1>9, <1>10, <1>11, <1>12,
     <1>13, <1>14, <1>15, <1>16, <1>17, <1>18, <1>19, <1>20, <1>21, <1>22
  DEF Next, Reconcile

\* The lock is taken, passed on and released as LockInv says.
LEMMA LockStep == IInv /\ [Next]_vars => LockInv'
<1>. SUFFICES ASSUME IInv, [Next]_vars PROVE LockInv'
  OBVIOUS
<1>. USE ConstantsAssumption DEF IInv, LockInv, TypeOK, Phases
<1>1. ASSUME NEW r \in Reconciles, NEW c \in Cameras,
                    NEW s \in Specs \cup {NoSpec}, PostOverride(r, c, s)
       PROVE  LockInv'
  BY <1>1 DEF PostOverride, recVars, dispVars, pubVars
<1>2. ASSUME NEW r \in Reconciles, Rediscover(r)
       PROVE  LockInv'
  BY <1>2 DEF Rediscover, recVars, dispVars, pubVars
<1>3. ASSUME NEW r \in Reconciles, DiscoverFails(r)
       PROVE  LockInv'
  BY <1>3 DEF DiscoverFails, recVars, dispVars, pubVars
<1>4. ASSUME NEW r \in Reconciles, ReadTargets(r)
       PROVE  LockInv'
  BY <1>4 DEF ReadTargets, TakeLock, recVars, dispVars, pubVars
<1>5. ASSUME NEW r \in Reconciles, EnterApply(r)
       PROVE  LockInv'
  BY <1>5 DEF EnterApply, TakeLock, recVars, dispVars, pubVars
<1>6. ASSUME NEW r \in Reconciles, Acquire(r)
       PROVE  LockInv'
  BY <1>6 DEF Acquire, TakeLock, recVars, dispVars, pubVars
<1>7. ASSUME NEW r \in Reconciles, StopRemoved(r)
       PROVE  LockInv'
  BY <1>7 DEF StopRemoved, BeginStop, ToStop, recVars, dispVars, pubVars
<1>8. ASSUME NEW r \in Reconciles, Unwound(r)
       PROVE  LockInv'
  BY <1>8 DEF Unwound, recVars, dispVars, pubVars
<1>18. ASSUME NEW r \in Reconciles, LoopRaises(r)
       PROVE  LockInv'
  BY <1>18 DEF LoopRaises, NoTarget, recVars, dispVars, pubVars
<1>9. ASSUME NEW r \in Reconciles, AllStopped(r)
       PROVE  LockInv'
  BY <1>9 DEF AllStopped, recVars, dispVars, pubVars
<1>10. ASSUME NEW r \in Reconciles, StartNew(r)
       PROVE  LockInv'
  BY <1>10 DEF StartNew, BeginStart, FreshLoop, Garbage, ToStart, recVars, dispVars, pubVars
<1>11. ASSUME NEW r \in Reconciles, RestartChanged(r)
       PROVE  LockInv'
  BY <1>11 DEF RestartChanged, BeginStop, ToStart, recVars, dispVars, pubVars
<1>12. ASSUME NEW r \in Reconciles, RestartUnwound(r)
       PROVE  LockInv'
  BY <1>12 DEF RestartUnwound, BeginStart, FreshLoop, Garbage, recVars, dispVars, pubVars
<1>13. ASSUME NEW r \in Reconciles, AllStarted(r)
       PROVE  LockInv'
  BY <1>13 DEF AllStarted, recVars, dispVars, pubVars
<1>14. ASSUME NEW r \in Reconciles, Publish(r)
       PROVE  LockInv'
  BY <1>14 DEF Publish, recVars, dispVars, pubVars
<1>15. ASSUME NEW r \in Reconciles, Release(r)
       PROVE  LockInv'
  BY <1>15 DEF Release, NoTarget, Targets, TypeOK, recVars, dispVars, pubVars
<1>16. ASSUME NEW l \in LoopIds, LoopRuns(l)
       PROVE  LockInv'
  <2>1. loops' \in [LoopIds -> LoopRecord]
    BY RunUpdate, <1>16
  <2>2. \A m \in LoopIds : loops'[m].cam = loops[m].cam
    BY RunUpdate, <1>16
  <2>3. \A m \in LoopIds : loops'[m].spec = loops[m].spec
    BY RunUpdate, <1>16
  <2>4. \A m \in LoopIds : loops'[m].stop = loops[m].stop
    BY RunUpdate, <1>16
  <2>5. \A m \in LoopIds : loops[m].failed => loops'[m].failed
    BY RunUpdate, <1>16
  <2>6. UNCHANGED <<recVars, running, registry, pubVars>>
    BY <1>16 DEF LoopRuns
  <2>. QED
    BY <2>1, <2>2, <2>3, <2>4, <2>5, <2>6 DEF recVars, pubVars
<1>17. ASSUME UNCHANGED <<recVars, running, registry, loops, pubVars>>
       PROVE  LockInv'
  BY <1>17 DEF recVars, pubVars
<1>. QED
  BY <1>1, <1>2, <1>3, <1>4, <1>5, <1>6, <1>7, <1>8, <1>9, <1>10, <1>11, <1>12,
     <1>13, <1>14, <1>15, <1>16, <1>17, <1>18
  DEF Next, Reconcile,
     MotionEvent, StaleSnapshot, RecordAlert, CooldownOver, vars

\* A loop enters _running when it is made and leaves it when it is stopped.
LEMMA LoopStep == IInv /\ [Next]_vars => LoopInv'
<1>. SUFFICES ASSUME IInv, [Next]_vars PROVE LoopInv'
  OBVIOUS
<1>. USE ConstantsAssumption DEF IInv, LoopInv, LiveLoopIsRunning, TypeOK, LoopRecord, AwaitInv
<1>1. ASSUME NEW r \in Reconciles, NEW c \in Cameras,
                    NEW s \in Specs \cup {NoSpec}, PostOverride(r, c, s)
       PROVE  LoopInv'
  BY <1>1 DEF PostOverride, recVars, dispVars, pubVars
<1>2. ASSUME NEW r \in Reconciles, Rediscover(r)
       PROVE  LoopInv'
  BY <1>2 DEF Rediscover, recVars, dispVars, pubVars
<1>3. ASSUME NEW r \in Reconciles, DiscoverFails(r)
       PROVE  LoopInv'
  BY <1>3 DEF DiscoverFails, recVars, dispVars, pubVars
<1>4. ASSUME NEW r \in Reconciles, ReadTargets(r)
       PROVE  LoopInv'
  BY <1>4 DEF ReadTargets, TakeLock, recVars, dispVars, pubVars
<1>5. ASSUME NEW r \in Reconciles, EnterApply(r)
       PROVE  LoopInv'
  BY <1>5 DEF EnterApply, TakeLock, recVars, dispVars, pubVars
<1>6. ASSUME NEW r \in Reconciles, Acquire(r)
       PROVE  LoopInv'
  BY <1>6 DEF Acquire, TakeLock, recVars, dispVars, pubVars
<1>7. ASSUME NEW r \in Reconciles, StopRemoved(r)
       PROVE  LoopInv'
  BY <1>7 DEF StopRemoved, BeginStop, ToStop, recVars, dispVars, pubVars
<1>8. ASSUME NEW r \in Reconciles, Unwound(r)
       PROVE  LoopInv'
  BY <1>8 DEF Unwound, recVars, dispVars, pubVars
<1>18. ASSUME NEW r \in Reconciles, LoopRaises(r)
       PROVE  LoopInv'
  BY <1>18 DEF LoopRaises, NoTarget, recVars, dispVars, pubVars
<1>9. ASSUME NEW r \in Reconciles, AllStopped(r)
       PROVE  LoopInv'
  BY <1>9 DEF AllStopped, recVars, dispVars, pubVars
<1>10. ASSUME NEW r \in Reconciles, StartNew(r)
       PROVE  LoopInv'
  BY <1>10 DEF StartNew, BeginStart, FreshLoop, Garbage, ToStart, recVars, dispVars, pubVars
<1>11. ASSUME NEW r \in Reconciles, RestartChanged(r)
       PROVE  LoopInv'
  BY <1>11 DEF RestartChanged, BeginStop, ToStart, recVars, dispVars, pubVars
<1>12. ASSUME NEW r \in Reconciles, RestartUnwound(r)
       PROVE  LoopInv'
  BY <1>12 DEF RestartUnwound, BeginStart, FreshLoop, Garbage, recVars, dispVars, pubVars
<1>13. ASSUME NEW r \in Reconciles, AllStarted(r)
       PROVE  LoopInv'
  BY <1>13 DEF AllStarted, recVars, dispVars, pubVars
<1>14. ASSUME NEW r \in Reconciles, Publish(r)
       PROVE  LoopInv'
  BY <1>14 DEF Publish, recVars, dispVars, pubVars
<1>15. ASSUME NEW r \in Reconciles, Release(r)
       PROVE  LoopInv'
  BY <1>15 DEF Release, NoTarget, Targets, TypeOK, recVars, dispVars, pubVars
<1>16. ASSUME NEW l \in LoopIds, LoopRuns(l)
       PROVE  LoopInv'
  <2>1. loops' \in [LoopIds -> LoopRecord]
    BY RunUpdate, <1>16
  <2>2. \A m \in LoopIds : loops'[m].cam = loops[m].cam
    BY RunUpdate, <1>16
  <2>3. \A m \in LoopIds : loops'[m].spec = loops[m].spec
    BY RunUpdate, <1>16
  <2>4. \A m \in LoopIds : loops'[m].stop = loops[m].stop
    BY RunUpdate, <1>16
  <2>5. \A m \in LoopIds : loops[m].failed => loops'[m].failed
    BY RunUpdate, <1>16
  <2>6. UNCHANGED <<recVars, running, registry, pubVars>>
    BY <1>16 DEF LoopRuns
  <2>. QED
    BY <2>1, <2>2, <2>3, <2>4, <2>5, <2>6 DEF recVars, pubVars
<1>17. ASSUME UNCHANGED <<recVars, running, registry, loops, pubVars>>
       PROVE  LoopInv'
  BY <1>17 DEF recVars, pubVars
<1>. QED
  BY <1>1, <1>2, <1>3, <1>4, <1>5, <1>6, <1>7, <1>8, <1>9, <1>10, <1>11, <1>12,
     <1>13, <1>14, <1>15, <1>16, <1>17, <1>18
  DEF Next, Reconcile,
     MotionEvent, StaleSnapshot, RecordAlert, CooldownOver, vars

\* Nobody but the lock holder touches _running while a loop is awaited.
LEMMA AwaitStep == IInv /\ [Next]_vars => AwaitInv'
<1>. SUFFICES ASSUME IInv, [Next]_vars PROVE AwaitInv'
  OBVIOUS
<1>. USE ConstantsAssumption DEF IInv, AwaitInv, LockInv, LoopInv, TypeOK, LoopRecord
<1>1. ASSUME NEW r \in Reconciles, NEW c \in Cameras,
                    NEW s \in Specs \cup {NoSpec}, PostOverride(r, c, s)
       PROVE  AwaitInv'
  BY <1>1 DEF PostOverride, recVars, dispVars, pubVars
<1>2. ASSUME NEW r \in Reconciles, Rediscover(r)
       PROVE  AwaitInv'
  BY <1>2 DEF Rediscover, recVars, dispVars, pubVars
<1>3. ASSUME NEW r \in Reconciles, DiscoverFails(r)
       PROVE  AwaitInv'
  BY <1>3 DEF DiscoverFails, recVars, dispVars, pubVars
<1>4. ASSUME NEW r \in Reconciles, ReadTargets(r)
       PROVE  AwaitInv'
  BY <1>4 DEF ReadTargets, TakeLock, recVars, dispVars, pubVars
<1>5. ASSUME NEW r \in Reconciles, EnterApply(r)
       PROVE  AwaitInv'
  BY <1>5 DEF EnterApply, TakeLock, recVars, dispVars, pubVars
<1>6. ASSUME NEW r \in Reconciles, Acquire(r)
       PROVE  AwaitInv'
  BY <1>6 DEF Acquire, TakeLock, recVars, dispVars, pubVars
<1>7. ASSUME NEW r \in Reconciles, StopRemoved(r)
       PROVE  AwaitInv'
  <2>1. PICK c \in Cameras : running[c] # NoLoop /\ BeginStop(r, c)
    BY <1>7 DEF StopRemoved, ToStop
  <2>2. registry[c] = running[c]
    BY <1>7, <2>1 DEF RegInv, StopRemoved
  <2>3. pc[r] = "stop"
    BY <1>7 DEF StopRemoved, ToStart, SpecOf, Targets
  <2>. QED
    BY <1>7, <2>1, <2>2, <2>3 DEF StopRemoved, BeginStop, recVars, pubVars
<1>8. ASSUME NEW r \in Reconciles, Unwound(r)
       PROVE  AwaitInv'
  BY <1>8 DEF Unwound, recVars, dispVars, pubVars
<1>18. ASSUME NEW r \in Reconciles, LoopRaises(r)
       PROVE  AwaitInv'
  BY <1>18 DEF LoopRaises, NoTarget, recVars, dispVars, pubVars
<1>9. ASSUME NEW r \in Reconciles, AllStopped(r)
       PROVE  AwaitInv'
  BY <1>9 DEF AllStopped, recVars, dispVars, pubVars
<1>10. ASSUME NEW r \in Reconciles, StartNew(r)
       PROVE  AwaitInv'
  BY <1>10 DEF StartNew, BeginStart, FreshLoop, Garbage, ToStart, recVars, dispVars, pubVars
<1>11. ASSUME NEW r \in Reconciles, RestartChanged(r)
       PROVE  AwaitInv'
  <2>1. PICK c \in ToStart(r) : running[c] # NoLoop /\ BeginStop(r, c)
    BY <1>11 DEF RestartChanged
  <2>2. registry[c] = running[c]
    BY <1>11, <2>1 DEF RegInv, RestartChanged, ToStart
  <2>3. c \in Cameras /\ (pc[r] = "start" => target[r][c] # NoSpec)
    BY <2>1 DEF ToStart
  <2>. QED
    BY <1>11, <2>1, <2>2, <2>3 DEF RestartChanged, BeginStop, recVars, pubVars
<1>12. ASSUME NEW r \in Reconciles, RestartUnwound(r)
       PROVE  AwaitInv'
  BY <1>12 DEF RestartUnwound, BeginStart, FreshLoop, Garbage, recVars, dispVars, pubVars
<1>13. ASSUME NEW r \in Reconciles, AllStarted(r)
       PROVE  AwaitInv'
  BY <1>13 DEF AllStarted, recVars, dispVars, pubVars
<1>14. ASSUME NEW r \in Reconciles, Publish(r)
       PROVE  AwaitInv'
  BY <1>14 DEF Publish, recVars, dispVars, pubVars
<1>15. ASSUME NEW r \in Reconciles, Release(r)
       PROVE  AwaitInv'
  BY <1>15 DEF Release, NoTarget, Targets, TypeOK, recVars, dispVars, pubVars
<1>16. ASSUME NEW l \in LoopIds, LoopRuns(l)
       PROVE  AwaitInv'
  <2>1. loops' \in [LoopIds -> LoopRecord]
    BY RunUpdate, <1>16
  <2>2. \A m \in LoopIds : loops'[m].cam = loops[m].cam
    BY RunUpdate, <1>16
  <2>3. \A m \in LoopIds : loops'[m].spec = loops[m].spec
    BY RunUpdate, <1>16
  <2>4. \A m \in LoopIds : loops'[m].stop = loops[m].stop
    BY RunUpdate, <1>16
  <2>5. \A m \in LoopIds : loops[m].failed => loops'[m].failed
    BY RunUpdate, <1>16
  <2>6. UNCHANGED <<recVars, running, registry, pubVars>>
    BY <1>16 DEF LoopRuns
  <2>. QED
    BY <2>1, <2>2, <2>3, <2>4, <2>5, <2>6 DEF recVars, pubVars
<1>17. ASSUME UNCHANGED <<recVars, running, registry, loops, pubVars>>
       PROVE  AwaitInv'
  BY <1>17 DEF recVars, pubVars
<1>. QED
  BY <1>1, <1>2, <1>3, <1>4, <1>5, <1>6, <1>7, <1>8, <1>9, <1>10, <1>11, <1>12,
     <1>13, <1>14, <1>15, <1>16, <1>17, <1>18
  DEF Next, Reconcile,
     MotionEvent, StaleSnapshot, RecordAlert, CooldownOver, vars

\* Registry entries are dropped after the await and made with the loop.
LEMMA RegStep == IInv /\ [Next]_vars => RegInv'
<1>. SUFFICES ASSUME IInv, [Next]_vars PROVE RegInv'
  OBVIOUS
<1>. USE ConstantsAssumption DEF IInv, RegInv, AwaitInv, LockInv, LoopInv, TypeOK, LoopRecord
<1>1. ASSUME NEW r \in Reconciles, NEW c \in Cameras,
                    NEW s \in Specs \cup {NoSpec}, PostOverride(r, c, s)
       PROVE  RegInv'
  BY <1>1 DEF PostOverride, recVars, dispVars, pubVars
<1>2. ASSUME NEW r \in Reconciles, Rediscover(r)
       PROVE  RegInv'
  BY <1>2 DEF Rediscover, recVars, dispVars, pubVars
<1>3. ASSUME NEW r \in Reconciles, DiscoverFails(r)
       PROVE  RegInv'
  BY <1>3 DEF DiscoverFails, recVars, dispVars, pubVars
<1>4. ASSUME NEW r \in Reconciles, ReadTargets(r)
       PROVE  RegInv'
  BY <1>4 DEF ReadTargets, TakeLock, recVars, dispVars, pubVars
<1>5. ASSUME NEW r \in Reconciles, EnterApply(r)
       PROVE  RegInv'
  BY <1>5 DEF EnterApply, TakeLock, recVars, dispVars, pubVars
<1>6. ASSUME NEW r \in Reconciles, Acquire(r)
       PROVE  RegInv'
  BY <1>6 DEF Acquire, TakeLock, recVars, dispVars, pubVars
<1>7. ASSUME NEW r \in Reconciles, StopRemoved(r)
       PROVE  RegInv'
  BY <1>7 DEF StopRemoved, BeginStop, ToStop, recVars, dispVars, pubVars
<1>8. ASSUME NEW r \in Reconciles, Unwound(r)
       PROVE  RegInv'
  BY <1>8 DEF Unwound, recVars, dispVars, pubVars
<1>18. ASSUME NEW r \in Reconciles, LoopRaises(r)
       PROVE  RegInv'
  BY <1>18 DEF LoopRaises, NoTarget, recVars, dispVars, pubVars
<1>9. ASSUME NEW r \in Reconciles, AllStopped(r)
       PROVE  RegInv'
  BY <1>9 DEF AllStopped, recVars, dispVars, pubVars
<1>10. ASSUME NEW r \in Reconciles, StartNew(r)
       PROVE  RegInv'
  BY <1>10 DEF StartNew, BeginStart, FreshLoop, Garbage, ToStart, recVars, dispVars, pubVars
<1>11. ASSUME NEW r \in Reconciles, RestartChanged(r)
       PROVE  RegInv'
  BY <1>11 DEF RestartChanged, BeginStop, ToStart, recVars, dispVars, pubVars
<1>12. ASSUME NEW r \in Reconciles, RestartUnwound(r)
       PROVE  RegInv'
  BY <1>12 DEF RestartUnwound, BeginStart, FreshLoop, Garbage, recVars, dispVars, pubVars
<1>13. ASSUME NEW r \in Reconciles, AllStarted(r)
       PROVE  RegInv'
  BY <1>13 DEF AllStarted, recVars, dispVars, pubVars
<1>14. ASSUME NEW r \in Reconciles, Publish(r)
       PROVE  RegInv'
  BY <1>14 DEF Publish, recVars, dispVars, pubVars
<1>15. ASSUME NEW r \in Reconciles, Release(r)
       PROVE  RegInv'
  BY <1>15 DEF Release, NoTarget, Targets, TypeOK, recVars, dispVars, pubVars
<1>16. ASSUME NEW l \in LoopIds, LoopRuns(l)
       PROVE  RegInv'
  <2>1. loops' \in [LoopIds -> LoopRecord]
    BY RunUpdate, <1>16
  <2>2. \A m \in LoopIds : loops'[m].cam = loops[m].cam
    BY RunUpdate, <1>16
  <2>3. \A m \in LoopIds : loops'[m].spec = loops[m].spec
    BY RunUpdate, <1>16
  <2>4. \A m \in LoopIds : loops'[m].stop = loops[m].stop
    BY RunUpdate, <1>16
  <2>5. \A m \in LoopIds : loops[m].failed => loops'[m].failed
    BY RunUpdate, <1>16
  <2>6. UNCHANGED <<recVars, running, registry, pubVars>>
    BY <1>16 DEF LoopRuns
  <2>. QED
    BY <2>1, <2>2, <2>3, <2>4, <2>5, <2>6 DEF recVars, pubVars
<1>17. ASSUME UNCHANGED <<recVars, running, registry, loops, pubVars>>
       PROVE  RegInv'
  BY <1>17 DEF recVars, pubVars
<1>. QED
  BY <1>1, <1>2, <1>3, <1>4, <1>5, <1>6, <1>7, <1>8, <1>9, <1>10, <1>11, <1>12,
     <1>13, <1>14, <1>15, <1>16, <1>17, <1>18
  DEF Next, Reconcile,
     MotionEvent, StaleSnapshot, RecordAlert, CooldownOver, vars

\* The stop phase ends with nothing to stop, the start phase with every
\* target running.
LEMMA PhaseStep == IInv /\ [Next]_vars => PhaseInv'
<1>. SUFFICES ASSUME IInv, [Next]_vars PROVE PhaseInv'
  OBVIOUS
<1>. USE ConstantsAssumption DEF IInv, PhaseInv, AwaitInv, LockInv, LoopInv, TypeOK, LoopRecord, SpecOf, ToStop, ToStart
<1>1. ASSUME NEW r \in Reconciles, NEW c \in Cameras,
                    NEW s \in Specs \cup {NoSpec}, PostOverride(r, c, s)
       PROVE  PhaseInv'
  BY <1>1 DEF PostOverride, recVars, dispVars, pubVars
<1>2. ASSUME NEW r \in Reconciles, Rediscover(r)
       PROVE  PhaseInv'
  BY <1>2 DEF Rediscover, recVars, dispVars, pubVars
<1>3. ASSUME NEW r \in Reconciles, DiscoverFails(r)
       PROVE  PhaseInv'
  BY <1>3 DEF DiscoverFails, recVars, dispVars, pubVars
<1>4. ASSUME NEW r \in Reconciles, ReadTargets(r)
       PROVE  PhaseInv'
  BY <1>4 DEF ReadTargets, TakeLock, recVars, dispVars, pubVars
<1>5. ASSUME NEW r \in Reconciles, EnterApply(r)
       PROVE  PhaseInv'
  BY <1>5 DEF EnterApply, TakeLock, recVars, dispVars, pubVars
<1>6. ASSUME NEW r \in Reconciles, Acquire(r)
       PROVE  PhaseInv'
  BY <1>6 DEF Acquire, TakeLock, recVars, dispVars, pubVars
<1>7. ASSUME NEW r \in Reconciles, StopRemoved(r)
       PROVE  PhaseInv'
  BY <1>7 DEF StopRemoved, BeginStop, ToStop, recVars, dispVars, pubVars
<1>8. ASSUME NEW r \in Reconciles, Unwound(r)
       PROVE  PhaseInv'
  BY <1>8 DEF Unwound, recVars, dispVars, pubVars
<1>18. ASSUME NEW r \in Reconciles, LoopRaises(r)
       PROVE  PhaseInv'
  BY <1>18 DEF LoopRaises, NoTarget, recVars, dispVars, pubVars
<1>9. ASSUME NEW r \in Reconciles, AllStopped(r)
       PROVE  PhaseInv'
  BY <1>9 DEF AllStopped, recVars, dispVars, pubVars
<1>10. ASSUME NEW r \in Reconciles, StartNew(r)
       PROVE  PhaseInv'
  BY <1>10 DEF StartNew, BeginStart, FreshLoop, Garbage, ToStart, recVars, dispVars, pubVars
<1>11. ASSUME NEW r \in Reconciles, RestartChanged(r)
       PROVE  PhaseInv'
  BY <1>11 DEF RestartChanged, BeginStop, ToStart, recVars, dispVars, pubVars
<1>12. ASSUME NEW r \in Reconciles, RestartUnwound(r)
       PROVE  PhaseInv'
  BY <1>12 DEF RestartUnwound, BeginStart, FreshLoop, Garbage, recVars, dispVars, pubVars
<1>13. ASSUME NEW r \in Reconciles, AllStarted(r)
       PROVE  PhaseInv'
  BY <1>13 DEF AllStarted, recVars, dispVars, pubVars
<1>14. ASSUME NEW r \in Reconciles, Publish(r)
       PROVE  PhaseInv'
  BY <1>14 DEF Publish, recVars, dispVars, pubVars
<1>15. ASSUME NEW r \in Reconciles, Release(r)
       PROVE  PhaseInv'
  BY <1>15 DEF Release, NoTarget, Targets, TypeOK, recVars, dispVars, pubVars
<1>16. ASSUME NEW l \in LoopIds, LoopRuns(l)
       PROVE  PhaseInv'
  <2>1. loops' \in [LoopIds -> LoopRecord]
    BY RunUpdate, <1>16
  <2>2. \A m \in LoopIds : loops'[m].cam = loops[m].cam
    BY RunUpdate, <1>16
  <2>3. \A m \in LoopIds : loops'[m].spec = loops[m].spec
    BY RunUpdate, <1>16
  <2>4. \A m \in LoopIds : loops'[m].stop = loops[m].stop
    BY RunUpdate, <1>16
  <2>5. \A m \in LoopIds : loops[m].failed => loops'[m].failed
    BY RunUpdate, <1>16
  <2>6. UNCHANGED <<recVars, running, registry, pubVars>>
    BY <1>16 DEF LoopRuns
  <2>. QED
    BY <2>1, <2>2, <2>3, <2>4, <2>5, <2>6 DEF recVars, pubVars
<1>17. ASSUME UNCHANGED <<recVars, running, registry, loops, pubVars>>
       PROVE  PhaseInv'
  BY <1>17 DEF recVars, pubVars
<1>. QED
  BY <1>1, <1>2, <1>3, <1>4, <1>5, <1>6, <1>7, <1>8, <1>9, <1>10, <1>11, <1>12,
     <1>13, <1>14, <1>15, <1>16, <1>17, <1>18
  DEF Next, Reconcile,
     MotionEvent, StaleSnapshot, RecordAlert, CooldownOver, vars

\* Every change of _running is in the diff, and the diff is sent.
LEMMA PubStep == IInv /\ [Next]_vars => PubInv'
<1>. SUFFICES ASSUME IInv, [Next]_vars PROVE PubInv'
  OBVIOUS
<1>. USE ConstantsAssumption DEF IInv, PubInv, PhaseInv, AwaitInv, LockInv, LoopInv, TypeOK, LoopRecord, SpecOf
<1>1. ASSUME NEW r \in Reconciles, NEW c \in Cameras,
                    NEW s \in Specs \cup {NoSpec}, PostOverride(r, c, s)
       PROVE  PubInv'
  BY <1>1 DEF PostOverride, recVars, dispVars, pubVars
<1>2. ASSUME NEW r \in Reconciles, Rediscover(r)
       PROVE  PubInv'
  BY <1>2 DEF Rediscover, recVars, dispVars, pubVars
<1>3. ASSUME NEW r \in Reconciles, DiscoverFails(r)
       PROVE  PubInv'
  BY <1>3 DEF DiscoverFails, recVars, dispVars, pubVars
<1>4. ASSUME NEW r \in Reconciles, ReadTargets(r)
       PROVE  PubInv'
  BY <1>4 DEF ReadTargets, TakeLock, recVars, dispVars, pubVars
<1>5. ASSUME NEW r \in Reconciles, EnterApply(r)
       PROVE  PubInv'
  BY <1>5 DEF EnterApply, TakeLock, recVars, dispVars, pubVars
<1>6. ASSUME NEW r \in Reconciles, Acquire(r)
       PROVE  PubInv'
  BY <1>6 DEF Acquire, TakeLock, recVars, dispVars, pubVars
<1>7. ASSUME NEW r \in Reconciles, StopRemoved(r)
       PROVE  PubInv'
  BY <1>7 DEF StopRemoved, BeginStop, ToStop, recVars, dispVars, pubVars
<1>8. ASSUME NEW r \in Reconciles, Unwound(r)
       PROVE  PubInv'
  BY <1>8 DEF Unwound, recVars, dispVars, pubVars
<1>18. ASSUME NEW r \in Reconciles, LoopRaises(r)
       PROVE  PubInv'
  BY <1>18 DEF LoopRaises, NoTarget, recVars, dispVars, pubVars
<1>9. ASSUME NEW r \in Reconciles, AllStopped(r)
       PROVE  PubInv'
  BY <1>9 DEF AllStopped, recVars, dispVars, pubVars
<1>10. ASSUME NEW r \in Reconciles, StartNew(r)
       PROVE  PubInv'
  BY <1>10 DEF StartNew, BeginStart, FreshLoop, Garbage, ToStart, recVars, dispVars, pubVars
<1>11. ASSUME NEW r \in Reconciles, RestartChanged(r)
       PROVE  PubInv'
  BY <1>11 DEF RestartChanged, BeginStop, ToStart, recVars, dispVars, pubVars
<1>12. ASSUME NEW r \in Reconciles, RestartUnwound(r)
       PROVE  PubInv'
  BY <1>12 DEF RestartUnwound, BeginStart, FreshLoop, Garbage, recVars, dispVars, pubVars
<1>13. ASSUME NEW r \in Reconciles, AllStarted(r)
       PROVE  PubInv'
  BY <1>13 DEF AllStarted, recVars, dispVars, pubVars
<1>14. ASSUME NEW r \in Reconciles, Publish(r)
       PROVE  PubInv'
  <2>1. holder = r /\ \A d \in Cameras : target[r][d] = SpecOf(d)
    BY <1>14 DEF Publish
  <2>2. PICK c \in changed[r] :
            /\ changed' = [changed EXCEPT ![r] = @ \ {c}]
            /\ \/ /\ published' = [published EXCEPT ![c] = target[r][c]]
                  /\ unsent' = unsent \ {c}
               \/ /\ unsent' = unsent \cup {c}
                  /\ UNCHANGED published
    BY <1>14 DEF Publish
  <2>3. UNCHANGED <<holder, running, loops>>
    BY <1>14 DEF Publish
  <2>4. ASSUME NEW d \in Cameras \ unsent'
        PROVE  \/ published'[d] = SpecOf(d)'
               \/ holder' = r /\ d \in changed'[r]
    <3>1. CASE d = c
      BY <2>1, <2>2, <2>3, <2>4, <3>1 DEF Targets
    <3>2. CASE d # c
      <4>1. d \notin unsent
        BY <2>2, <2>4, <3>2
      <4>. QED
        BY <2>1, <2>2, <2>3, <4>1, <3>2 DEF Targets
    <3>. QED
      BY <3>1, <3>2
  <2>. QED
    BY <2>4
<1>15. ASSUME NEW r \in Reconciles, Release(r)
       PROVE  PubInv'
  BY <1>15 DEF Release, NoTarget, Targets, TypeOK, recVars, dispVars, pubVars
<1>16. ASSUME NEW l \in LoopIds, LoopRuns(l)
       PROVE  PubInv'
  <2>1. loops' \in [LoopIds -> LoopRecord]
    BY RunUpdate, <1>16
  <2>2. \A m \in LoopIds : loops'[m].cam = loops[m].cam
    BY RunUpdate, <1>16
  <2>3. \A m \in LoopIds : loops'[m].spec = loops[m].spec
    BY RunUpdate, <1>16
  <2>4. \A m \in LoopIds : loops'[m].stop = loops[m].stop
    BY RunUpdate, <1>16
  <2>5. \A m \in LoopIds : loops[m].failed => loops'[m].failed
    BY RunUpdate, <1>16
  <2>6. UNCHANGED <<recVars, running, registry, pubVars>>
    BY <1>16 DEF LoopRuns
  <2>. QED
    BY <2>1, <2>2, <2>3, <2>4, <2>5, <2>6 DEF recVars, pubVars
<1>17. ASSUME UNCHANGED <<recVars, running, registry, loops, pubVars>>
       PROVE  PubInv'
  BY <1>17 DEF recVars, pubVars
<1>. QED
  BY <1>1, <1>2, <1>3, <1>4, <1>5, <1>6, <1>7, <1>8, <1>9, <1>10, <1>11, <1>12,
     <1>13, <1>14, <1>15, <1>16, <1>17, <1>18
  DEF Next, Reconcile,
     MotionEvent, StaleSnapshot, RecordAlert, CooldownOver, vars

LEMMA Inductive == Spec => []IInv
<1>1. IInv /\ [Next]_vars => IInv'
  BY TypeStep, LockStep, LoopStep, AwaitStep, RegStep, PhaseStep, PubStep DEF IInv
<1>. QED
  BY Initially, <1>1, PTL DEF Spec

-----------------------------------------------------------------------------

\* Every reachable state is well typed.
THEOREM Typing == Spec => []TypeOK
  BY Inductive, PTL DEF IInv

\* Reconciler.apply never leaves a live loop outside _running, for any number
\* of overlapping reconciles.
THEOREM OneLiveLoop == Spec => []LiveLoopIsRunning
  BY Inductive, PTL DEF IInv, LoopInv

\* Between applies the UI registry shows the running loops (_stop_one and
\* _start_one keep both in step), and beside them only loops that had died.
THEOREM RegistryFollows == Spec => []RegistryMatchesRunning
<1>1. IInv => RegistryMatchesRunning
  BY ConstantsAssumption
  DEF IInv, TypeOK, LockInv, AwaitInv, RegInv, RegistryMatchesRunning
<1>. QED
  BY Inductive, <1>1, PTL

\* Between applies the preprocessor knows the specs of _running, except where
\* the publish of the latest change failed or its apply was cut short.
THEOREM PublishedFollows == Spec => []PublishedTracksRunning
<1>1. IInv => PublishedTracksRunning
  BY ConstantsAssumption DEF IInv, PubInv, PublishedTracksRunning
<1>. QED
  BY Inductive, <1>1, PTL

\* A motion handler that starts a capture is the one in charge of its camera
\* at that moment, however old the handler list the consumer walks.
THEOREM CapturesAreCurrent == Spec => CaptureStartsOnlyWhileRunning
<1> DEFINE Current == capturing' # capturing /\ capturing' # NoLoop
                        => running[loops[capturing'].cam] = capturing'
<1>1. IInv /\ [Next]_vars => Current
  <2>. SUFFICES ASSUME IInv, [Next]_vars PROVE Current
    OBVIOUS
  <2>1. ASSUME NEW pending \in SUBSET LoopIds, NEW cs, Deliver(pending, cs)
        PROVE  Current
    BY <2>1 DEF Deliver, Fires, IInv, LoopInv, LiveLoopIsRunning
  <2>2. ASSUME NEW cs \in Sensors, MotionEvent(cs) PROVE Current
    BY <2>1, <2>2 DEF MotionEvent, IInv, TypeOK
  <2>3. CASE RecordAlert
    BY <2>1, <2>3 DEF RecordAlert, IInv, TypeOK
  <2>4. ASSUME UNCHANGED capturing PROVE Current
    BY <2>4
  <2>. QED
    BY <2>2, <2>3, <2>4
    DEF Next, Reconcile, PostOverride, Rediscover, DiscoverFails, ReadTargets,
        EnterApply, Acquire, StopRemoved, Unwound, LoopRaises, AllStopped, StartNew,
        RestartChanged, RestartUnwound, AllStarted, Publish, Release, LoopRuns,
        CooldownOver, StaleSnapshot, vars, dispVars
<1>. QED
  BY Inductive, <1>1, PTL DEF Spec, CaptureStartsOnlyWhileRunning

=============================================================================
