---------------------------- MODULE RtspCapture ----------------------------
(***************************************************************************)
(* The preprocessor's RTSP capture: RTSPCaptureSupervisor keeps one        *)
(* CameraCaptureTask per camera; the two NATS subscriptions (configured,   *)
(* removed), the env-var bootstrap and the shutdown call it concurrently on *)
(* one event loop.  A task owns encode workers and one decode job, all of  *)
(* them jobs of the loop's default thread pool, which has PoolSize threads *)
(* and a FIFO backlog.  What flows through the frame queue is in FrameQueue. *)
(*                                                                         *)
(* The supervisor's lock is never held across a suspension, so the code    *)
(* under it is part of the action that calls it.                           *)
(***************************************************************************)
EXTENDS Naturals, Sequences, FiniteSets, Functions

CONSTANTS
  Cameras,
  Tasks,      \* identities of CameraCaptureTask objects (reused once garbage)
  NoTask,
  Adders,     \* coroutines that call add: the "configured" callback, bootstrap
  Removers,   \* coroutines that call remove: the "removed" callback
  Closers,    \* coroutines that call stop: the shutdown of __main__
  Workers,    \* encode_workers: encode jobs per task
  PoolSize    \* threads of the default executor, min(32, cpus + 4)

Callers == Adders \cup Removers \cup Closers

ASSUME RtspAssumption ==
  /\ NoTask \notin Tasks
  /\ Workers \in Nat \ {0} /\ PoolSize \in Nat \ {0}
  /\ Adders \cap Removers = {} /\ (Adders \cup Removers) \cap Closers = {}

VARIABLES
  tasks,      \* RTSPCaptureSupervisor._tasks: camera -> task
  camera,     \* task -> its camera
  phase,      \* task -> how far start() and stop() have come
  capture,    \* task -> what its _run coroutine waits for
  backlog,    \* jobs no thread has taken yet, as <<kind, task>>; Void: cancelled
  encoding,   \* task -> number of encode workers that occupy a thread
  driving,    \* tasks whose _drive_stream occupies a thread
  waitsFor,   \* caller -> tasks whose stop() it awaits
  starts,     \* caller -> task it will start then, or NoTask
  overlapped  \* history: TRUE once two calls of the supervisor have overlapped

vars == <<tasks, camera, phase, capture, backlog, encoding, driving, waitsFor,
          starts, overlapped>>

Phases == {"made", "live", "cancelling", "joining", "stopped"}
Void   == <<"void", NoTask>>
Jobs   == ({"encode", "drive"} \X Tasks) \cup {Void}

TypeOK ==
  /\ tasks \in [Cameras -> Tasks \cup {NoTask}]
  /\ camera \in [Tasks -> Cameras]
  /\ phase \in [Tasks -> Phases]
  /\ capture \in [Tasks -> {"none", "ready", "stream", "backoff"}]
  /\ backlog \in Seq(Jobs)
  /\ encoding \in [Tasks -> 0..Workers]
  /\ driving \subseteq Tasks
  /\ waitsFor \in [Callers -> SUBSET Tasks]
  /\ starts \in [Callers -> Tasks \cup {NoTask}]
  /\ overlapped \in BOOLEAN

Init ==
  /\ tasks = [c \in Cameras |-> NoTask]
  /\ \E c \in Cameras : camera = [t \in Tasks |-> c]
  /\ phase = [t \in Tasks |-> "stopped"]
  /\ capture = [t \in Tasks |-> "none"]
  /\ backlog = <<>>
  /\ encoding = [t \in Tasks |-> 0]
  /\ driving = {}
  /\ waitsFor = [k \in Callers |-> {}]
  /\ starts = [k \in Callers |-> NoTask]
  /\ overlapped = FALSE

-----------------------------------------------------------------------------
(* CameraCaptureTask.                                                      *)

Idle(k) == waitsFor[k] = {} /\ starts[k] = NoTask

\* A caller whose earlier call has returned makes another one.
Calls(k) ==
  /\ Idle(k)
  /\ overlapped' = (overlapped \/ \E j \in Callers : ~ Idle(j))

\* The encode jobs start() submits before the loop runs anything else.
EncodeJobs(t) == [i \in 1..Workers |-> <<"encode", t>>]

Queued(job) == Cardinality({i \in DOMAIN backlog : backlog[i] = job})

\* start(): never suspends.
Start(t) ==
  /\ phase' = [phase EXCEPT ![t] = "live"]
  /\ capture' = [capture EXCEPT ![t] = "ready"]
  /\ backlog' = backlog \o EncodeJobs(t)

\* A cancelled job stays in the executor's queue; the thread that takes it drops
\* it.
DriveVoided(ts) ==
  [i \in DOMAIN backlog |->
     IF backlog[i] \in {"drive"} \X ts THEN Void ELSE backlog[i]]

\* stop() of the tasks ts up to the await of their cancelled _run: a decode
\* job that has no thread yet is cancelled with it, one that has goes on.
\* A task that was never started has nothing to stop.
BeginStop(ts) ==
  LET live == {t \in ts : phase[t] = "live"} IN
  /\ phase' = [t \in Tasks |-> IF t \in live THEN "cancelling" ELSE phase[t]]
  /\ capture' = [t \in Tasks |-> IF t \in live THEN "none" ELSE capture[t]]
  /\ backlog' = DriveVoided(live)

\* _run is gone: _task = None, the queue is closed, the workers are awaited.
Cancelled(t) ==
  /\ phase[t] = "cancelling"
  /\ phase' = [phase EXCEPT ![t] = "joining"]
  /\ UNCHANGED <<tasks, camera, capture, backlog, encoding, driving, waitsFor,
                 starts, overlapped>>

\* Mutant: the worker futures are not awaited.
NotJoined(t) ==
  /\ phase[t] = "joining"
  /\ phase' = [phase EXCEPT ![t] = "stopped"]
  /\ UNCHANGED <<tasks, camera, capture, backlog, encoding, driving, waitsFor,
                 starts, overlapped>>

\* The last worker future is done and stop() returns.
Joined(t) ==
  /\ phase[t] = "joining"
  /\ encoding[t] = 0 /\ Queued(<<"encode", t>>) = 0
  /\ phase' = [phase EXCEPT ![t] = "stopped"]
  /\ UNCHANGED <<tasks, camera, capture, backlog, encoding, driving, waitsFor,
                 starts, overlapped>>

\* _run enters _capture_loop and hands _drive_stream to the executor.
Connect(t) ==
  /\ capture[t] = "ready"
  /\ capture' = [capture EXCEPT ![t] = "stream"]
  /\ backlog' = Append(backlog, <<"drive", t>>)
  /\ UNCHANGED <<tasks, camera, phase, encoding, driving, waitsFor, starts,
                 overlapped>>

\* Mutant: a camera that could not be reached is given up.
GiveUp(t) ==
  /\ capture[t] = "backoff"
  /\ capture' = [capture EXCEPT ![t] = "none"]
  /\ UNCHANGED <<tasks, camera, phase, backlog, encoding, driving, waitsFor,
                 starts, overlapped>>

BackoffOver(t) ==
  /\ capture[t] = "backoff"
  /\ capture' = [capture EXCEPT ![t] = "ready"]
  /\ UNCHANGED <<tasks, camera, phase, backlog, encoding, driving, waitsFor,
                 starts, overlapped>>

-----------------------------------------------------------------------------
(* The threads of the default executor.                                    *)

Busy == FoldFunctionOnSet(+, 0, encoding, Tasks) + Cardinality(driving)

\* A free thread takes the oldest job.
RunJob ==
  /\ backlog # <<>> /\ Busy < PoolSize
  /\ LET kind == Head(backlog)[1]
         t    == Head(backlog)[2]
     IN  /\ encoding' = IF kind = "encode" THEN [encoding EXCEPT ![t] = @ + 1] ELSE encoding
         /\ driving' = IF kind = "drive" THEN driving \cup {t} ELSE driving
  /\ backlog' = Tail(backlog)
  /\ UNCHANGED <<tasks, camera, phase, capture, waitsFor, starts, overlapped>>

\* _encode_worker looks at _stopping at least every 0.5 s.
EncoderExits(t) ==
  /\ encoding[t] > 0
  /\ phase[t] \in {"cancelling", "joining"}
  /\ encoding' = [encoding EXCEPT ![t] = @ - 1]
  /\ UNCHANGED <<tasks, camera, phase, capture, backlog, driving, waitsFor, starts,
                 overlapped>>

\* The stream ends (reconnect at once) or fails (back off); _drive_stream does
\* not look at _stopping, and nobody waits for it after a cancel.
DriveEnds(t) ==
  /\ t \in driving
  /\ driving' = driving \ {t}
  /\ IF capture[t] = "stream"
     THEN \E next \in {"ready", "backoff"} : capture' = [capture EXCEPT ![t] = next]
     ELSE UNCHANGED capture
  /\ UNCHANGED <<tasks, camera, phase, backlog, encoding, waitsFor, starts,
                 overlapped>>

-----------------------------------------------------------------------------
(* RTSPCaptureSupervisor.                                                  *)

\* Nothing refers to the task object, or runs on its behalf, any more.
Garbage(t) ==
  /\ phase[t] = "stopped" /\ t \notin driving
  /\ \A k \in Callers : t \notin waitsFor[k] /\ starts[k] # t
  /\ \A c \in Cameras : tasks[c] # t

\* Mutant: the new task is started before the old one is stopped.
AddStartsFirst(k, c) ==
  /\ Calls(k)
  /\ \E t \in Tasks :
       /\ Garbage(t)
       /\ camera' = [camera EXCEPT ![t] = c]
       /\ tasks' = [tasks EXCEPT ![c] = t]
       /\ Start(t)
  /\ waitsFor' = [waitsFor EXCEPT ![k] = {tasks[c]} \ {NoTask}]
  /\ UNCHANGED <<encoding, driving, starts>>

\* add(): register the new task; start it at once unless an old one has to be
\* stopped first.
Add(k, c) ==
  LET old == tasks[c] IN
  /\ Calls(k)
  /\ \E t \in Tasks :
       /\ Garbage(t)
       /\ camera' = [camera EXCEPT ![t] = c]
       /\ tasks' = [tasks EXCEPT ![c] = t]
       /\ IF old # NoTask /\ phase[old] = "live"
          THEN /\ phase' = [phase EXCEPT ![t] = "made", ![old] = "cancelling"]
               /\ capture' = [capture EXCEPT ![old] = "none"]
               /\ backlog' = DriveVoided({old})
               /\ waitsFor' = [waitsFor EXCEPT ![k] = {old}]
               /\ starts' = [starts EXCEPT ![k] = t]
          ELSE /\ Start(t)
               /\ UNCHANGED <<waitsFor, starts>>
  /\ UNCHANGED <<encoding, driving>>

\* remove(): forget the task, then stop it.
RemoveCamera(k, c) ==
  /\ Calls(k)
  /\ tasks[c] # NoTask
  /\ tasks' = [tasks EXCEPT ![c] = NoTask]
  /\ BeginStop({tasks[c]})
  /\ waitsFor' = [waitsFor EXCEPT ![k] = {t \in {tasks[c]} : phase[t] = "live"}]
  /\ UNCHANGED <<camera, encoding, driving, starts>>

\* stop(): forget all tasks, then stop them side by side.
Close(k) ==
  LET registered == {tasks[c] : c \in Cameras} \ {NoTask} IN
  /\ Calls(k)
  /\ registered # {}
  /\ tasks' = [c \in Cameras |-> NoTask]
  /\ BeginStop(registered)
  /\ waitsFor' = [waitsFor EXCEPT ![k] = {t \in registered : phase[t] = "live"}]
  /\ UNCHANGED <<camera, encoding, driving, starts>>

\* The awaited stop() calls have returned; add() goes on to start its task.
Resume(k) ==
  /\ ~ Idle(k)
  /\ \A t \in waitsFor[k] : phase[t] = "stopped"
  /\ waitsFor' = [waitsFor EXCEPT ![k] = {}]
  /\ starts' = [starts EXCEPT ![k] = NoTask]
  /\ IF starts[k] = NoTask
     THEN UNCHANGED <<phase, capture, backlog>>
     ELSE Start(starts[k])
  /\ UNCHANGED <<tasks, camera, encoding, driving, overlapped>>

-----------------------------------------------------------------------------

Next ==
  \/ \E k \in Adders, c \in Cameras : Add(k, c)
  \/ \E k \in Removers, c \in Cameras : RemoveCamera(k, c)
  \/ \E k \in Closers : Close(k)
  \/ \E k \in Callers : Resume(k)
  \/ \E t \in Tasks : \/ Cancelled(t) \/ Joined(t) \/ Connect(t)
                      \/ BackoffOver(t) \/ EncoderExits(t) \/ DriveEnds(t)
  \/ RunJob

Spec == Init /\ [][Next]_vars

\* The event loop and the executor serve everything that is ready; a stream
\* may last for ever, and nobody has to add or remove a camera.
Fairness ==
  /\ WF_vars(RunJob)
  /\ \A k \in Callers : WF_vars(Resume(k))
  /\ \A t \in Tasks : /\ WF_vars(Cancelled(t)) /\ WF_vars(Joined(t))
                      /\ WF_vars(Connect(t)) /\ WF_vars(BackoffOver(t))
                      /\ WF_vars(EncoderExits(t))

FairSpec == Spec /\ Fairness

-----------------------------------------------------------------------------
(* Properties.                                                             *)

\* When no add, remove or stop is under way, every task the supervisor knows
\* (and /status shows) is really running.
RegisteredIsLive ==
  (\A k \in Callers : Idle(k)) =>
    \A c \in Cameras : tasks[c] # NoTask => phase[tasks[c]] = "live"

\* stop() joins the worker pool: a task has all its encode workers from start()
\* until it is told to stop, and none, running or queued, once stop() is over.
WorkersAreAccountedFor ==
  \A t \in Tasks :
    LET n == encoding[t] + Queued(<<"encode", t>>) IN
    /\ phase[t] = "live" => n = Workers
    /\ phase[t] \in {"made", "stopped"} => n = 0

\* As long as the calls did not overlap, a camera that is restarted, removed and
\* added again never has two tasks that capture for it.
OneLiveTaskPerCamera ==
  \A t, u \in Tasks :
    /\ ~ overlapped
    /\ phase[t] = "live" /\ phase[u] \in {"live", "cancelling", "joining"}
    /\ camera[t] = camera[u]
    => t = u

\* With a thread for every job, a live camera gets to decode (again and again
\* if its stream breaks), and a stop() that was begun returns.
EveryTaskGetsThere ==
  \A t \in Tasks :
    /\ (phase[t] = "live") ~> (t \in driving \/ phase[t] # "live")
    /\ (phase[t] = "cancelling") ~> (phase[t] = "stopped")

-----------------------------------------------------------------------------
(* Claims of the code's documentation that the model refutes.              *)

\* The RTSPCaptureSupervisor docstring calls concurrent add and remove "safe":
\* with no call under way, a task that captures is one the supervisor knows.
LiveIsRegistered ==
  (\A k \in Callers : Idle(k)) =>
    \A t \in Tasks : phase[t] = "live" => tasks[camera[t]] = t

\* The CameraCaptureTask docstring, "runs forever until cancelled": nothing
\* decodes the stream for a task whose stop() has returned.
NoDecodeAfterStop == \A t \in driving : phase[t] # "stopped"

\* "ingestion is never throttled by downstream processing": encode workers,
\* busy or idle, do not keep a live camera from decoding.
LiveTaskDecodes ==
  \A t \in Tasks : (phase[t] = "live") ~> (t \in driving \/ phase[t] # "live")

=============================================================================
