---------------------------- MODULE CameraLoops ----------------------------
(***************************************************************************)
(* The ha-agent's camera life cycle: POST /discovery/* handlers and the    *)
(* periodic task rewrite and read the camera overrides, the Reconciler     *)
(* diffs them against the running HACameraLoops under a lock, and the one  *)
(* WebSocket consumer of HAClient awaits the loops' motion handlers one    *)
(* after the other.  Everything runs on one asyncio event loop, so a step  *)
(* of this specification is a stretch of code between two suspensions.     *)
(*                                                                         *)
(* The order in which dict entries and handler lists are walked is left    *)
(* open (sets), monotonic-clock differences become the set `cooling` of    *)
(* loops inside their cooldown, and a DiscoverySpec is an opaque value:    *)
(* two specs are equal iff _specs_differ says they do not differ.          *)
(***************************************************************************)
EXTENDS Naturals, FiniteSets

CONSTANTS
  Cameras,      \* device ids
  Sensors,      \* motion sensors, each the set of cameras that listen to it
  Specs,        \* DiscoverySpecs a camera can be enabled with
  NoSpec,       \* "disabled": the device is not in the target list
  LoopIds,      \* identities of HACameraLoop objects (reused once garbage)
  NoLoop,
  Saved,        \* the overrides an earlier process may have left on disk
  Reconciles,   \* concurrent _reconcile_discovery coroutines
  NoOne,        \* nobody holds the apply lock
  CanFail,      \* TRUE iff discovery, publishing and loop tasks may fail
  MaxEdits,     \* bound on override edits by the user
  MaxAlerts,    \* bound on alerts recorded per camera
  MaxTries      \* snapshot attempts: _stale_snapshot_max_retries + 1

ASSUME ConstantsAssumption ==
  /\ Sensors \subseteq SUBSET Cameras
  /\ NoSpec \notin Specs
  /\ Saved \subseteq [Cameras -> Specs \cup {NoSpec}]
  /\ NoLoop \notin LoopIds
  /\ NoOne \notin Reconciles
  /\ CanFail \in BOOLEAN
  /\ MaxEdits \in Nat /\ MaxAlerts \in Nat /\ MaxTries \in Nat \ {0}

VARIABLES
  overrides,    \* camera -> spec it is enabled with, or NoSpec (the JSON file)
  edits,        \* how many override edits have happened
  pc,           \* reconcile -> where _reconcile_discovery is suspended
  target,       \* reconcile -> its target_specs, read from overrides; local to it
  awaiting,     \* reconcile -> loop whose task _stop_one awaits, or NoLoop
  changed,      \* reconcile -> cameras of diff.started + restarted + stopped
  holder,       \* who holds Reconciler._apply_lock
  running,      \* Reconciler._running: camera -> loop
  registry,     \* CameraLoopRegistry.by_camera_id: camera -> loop
  loops,        \* loop -> its record
  handlers,     \* HAClient._handlers
  cooling,      \* live loops whose last snapshot is younger than the cooldown
  event,        \* cameras whose motion sensor the current event is about
  todo,         \* handlers the current event has still to be given to
  capturing,    \* loop whose handler the consumer is awaiting, or NoLoop
  tries,        \* snapshot attempts made by that handler
  alerts,       \* camera -> number of alerts recorded
  published,    \* camera -> last config the preprocessor was sent, or NoSpec
  unsent        \* cameras whose latest change the preprocessor was not sent

recVars  == <<pc, target, awaiting, changed, holder>>
dispVars == <<event, todo, capturing, tries>>
pubVars  == <<published, unsent>>
vars == <<overrides, edits, recVars, running, registry, loops, handlers,
          cooling, dispVars, alerts, pubVars>>

\* _stop_event set is `stop`; `ran` is TRUE once run() has taken its first
\* step, `failed` once that step raised and ended the task.
LoopRecord == [cam : Cameras, spec : Specs, ran : BOOLEAN, failed : BOOLEAN,
               stop : BOOLEAN]

\* A loop as _start_one makes it.
FreshLoop(c, s) ==
  [cam |-> c, spec |-> s, ran |-> FALSE, failed |-> FALSE, stop |-> FALSE]

Targets == [Cameras -> Specs \cup {NoSpec}]

\* What a reconcile that holds no target list wants: nothing.
NoTarget == [c \in Cameras |-> NoSpec]

\* The awaits a reconcile can be suspended at.
Phases ==
  {"idle", "discover", "annotate", "lock", "stop", "start", "publish"}

TypeOK ==
  /\ overrides \in Targets
  /\ edits \in 0..MaxEdits
  /\ pc \in [Reconciles -> Phases]
  /\ target \in [Reconciles -> Targets]
  /\ awaiting \in [Reconciles -> LoopIds \cup {NoLoop}]
  /\ changed \in [Reconciles -> SUBSET Cameras]
  /\ holder \in Reconciles \cup {NoOne}
  /\ running \in [Cameras -> LoopIds \cup {NoLoop}]
  /\ registry \in [Cameras -> LoopIds \cup {NoLoop}]
  /\ loops \in [LoopIds -> LoopRecord]
  /\ handlers \subseteq LoopIds
  /\ cooling \subseteq LoopIds
  /\ event \in {{}} \cup Sensors
  /\ todo \subseteq LoopIds
  /\ capturing \in LoopIds \cup {NoLoop}
  /\ tries \in 0..MaxTries
  /\ alerts \in [Cameras -> Nat]
  /\ published \in Targets
  /\ unsent \subseteq Cameras

-----------------------------------------------------------------------------
(* Helpers.                                                                *)

\* A loop object that nothing refers to any more: its identity can be reused.
Garbage(l) ==
  /\ \A c \in Cameras : running[c] # l /\ registry[c] # l
  /\ \A r \in Reconciles : awaiting[r] # l
  /\ l \notin handlers \cup todo /\ capturing # l
  /\ loops[l].ran /\ loops[l].stop

SpecOf(c) == IF running[c] = NoLoop THEN NoSpec ELSE loops[running[c]].spec

\* The cameras _apply_locked still has to stop, and to start or restart.
ToStop(r)  == {c \in Cameras : running[c] # NoLoop /\ target[r][c] = NoSpec}

\* Mutant: a camera that runs already is not compared with its target.
ToStartNew(r) == {c \in Cameras : target[r][c] # NoSpec /\ running[c] = NoLoop}

ToStart(r) == {c \in Cameras : target[r][c] # NoSpec /\ SpecOf(c) # target[r][c]}

\* The process starts with nothing running.
Init ==
  /\ overrides \in Saved
  /\ edits = 0
  /\ pc = [r \in Reconciles |-> "idle"]
  /\ target = [r \in Reconciles |-> NoTarget]
  /\ awaiting = [r \in Reconciles |-> NoLoop]
  /\ changed = [r \in Reconciles |-> {}]
  /\ holder = NoOne
  /\ running = [c \in Cameras |-> NoLoop]
  /\ registry = [c \in Cameras |-> NoLoop]
  /\ \E c \in Cameras, s \in Specs :
       loops = [l \in LoopIds |->
                  [cam |-> c, spec |-> s, ran |-> TRUE, failed |-> FALSE,
                   stop |-> TRUE]]
  /\ handlers = {}
  /\ cooling = {}
  /\ event = {}
  /\ todo = {}
  /\ capturing = NoLoop
  /\ tries = 0
  /\ alerts = [c \in Cameras |-> 0]
  /\ published = [c \in Cameras |-> NoSpec]
  /\ unsent = {}

-----------------------------------------------------------------------------
(* _reconcile_discovery: read the target, then apply it under the lock.    *)

\* Every task that was created has taken its first step.  asyncio runs it
\* before it turns to new I/O or to a coroutine woken later; only a coroutine
\* that was ready already can come first.
Settled == \A l \in LoopIds : loops[l].ran

\* A POST /discovery/* handler rewrites the overrides file and reconciles.
PostOverride(r, c, s) ==
  /\ pc[r] = "idle" /\ Settled
  /\ edits < MaxEdits
  /\ overrides' = [overrides EXCEPT ![c] = s]
  /\ edits' = edits + 1
  /\ pc' = [pc EXCEPT ![r] = "discover"]
  /\ UNCHANGED <<target, awaiting, changed, holder, running, registry, loops,
                 handlers, cooling, dispVars, alerts, pubVars>>

\* The periodic task, or POST /discovery/refresh.
Rediscover(r) ==
  /\ pc[r] = "idle" /\ Settled
  /\ pc' = [pc EXCEPT ![r] = "discover"]
  /\ UNCHANGED <<overrides, edits, target, awaiting, changed, holder, running,
                 registry, loops, handlers, cooling, dispVars, alerts, pubVars>>

\* discover_ha_cameras raised: recorded in boot.discovery_error, no apply.
DiscoverFails(r) ==
  /\ CanFail
  /\ pc[r] = "discover"
  /\ pc' = [pc EXCEPT ![r] = "idle"]
  /\ UNCHANGED <<overrides, edits, target, awaiting, changed, holder, running,
                 registry, loops, handlers, cooling, dispVars, alerts, pubVars>>

\* Mutant: the lock is taken whether or not it is free.
TakeLockAlways(r) ==
  /\ holder' = r
  /\ pc' = [pc EXCEPT ![r] = "stop"]

\* `async with self._apply_lock`: taken at once when free, else wait.
TakeLock(r) ==
  IF holder = NoOne
  THEN /\ holder' = r
       /\ pc' = [pc EXCEPT ![r] = "stop"]
  ELSE /\ pc' = [pc EXCEPT ![r] = "lock"]
       /\ UNCHANGED holder

\* discover_ha_cameras answered: load_overrides and build_decisions.  Only an
\* enabled camera makes the code wait again (find_motion_switches).
ReadTargets(r) ==
  /\ pc[r] = "discover"
  /\ target' = [target EXCEPT ![r] = overrides]
  /\ IF \E c \in Cameras : overrides[c] # NoSpec
     THEN /\ pc' = [pc EXCEPT ![r] = "annotate"]
          /\ UNCHANGED holder
     ELSE TakeLock(r)
  /\ UNCHANGED <<overrides, edits, awaiting, changed, running, registry, loops,
                 handlers, cooling, dispVars, alerts, pubVars>>

\* The motion switches of every enabled camera have been looked up.
EnterApply(r) ==
  /\ pc[r] = "annotate"
  /\ TakeLock(r)
  /\ UNCHANGED <<overrides, edits, target, awaiting, changed, running, registry,
                 loops, handlers, cooling, dispVars, alerts, pubVars>>

\* A waiter of the lock is woken.
Acquire(r) ==
  /\ pc[r] = "lock" /\ Settled
  /\ holder = NoOne
  /\ TakeLock(r)
  /\ UNCHANGED <<overrides, edits, target, awaiting, changed, running, registry,
                 loops, handlers, cooling, dispVars, alerts, pubVars>>

-----------------------------------------------------------------------------
(* Reconciler._apply_locked.                                               *)

\* Mutant: a restarted camera is not part of the published diff.
BeginStopUnpublished(r, c) ==
  LET l == running[c] IN
  /\ running' = [running EXCEPT ![c] = NoLoop]
  /\ loops' = [loops EXCEPT ![l].stop = TRUE]
  /\ handlers' = handlers \ {l}
  /\ cooling' = cooling \ {l}
  /\ awaiting' = [awaiting EXCEPT ![r] = l]
  /\ UNCHANGED changed

\* _stop_one up to its await of the loop's task: the entry leaves _running,
\* HACameraLoop.stop unregisters the handler and sets the stop event.
BeginStop(r, c) ==
  LET l == running[c] IN
  /\ running' = [running EXCEPT ![c] = NoLoop]
  /\ loops' = [loops EXCEPT ![l].stop = TRUE]
  /\ handlers' = handlers \ {l}
  /\ cooling' = cooling \ {l}
  /\ awaiting' = [awaiting EXCEPT ![r] = l]
  /\ changed' = [changed EXCEPT ![r] = @ \cup {c}]

StopRemoved(r) ==
  /\ pc[r] = "stop" /\ awaiting[r] = NoLoop
  /\ \E c \in ToStop(r) : BeginStop(r, c)
  /\ UNCHANGED <<overrides, edits, pc, target, holder, registry, dispVars, alerts,
                 pubVars>>

\* The awaited task of a removed camera has ended well (or was cancelled
\* after 2 s): _stop_one drops the camera's registry entry.
Unwound(r) ==
  /\ pc[r] = "stop" /\ awaiting[r] # NoLoop
  /\ loops[awaiting[r]].ran /\ ~ loops[awaiting[r]].failed
  /\ registry' = [registry EXCEPT ![loops[awaiting[r]].cam] = NoLoop]
  /\ awaiting' = [awaiting EXCEPT ![r] = NoLoop]
  /\ UNCHANGED <<overrides, edits, pc, target, changed, holder, running, loops,
                 handlers, cooling, dispVars, alerts, pubVars>>

\* The awaited task has ended with an exception, which wait_for raises again
\* and _stop_one lets through (it catches TimeoutError only): apply ends here,
\* the registry entry stays, what is left of the diff is neither applied nor
\* published, and _reconcile_discovery notes the error.
LoopRaises(r) ==
  /\ pc[r] \in {"stop", "start"} /\ awaiting[r] # NoLoop
  /\ loops[awaiting[r]].failed
  /\ holder' = NoOne
  /\ pc' = [pc EXCEPT ![r] = "idle"]
  /\ target' = [target EXCEPT ![r] = NoTarget]
  /\ awaiting' = [awaiting EXCEPT ![r] = NoLoop]
  /\ unsent' = unsent \cup changed[r]
  /\ changed' = [changed EXCEPT ![r] = {}]
  /\ UNCHANGED <<overrides, edits, running, registry, loops, handlers, cooling,
                 dispVars, alerts, published>>

AllStopped(r) ==
  /\ pc[r] = "stop" /\ awaiting[r] = NoLoop
  /\ ToStop(r) = {}
  /\ pc' = [pc EXCEPT ![r] = "start"]
  /\ UNCHANGED <<overrides, edits, target, awaiting, changed, holder, running,
                 registry, loops, handlers, cooling, dispVars, alerts, pubVars>>

\* Mutant: the new loop registers before _stop_one drops the old entry.
BeginStartThenDrop(r, c) ==
  \E l \in LoopIds :
    /\ Garbage(l)
    /\ running' = [running EXCEPT ![c] = l]
    /\ registry' = [registry EXCEPT ![c] = NoLoop]
    /\ loops' = [loops EXCEPT ![l] = FreshLoop(c, target[r][c])]
    /\ UNCHANGED cooling

\* _start_one: a new loop object, entered in the UI registry; its task is
\* only scheduled, run() has not subscribed yet.
BeginStart(r, c) ==
  \E l \in LoopIds :
    /\ Garbage(l)
    /\ running' = [running EXCEPT ![c] = l]
    /\ registry' = [registry EXCEPT ![c] = l]
    /\ loops' = [loops EXCEPT ![l] = FreshLoop(c, target[r][c])]
    /\ UNCHANGED cooling

StartNew(r) ==
  /\ pc[r] = "start" /\ awaiting[r] = NoLoop
  /\ \E c \in ToStart(r) :
       /\ running[c] = NoLoop
       /\ BeginStart(r, c)
       /\ changed' = [changed EXCEPT ![r] = @ \cup {c}]
  /\ UNCHANGED <<overrides, edits, pc, target, awaiting, holder, handlers,
                 dispVars, alerts, pubVars>>

\* A camera whose spec changed is stopped first ...
RestartChanged(r) ==
  /\ pc[r] = "start" /\ awaiting[r] = NoLoop
  /\ \E c \in ToStart(r) : running[c] # NoLoop /\ BeginStop(r, c)
  /\ UNCHANGED <<overrides, edits, pc, target, holder, registry, dispVars, alerts,
                 pubVars>>

\* ... and started again, unconditionally, when its old task has ended.
RestartUnwound(r) ==
  /\ pc[r] = "start" /\ awaiting[r] # NoLoop
  /\ loops[awaiting[r]].ran /\ ~ loops[awaiting[r]].failed
  /\ awaiting' = [awaiting EXCEPT ![r] = NoLoop]
  /\ BeginStart(r, loops[awaiting[r]].cam)
  /\ UNCHANGED <<overrides, edits, pc, target, changed, holder, handlers,
                 dispVars, alerts, pubVars>>

AllStarted(r) ==
  /\ pc[r] = "start" /\ awaiting[r] = NoLoop
  /\ ToStart(r) = {}
  /\ pc' = [pc EXCEPT ![r] = "publish"]
  /\ UNCHANGED <<overrides, edits, target, awaiting, changed, holder, running,
                 registry, loops, handlers, cooling, dispVars, alerts, pubVars>>

\* Fan the diff out to the preprocessor; a publish that raises (or finds no
\* credentials) is logged and forgotten.
Publish(r) ==
  /\ pc[r] = "publish"
  /\ \E c \in changed[r] :
       /\ changed' = [changed EXCEPT ![r] = @ \ {c}]
       /\ \/ /\ published' = [published EXCEPT ![c] = target[r][c]]
             /\ unsent' = unsent \ {c}
          \/ /\ CanFail
             /\ unsent' = unsent \cup {c}
             /\ UNCHANGED published
  /\ UNCHANGED <<overrides, edits, pc, target, awaiting, holder, running,
                 registry, loops, handlers, cooling, dispVars, alerts>>

Release(r) ==
  /\ pc[r] = "publish"
  /\ changed[r] = {}
  /\ holder' = NoOne
  /\ pc' = [pc EXCEPT ![r] = "idle"]
  /\ target' = [target EXCEPT ![r] = NoTarget]
  /\ UNCHANGED <<overrides, edits, awaiting, changed, running, registry, loops,
                 handlers, cooling, dispVars, alerts, pubVars>>

-----------------------------------------------------------------------------
(* HACameraLoop and the WebSocket consumer of HAClient.                    *)

\* The first step of run(): make the snapshot directory and subscribe, or end
\* with the exception mkdir raised, which only the log hears of: the loop stays
\* in _running.  A stop that came earlier only makes the wait that follows
\* return at once.
LoopRuns(l) ==
  /\ ~ loops[l].ran
  /\ \/ /\ loops' = [loops EXCEPT ![l].ran = TRUE]
        /\ handlers' = handlers \cup {l}
     \/ /\ CanFail
        /\ loops' = [loops EXCEPT ![l].ran = TRUE, ![l].failed = TRUE]
        /\ UNCHANGED handlers
  /\ UNCHANGED <<overrides, edits, recVars, running, registry, cooling, dispVars,
                 alerts, pubVars>>

\* Mutant: the handler does not check the stop event.
FiresUnguarded(l, cs) == loops[l].cam \in cs /\ l \notin cooling

\* _on_state_change of loop l gets past its guards for an event of cameras cs.
Fires(l, cs) == ~ loops[l].stop /\ loops[l].cam \in cs /\ l \notin cooling

\* Give the event to the handlers in `pending`: those that return at once do
\* so, the first that fires suspends the consumer.
Deliver(pending, cs) ==
  \/ \E l \in pending :
       /\ Fires(l, cs)
       /\ capturing' = l
       /\ todo' = pending \ {l}
       /\ event' = cs
       /\ tries' = 1
       /\ cooling' = cooling \cup {l}
  \/ /\ ~ \E l \in pending : Fires(l, cs)
     /\ capturing' = NoLoop
     /\ todo' = {}
     /\ event' = {}
     /\ tries' = 0
     /\ UNCHANGED cooling

\* A motion sensor turns on and the consumer is free to read the event; the
\* handler list is copied before the first handler is awaited.
MotionEvent(cs) ==
  /\ capturing = NoLoop /\ Settled
  /\ \A c \in cs : alerts[c] < MaxAlerts
  /\ Deliver(handlers, cs)
  /\ UNCHANGED <<overrides, edits, recVars, running, registry, loops, handlers,
                 alerts, pubVars>>

\* The snapshot is byte-identical to the last one: sleep and fetch again.
StaleSnapshot ==
  /\ capturing # NoLoop
  /\ tries < MaxTries
  /\ tries' = tries + 1
  /\ UNCHANGED <<overrides, edits, recVars, running, registry, loops, handlers,
                 cooling, event, todo, capturing, alerts, pubVars>>

\* The fetch ended (with a picture or an error): the alert is recorded either
\* way, and the consumer goes on with the remaining handlers of the event.
RecordAlert ==
  /\ capturing # NoLoop
  /\ alerts' = [alerts EXCEPT ![loops[capturing].cam] = @ + 1]
  /\ Deliver(todo, event)
  /\ UNCHANGED <<overrides, edits, recVars, running, registry, loops, handlers,
                 pubVars>>

CooldownOver(l) ==
  /\ l \in cooling
  /\ cooling' = cooling \ {l}
  /\ UNCHANGED <<overrides, edits, recVars, running, registry, loops, handlers,
                 dispVars, alerts, pubVars>>

-----------------------------------------------------------------------------

Reconcile(r) ==
  \/ ReadTargets(r) \/ EnterApply(r) \/ Acquire(r) \/ StopRemoved(r)
  \/ Unwound(r) \/ LoopRaises(r) \/ AllStopped(r) \/ StartNew(r)
  \/ RestartChanged(r) \/ RestartUnwound(r) \/ AllStarted(r) \/ Publish(r)
  \/ Release(r)

Next ==
  \/ \E r \in Reconciles :
       \/ \E c \in Cameras, s \in Specs \cup {NoSpec} : PostOverride(r, c, s)
       \/ Rediscover(r)
       \/ DiscoverFails(r)
       \/ Reconcile(r)
  \/ \E l \in LoopIds : LoopRuns(l) \/ CooldownOver(l)
  \/ \E cs \in Sensors : MotionEvent(cs)
  \/ StaleSnapshot
  \/ RecordAlert

Spec == Init /\ [][Next]_vars

\* The event loop runs every ready coroutine, the apply lock is FIFO and the
\* periodic task comes round for ever; the user and HA owe nothing.
Fairness ==
  /\ \A r \in Reconciles : /\ WF_vars(Rediscover(r))
                           /\ SF_vars(ReadTargets(r))
                           /\ SF_vars(Acquire(r))
                           /\ WF_vars(Reconcile(r))
  /\ \A l \in LoopIds : WF_vars(LoopRuns(l))
  /\ WF_vars(RecordAlert)

FairSpec == Spec /\ Fairness

-----------------------------------------------------------------------------
(* Properties.                                                             *)

\* The apply lock does its work: a loop that has not been stopped is the one
\* _running holds for its camera, so overlapping reconciles never leave two
\* live loops, or a live loop nobody can stop (Reconciler.apply).
LiveLoopIsRunning ==
  \A l \in LoopIds : ~ loops[l].stop => running[loops[l].cam] = l

\* Between reconciles the UI registry shows the running loops: no running
\* camera without its status entry, and no ghost of a stopped camera but the one
\* whose task had died, which _stop_one stops without reaching the registry.
RegistryMatchesRunning ==
  holder = NoOne =>
    \A c \in Cameras :
      \/ registry[c] = running[c]
      \/ /\ running[c] = NoLoop /\ registry[c] # NoLoop
         /\ loops[registry[c]].failed

\* A capture only ever starts for the loop _running holds at that moment, even
\* when the handler list was copied before the camera was disabled, or the
\* handler was registered by a run() that started after its stop().
CaptureStartsOnlyWhileRunning ==
  [][capturing' # capturing /\ capturing' # NoLoop
       => running[loops[capturing'].cam] = capturing']_vars

\* Between reconciles the preprocessor has been sent the spec _running holds of
\* every camera, except where the publish of its latest change failed (best
\* effort, no retry) or the apply that made it was ended by a dead loop's
\* exception.
PublishedTracksRunning ==
  holder = NoOne => \A c \in Cameras \ unsent : published[c] = SpecOf(c)

\* Once the user stops editing and discovery works, the cameras of _running
\* become and stay those the overrides ask for, as long as Home Assistant lists
\* them: the periodic pass repairs any stale target applied by a reconcile that
\* lost the race for the lock, and any apply that ended half-way.
EventuallyMatchesOverrides ==
  <>[](\A c \in Cameras : SpecOf(c) = overrides[c])

-----------------------------------------------------------------------------
(* Claims of the code's documentation that the model refutes.              *)

\* What the docstring of _reconcile_discovery says of concurrent calls ("Safe
\* to call concurrently"): when no reconcile is under way the running cameras
\* are the ones the overrides ask for.
QuiescentMatchesOverrides ==
  (edits > 0 /\ \A r \in Reconciles : pc[r] = "idle")
    => \A c \in Cameras : SpecOf(c) = overrides[c]

\* What the docstring of Reconciler.camera_publisher says: every reconcile diff
\* fans out to the preprocessor; no apply ends with a part of it unsent.
EveryDiffIsFannedOut ==
  [][\A r \in Reconciles : holder = r /\ holder' # r => changed[r] = {}]_vars

\* The same docstring: the preprocessor's camera set tracks the toggle, so it
\* comes to have the spec of every running camera.
PreprocessorFollows == <>[](\A c \in Cameras : published[c] = SpecOf(c))

\* The life cycle in the reconciler's docstring and HACameraLoop.run's: a camera
\* that is enabled comes to have a subscribed loop.
EnabledCameraIsWatched ==
  <>[](\A c \in Cameras : overrides[c] # NoSpec => running[c] \in handlers)

\* The comment in HACameraLoop._on_state_change: a stopped loop records no
\* alert, "even if a stale registration or an in-flight dispatch slips through".
NoAlertFromStoppedLoop ==
  [][alerts' # alerts => ~ loops[capturing].stop]_vars

\* The comment in HACameraLoop.stop: a stopped loop's handler is unregistered
\* (otherwise it leaks on the shared HAClient).
StoppedLoopIsUnregistered ==
  \A l \in handlers : ~ loops[l].stop

=============================================================================
