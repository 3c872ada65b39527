# TLA+ models of Kukii-Home

Kukii-Home watches the cameras of a household through Home Assistant (HA).  It is a set of
Python services; each is one process with one asyncio event loop, some of them with threads.
This directory holds TLA+ specifications of the parts in which order, concurrency and failure
matter, the instances TLC checks, and theorems whose proofs TLAPS checks.

Everything here is translated from the code; where a comment, a docstring or a document says
something else, that is written down under *Claims the models refute*.

How to run, in this directory: `tlc -config CameraLoops.cfg MCCameraLoops` checks one
instance, `tlapm CameraLoopsProofs.tla` one file of proofs.  `PROJECT.json` says which lines
of the code each definition stands for, which hazard each property is aimed at, and, for each
property, a plausible bug (an operator marked "Mutant") that makes it fail.

## 1. The system

A camera's motion sensor fires in HA; the **ha-agent** fetches a snapshot through HA and
records an alert.  It tells the **preprocessor**, over NATS, which cameras have an RTSP
stream; the preprocessor decodes those streams into a rolling buffer and keeps the footage
of motion on disk, where identity pipelines enrich it.  NVR **adapters** put trigger events
on the **bus** (NATS JetStream); **triage** (core) drops repeats and forwards the rest by
urgency; the **VLM router** asks a vision model about them, under privacy rules and circuit
breakers; **rules** and the **dispatcher** turn the answer into notifications, questions and
device actions, which the **notify** service and the ha-agent carry out.  A **watchdog**
keeps the set of active failure modes, which restricts what may be done automatically.

The processes of `services/core`, `services/notify`, `services/vlm-router` and
`services/memory` only load their configuration and idle at this commit: what they offer is
a library, exercised by its tests and wired by whoever runs it.  The models of triage and of
the VLM router therefore take the callers the interfaces allow, and no stronger assumption.

### Inventory

For each part: its state; its operations; with whom it interacts; what is hard; what makes
it correct.

| Part | State | Operations | Interacts with | Hard | Correct when |
|---|---|---|---|---|---|
| Camera life cycle: `reconciler.py`, `camera_loop.py`, handlers of `__main__.py` (ha-agent) | overrides file, running loops, UI registry, apply lock, handler list of the HA client, published configs | discovery edits, periodic reconcile, apply (diff, stop, start, restart), motion handler, snapshot retries | HA events one by one, NATS publisher | overlapping reconciles with stale targets, a stop that awaits in the middle of a diff, a handler list copied before a stop | one live loop per camera, registry and preprocessor follow, nothing captures for a loop that is not in charge, overrides win in the end |
| RTSP capture: `rtsp_capture.py`, `camera_config_subscriber.py` (preprocessor) | task per camera, encode workers and decode jobs on the shared executor | add, remove, stop, reconnect with backoff | NATS callbacks, bootstrap, shutdown; threads | calls overlap while an old task is being stopped; cancelling an await does not stop a thread; one pool for waiters and those they wait for | what is registered runs, what runs is registered, workers are joined, every camera decodes |
| Frame queue: `frame_queue.py` | deque, closed flag, metrics, condition variable | put with shedding, get with timeout, close | decode thread, encode threads | eviction from the middle, wakeups that race with timeouts | bounded, accounted for, FIFO, motion shed last, nobody sleeps beside a frame |
| Rolling buffer and event recorder: `rolling_buffer.py`, `event_recorder.py` | frames with decode times, per-camera recording state, close tasks, event directories | append and evict, window query, poll, open, extend, cap, close, enrich, drain | encode threads, poll loop, disk | frames arrive late and out of order, the buffer evicts while an event is open, shutdown or crash while closing | every frame of motion ends in a durable event, a manifest lists what is there |
| Triage and bus: `core/triage.py`, `shared/bus.py`, `streams.yaml` | dedup cache (deque and dict), the consumer's deliveries | handle, publish, ack, nak, term, subscribe | JetStream (at least once), adapters, its own output | redelivery meets a memory of what was seen; every await of the error path can fail | one event is forwarded once per window, nothing acknowledged is lost, everything is settled |
| VLM router: `router.py`, `breaker.py`, `policy.py` | breakers (state, failures, opened at) | decide, invoke with fallbacks, reset | backends over HTTP, concurrent callers | results arrive after the breaker has changed; chains outlive the states they were computed from | private data stays local, breakers are consistent, backends recover, calls end |
| Health: `shared/health/*`, `health_app.py` | registry, last status, offline counts, active failure modes, diagnostic ring | poll, report, transition callback | every component's probe; the policy gate reads the modes | the callback raises in the middle of a round; components change meanwhile | the gate sees outages and recoveries |
| Dispatcher: `core/dispatch.py`; safe defaults: `failure_modes.py` | escalation timers, acknowledgements, pre-approvals | tier and occupancy routing, policy gate, plan, dispatch, tick | rules, degraded state, bus, notify | composition: what the plan decides must survive to the notifier | degraded systems only tighten; blocked stays blocked; alerts escalate until answered |
| Rules: `core/rules.py` | compiled rules | match, resolve conflicts | VLM answers, dispatcher | priorities and exceptions | the resolution does not depend on the order of rules |
| Asks and notify: `notify/dispatcher.py` | pending asks, futures, timers | ask, respond, expire, wait | residents, HA, the bus (redelivery) | answer against timeout; the same ask delivered twice | one outcome per ask, every waiter resumes |
| Action runtime: `action_runtime.py`, `action_store.py` | pending reverts, redundancy sets, whitelists, audit log | perception with timed revert, protective action behind a gate | HA service calls | a revert that fires while a newer request is under way; a call that fails after it took effect | what is switched is switched back, a persistent action needs its incidents |
| ha-agent dispatcher, guidance, stores: `dispatcher.py`, `commit_guidance.py`, handlers of `__main__.py`, `*_store.py` | transcript, rules, policies, preferences, areas, provenance, graph mirror, rule cache | utter, tool loop, propose, confirm, refine, edit on the pages, restart | LLM, web UI, triage | one confirmation touches several stores; two turns are suspended at once; what the model refines is its choice | the audit tells what happened, histories grow, what was withdrawn stays withdrawn |
| Alerts: `event_store.py`, `triage.py`, `enricher.py`, `notifier.py`, `rules_runtime.py` (ha-agent) | ring of recent alerts, event directories, selection of services, rule matches | record, judge, enrich, fan out, dismiss, report, restart | preprocessor, HA, web UI | three writers of one `meta.json`, each behind awaits of its own; writes that fail | the stores agree, nobody undoes another's write, a failure notifies rather than not |
| Identity: `identity_store.py`, `identity_api.py`, `resolve.py`, `preprocessor_client.py` | tracks, embeddings, subjects, templates, provenance, resolutions, live cache | label, resolve, reject, merge, enrich, sweep | web UI with retries, enrichment worker, memory service | a lost answer is repeated; sweeps rewrite all rows; two writers of the cache | a name has evidence, a repetition changes nothing, the operator's verdicts stay |
| HA client: `client.py` | connection, backoff, handlers, state cache | connect, authenticate, subscribe, consume, reconnect, read states over REST | HA WebSocket and REST, every handler of the ha-agent | handlers come and go while an event is dispatched; a REST answer meets newer events; HA restarts, refuses logins, sockets break | a handler hears changes in order and once, the client always connects again, a loss shows |
| Camera feeds: `discovery.py`, `discovery_publish.py`, `camera_config_publisher.py`, `reconciler.py`, handlers of `__main__.py`; `camera_config_subscriber.py`, `__main__.py` (preprocessor) | entities, overrides, running loops, resolved URLs; captures | discover, reconcile, resolve credentials, publish over two NATS subjects, capture; restarts of both | HA, credentials file, NATS, preprocessor | reconciles overlap, messages are lost or overtaken, both sides restart | the loops follow home and overrides, a capture never goes back to an older URL |
| Identity pipelines: `identity/router.py`, `fusion.py`, `scheduling.py` | tracks in memory | route frames, fuse votes | vision models | votes of several models | a verdict follows from its votes |
| Adapter registry: `adapter_registry.py` | adapters, last heartbeat | register, heartbeat, expire | adapters over the bus | lateness against expiry | live adapters are listed, dead ones are not |
| Memory: `memory/*`; `graph_mirror.py`, `graph_runtime.py`, `policy_store.py` (ha-agent) | graph in Neo4j or in dictionaries, policies in SQLite, decay | write, cite, decay, count, candidates for pruning, mirror; choice of the backend at boot | alert log, policy store, rules, VLM prompts | two implementations of one protocol, in Cypher and in Python; encodings; time arithmetic; statements that fail | both backends answer alike, only a citation rescues what is to be pruned |
| Vision pipelines, VLM backends, adapters, HA integration, UI, contracts, deployment | - | - | - | numeric, HTTP or presentation | not modelled, section 8 |

## 2. Modules

Each component has a module with its state, one action per stretch of code between two
suspensions (an `await` that can suspend, a lock given up, a thread switch), and its
properties.  `MC...` modules give constants their values.  Three of them also hold a second
component that shares no variable with the first: `subject` then says which of the two moves
while the other is at rest, so that one run explores both, each in full, and no product of
the two.

| Module | Proofs | Code |
|---|---|---|
| `CameraLoops`, `MCCameraLoops` | `CameraLoopsProofs` | the ha-agent's camera life cycle |
| `RtspCapture`, `MCRtspCapture` | `RtspCaptureProofs` | the preprocessor's capture tasks and thread pool |
| `FrameQueue`, `MCFrameQueue` | `FrameQueueProofs` | the queue between decode and encode threads |
| `LossyFifo` | | what that queue promises: the abstract specification `FrameQueue` implements |
| `MotionEvents`, `MCMotionEvents` | `FrameQueueProofs` | from decoded frame to durable event: buffer and recorder together |
| `TriageBus`, `MCTriageBus` | `TriageBusProofs` | triage, the bus client and the JetStream consumer together |
| `VlmRouter`, `MCVlmRouter` | `VlmRouterProofs` | policy, breakers and fallbacks |
| `HealthWatchdog`, `MCHealthWatchdog` | `HealthWatchdogProofs` | poll loop, registry, degraded state, trail |
| `HomeClient`, in `MCHealthWatchdog` | `HealthWatchdogProofs` | the ha-agent's connection to HA: reconnect, dispatch, cache |
| `CameraFeeds`, in `MCAlertDispatch` | `RtspCaptureProofs` | from HA's entities over discovery, overrides and reconciles to the URLs the preprocessor captures |
| `AlertPolicy` | | what core decides without state: rules, conflicts, tiers, occupancy, quiet hours, policy gate, safe defaults, plan |
| `AlertDispatch`, `MCAlertDispatch` | `AlertDispatchProofs` | dispatcher, notify worker, asks and escalation together, over `AlertPolicy` |
| `Guidance`, `MCGuidance` | `StoreProofs` | the ha-agent's conversation, commits over its stores, pages and rule cache |
| `ActionRuntime`, `MCActionRuntime` | `StoreProofs` | perception requests with reverts, protective actions |
| `AlertPath`, `MCAlertPath` | `StoreProofs` | an alert from the camera loop to the phone: ring, event store, gate, enricher, notifier, rules |
| `Identity`, `MCIdentity` | `StoreProofs` | identity store, its routes, the retrying client, the enrichment worker, the live cache |
| `MemoryGraph` | | what a client of the memory graph promises: writes, queries, decay |
| `GraphMirror`, `MCAlertPath` | `VlmRouterProofs` | the Cypher statements that keep that promise, the dictionaries they fall back to, and what the ha-agent mirrors into them |

How state and actions correspond to the code:

* **CameraLoops.**  `overrides` is the JSON file that `POST /discovery/*` rewrites; a
  reconcile `r` is one `_reconcile_discovery` coroutine, whose `pc` is the await it is
  suspended at: rediscovery, the motion-switch queries (after `target[r]` was read), the
  apply lock, the old loop's task (`awaiting`).  A loop whose first step raised (`failed`) is raised
  again by the `_stop_one` that awaits it (`LoopRaises`): apply ends in the middle of its
  diff, and what it had not sent is `unsent`.  `running`, `registry`, `handlers` and
  `published` are `Reconciler._running`, `CameraLoopRegistry`, `HAClient._handlers` and what
  the preprocessor was sent.  The WebSocket consumer awaits the handlers of one event after
  the other (`todo`, `capturing`, `tries`).
* **RtspCapture.**  A task's `phase` follows `start()` and `stop()`, `capture` its `_run`
  coroutine.  Jobs on the default executor wait in `backlog`, first in, first out, and hold
  one of `PoolSize` threads.  Callers are coroutines that add, remove or stop, suspended
  where `add` awaits the old task's `stop()`.  A job whose future was cancelled while it
  waited is `Void`: it keeps its place in the backlog and a thread takes it up for nothing.
* **FrameQueue.**  `put` and `close` are atomic under the lock; `get` is split where
  `Condition.wait` lets go of it.  A waiter that timed out but has not run yet is `expired`,
  and CPython's `notify` may still choose it.  The workers of `rtsp_capture.py` belong to the
  model: `at[g]` is where worker `g` is, `stopping` the flag it tests before each `get` and
  that `stop()` sets before it closes the queue; a worker whose encode raises has `ended`.
* **MotionEvents.**  Time is counted in half seconds; frames carry their decode time,
  workers write them in the order they finish, within `MaxLag`.  A close is a task with four
  stages: snapshot of the window, files, manifest, enrichment.  A shutdown ends when all
  closes have (`Drain`) or when its caller stops waiting and cancels them (`CutShort`: five
  seconds in the code, any time here); a thread that is writing goes on, and what the
  cancelled closes had is `abandoned`.  `Restart` keeps only `disk`.
* **TriageBus.**  `stream` and `delivered` are the JetStream consumer, external code modelled
  from how `bus.py` and `streams.yaml` configure it.  `loop` is the await at which the one
  consume loop is suspended; it is `dead` after a `nak` or a `term` that raised.  What triage publishes to `vlm.*` is in the consumer's filter:
  message `<<e, 1>>` is the copy of event `e` it sent itself.
* **VlmRouter.**  `call[k]` is caller `k`'s `invoke`, suspended on the head of its chain.
  `_score` is a constant order.  OPEN turns into HALF_OPEN when somebody looks (`Looked`).
* **HealthWatchdog.**  `at` is where the watchdog is suspended: in a probe, in the
  transition callback, between rounds.  `last`, `offline`, `registry`, `active` and `trail`
  are the dictionaries of `Watchdog`, `HealthRegistry`, `DegradedState` and `DiagnosticRing`.
  Components change without bound, so one that changes in every round is among the behaviours.

* **AlertDispatch.**  A situation (what was seen, when, by whom, who is at home) is an input;
  `plan[a]` is what `ActionDispatcher.plan` returned for it under the failure modes of that
  moment, and keeps them.  `dispatch` publishes the events one by one into `queue`, the bus
  delivers each up to `MaxDeliver` times to the `NotifyWorker`; `asked` is the sequence of
  callbacks `AskFlow` ever made, the latest of an id being the one in its dictionary;
  `timer` and `raised` are the `EscalationEngine`.
* **Guidance.**  The transcript is the sequence `turns`; a drawer request is suspended in the
  LLM loop with `left` calls; each call may ask for tools, propose, or fail.  `Create` and
  `Refine` take the number of writes of `commit_guidance` that happened, so a confirmation
  that is cut short at any write is one action.  `guidance`, `prov`, `graph` and `ruleCache`
  are rules, policies, preferences and areas; the provenance table; the mirror in the graph;
  and the rule cache with its dirty bit.  An id the code draws (`uuid4`) is one that no
  store, no provenance and no turn has: `Fresh`.
* **ActionRuntime.**  A call to HA is `sent`, served at a moment of its own, and answered or
  `lost`; `pending` is the dictionary of reverts, `revert[r]` where that task is suspended.
* **AlertPath.**  `ring` is the ring, `events` the `meta.json` files, `gate[a]` the await
  the evaluation of alert `a` is suspended at, `todo` and `matches` the rules.  A selection is
  a list, and `Call` makes one call per element of it: a service that is in it twice is called
  twice.
* **HomeClient.**  `phase` is the await at which `_ws_loop` is suspended: connecting, logging
  in, subscribing, consuming, inside a handler (`dispatch`, with the handlers of the event
  still to call in `todo`), sleeping before it connects again.  `server`, `home`, `socket` and
  `wire` are Home Assistant and the connection, external; `request` is a REST read under way,
  with what HA said when it was served; `heard` is history, what each handler was last called
  with.
* **CameraFeeds.**  An entity is the set of words of its slug, since discovery only asks
  which words a slug has.  `pc[r]` is the await of reconcile `r` (discovery, apply lock,
  credentials, publish), `target` and `todo` what it read and has still to tell, `url` what
  it resolved; `running` are the loops.  `cache` is `HAClient._state_cache`, from which
  discovery and credentials are read: it is filled by the first answer of HA, by answers about
  single entities and by events while the WebSocket is `linked`, keeps what was removed, and
  is not read again after a reconnect.  `wire` is one queue per NATS subject, since order is
  kept within a subject only.  The preprocessor is `down`, in its `bootstrap` (which adds the
  URLs of the environment one by one) or `up`; `captures` are its URLs, `newest` is history.
* **GraphMirror.**  `nodes` and `rels` are what the Cypher statements leave in the database,
  `promised` what `MemoryGraph` says after the same writes, `dicts` the process-local graph,
  `backend` which of them boot chose; `rows` and `hits` are the SQLite tables of policies.
  A write is one statement, which is executed or fails.  The vector index scores a cosine `c`
  as `(1 + c) / 2`, and `find_similar_actors` filters its scores, the dictionaries their
  cosines; the index is taken to find the k best exactly.  `RefinePolicy` changes the row of a
  policy in SQLite and nothing in the graph, as `_update_policy` does.
* **Identity.**  The tables of the store (`template`, `provenance`, `resolution`, `rows`,
  `subjects`, `copies`), the live `cache`, and `last`, the post that will be repeated when its
  answer is lost.  An embedding is a look; looks are orthogonal, so the cosine of a template
  with a look follows from integer weights.

Data the properties do not tell apart is abstracted: a discovery spec, a frame's pixels, a
request's text are opaque values; timestamps are compared, so they are small numbers.

## 3. Runs

| Run | Instance | Question |
|---|---|---|
| `cameraloops` | one camera, two specs, any overrides saved by the last process, an edit, three loop identities, two concurrent reconciles, discovery, publishing and the start of a loop may fail | do loops, registry, preprocessor and captures agree however reconciles, edits and motion interleave, and are the overrides in force in the end? |
| `rtsp` | one camera, three tasks, two adders, a remover and a shutdown, two encode workers, a thread for every job | do overlapping calls keep all workers accounted for and one capture per camera? |
| `framequeue` | three slots, four puts, two workers of which each may fail, a stop at any time | a lossy FIFO that sheds motion last and leaves nobody asleep? do the workers end at a stop? |
| `motionevents` | clock of eleven half seconds, pre-roll 2, post-roll 3, cap 4, lag up to 2 | is motion the recorder saw durable through eviction, caps and late frames, up to what a shutdown cancels? is a manifest true after a crash? |
| `triagebus` | an event and its copies, a malformed message, two deliveries each, a restart, publish, ack, nak and term may fail, queues fill | what does an acknowledgement promise, and is everything settled? |
| `vlmrouter` | two callers, two requests, three backends (one in the cloud), a cancelled invoke, resets | privacy, consistency, recovery |
| `healthwatchdog` | three components with and without a failure mode that change for ever, a callback that may raise each time, a ring of one; and HomeClient with an entity, a handler, three changes and one fault | does the gate follow the components? is a change heard once, in order, and does the client always connect again? |
| `alertdispatch` | two residents, five rules, one alert in fourteen situations, four sets of failure modes with two shifts, two deliveries, two asks; and CameraFeeds with one camera device of two streams and two sensors, two concurrent reconciles, a state cache, one change and one fault | does the gate tighten, does an alert escalate once, does an answer stand? do loops follow what the agent knows of the home, and do captures never go back to an older URL? |
| `guidance` | one user with two tabs, two utterances, one round of tools, two confirmations, an edit, a rule, a policy and the preferences | do transcript, provenance, entries and graph tell the same story? |
| `actionruntime` | two requests for one light, four recommendations of one lock by two incidents, an edit of the whitelist, a restart | are reverts on record and drained, do incidents agree? |
| `alertpath` | an alert and a test alert, a ring of one, one rule, a selection that names a service twice, one failing write, an edit, a restart; and GraphMirror with an event, two actors, a decision, two policies, a text with a semicolon, four requests and a clock of two steps of five weeks | do ring and files agree, are fields not undone? do Cypher and dictionaries answer alike, does only a citation rescue? |
| `identity` | three tracks in two events, two names, four posts and news in all, embeddings stored up to twice | does evidence stand behind every name, do repetitions and sweeps leave the operator's work alone? |

All runs explore every reachable state of their instance.

Beyond these runs the same instances satisfy, when the property is added to the
configuration: every module's type invariant; `RegistryMatchesRunning` (CameraLoops);
`RegisteredIsLive` and `OneLiveTaskPerCamera` (RtspCapture); `Accounting` and `FifoOrder`
(FrameQueue); `CacheIsConsistent` and `NoEarlyRepeat`
(TriageBus); `LocalOnlyStaysLocal` and `EveryInvokeEnds` (VlmRouter); `TrailTellsTransitions`
(HealthWatchdog); `LossIsNoticed` (HomeClient); `NothingSlipsTheGate`, `ResolutionIsStable`
and `EveryAskEnds` (AlertDispatch, the last with `SPECIFICATION MCFairSpec`);
`OneOpenSession`, `FamiliesAreKept`, `CacheIsCurrent` and
`EveryTurnIsAnswered` (Guidance, the last with `SPECIFICATION GuidanceFairSpec`);
`RecordsAreLive` (ActionRuntime); `SentOnce`, `FailsOpen`, `FeedbackIsBacked`,
`RuleAuditIsTrue` and `EveryEvaluationEnds` (AlertPath, the last with `SPECIFICATION
MCFairSpec`).

**Bounds, and why they are enough.**  `MaxEdits`, `MaxPageEdits`, `MaxAlertEdits`,
`MaxChanges`, `MaxPuts`, `MaxPollGap`, `MaxLag`, `MaxTime`, `MaxRestarts`,
`MaxAlertRestarts`, `MaxCancels`, `MaxCopies`, `MaxAlerts`, `MaxAsks`, `MaxShifts`,
`MaxUtterances`, `MaxSessions`, `MaxCommits`, `MaxFailures`, `MaxFaults`, `MaxTicks`,
`MaxBackoff`, `MaxRequests` and `MaxNews` bound what the environment does; the rest of the
constants are parameters of the code.

* CameraLoops: two overlapping reconciles are the least that can race for the apply lock, and
  the lock admits one at a time, so a third only repeats what the second does; three loop
  identities let an old, a stopping and a new loop of a camera exist together (identities are
  reused once nothing refers to them).  With one camera the only handlers besides that of the
  loop in charge are those of stopped loops; several cameras on one sensor are covered by the
  theorems, which hold for any number.
* FrameQueue: three slots give a victim at the head, in the middle and at the end; four puts
  overflow it.
* MotionEvents: eleven half seconds hold an event that reaches its cap, the next one, and an
  eviction.
* TriageBus: two deliveries give every message one redelivery; a window of 0 on a clock of 1
  has both sides of the dedup window.  An event of the bypass tier is not in this instance; it
  takes the same way without shedding and echo, and with `Events = {e1, s}` and no restart the
  same properties hold.
* VlmRouter: `FailureThreshold` 2 distinguishes the first failure from the one that opens.
* HealthWatchdog: a ring of one drops an entry at the second transition; the components change
  without bound, before, between and behind the one a property is about.
* HomeClient: three changes give one before, one during and one after a fault; a backoff that
  doubles once has both its first and its largest value.  That an old event never reaches a
  handler late is also a theorem, for any number of entities, handlers and faults.
* CameraFeeds: two overlapping reconciles are the least that can publish in the wrong order;
  a change or a fault can fall at any await of both.  Two streams, of which one tells its
  URL, make every provider of the credential chain the one that answers; a connection that
  comes and goes (`Connects`, `Disconnects`, unbounded) can miss the change.
* AlertDispatch: two deliveries of an ask give a callback that replaces another, whose timer
  is still alive; the situations make every rule of the book fire alone and with others.
* Guidance: two commits are an original and its refinement, or one proposal confirmed twice;
  an edit in between withdraws it.  One round of tools is enough, since rounds only use up
  the budget.
* ActionRuntime: two requests for one target are the least that overlap; with two incidents
  required, a repeated recommendation and one with too little confidence must not count.
* AlertPath: a ring of one drops an entry as soon as there are two alerts; with one failure
  each write fails in some behaviour.
* GraphMirror: four requests write an event, an actor or a decision and a policy, cite one
  from the other, or write one twice; with steps of five weeks a citation's weight of 0.5 is
  first above both thresholds, then between them, then below both.  Looks that are equal have
  a score of 1, others of 0.7, and thresholds of 0, 0.5 and 0.8 lie below and between them.
* Identity: four posts or news are a label, its correction, a merge and a rejection in any
  order; two tracks in one event are what an exclusion within an event is about, and the pet
  gives a second modality.

For the properties that are also theorems the bounds do not matter.

`CHECK_DEADLOCK FALSE` stands where the environment is bounded and the system may rightly
come to rest: every camera removed and the supervisor stopped (RtspCapture), the clock at its
bound (MotionEvents), all messages settled or the consume loop dead (TriageBus), nothing
counting down and nobody asking (VlmRouter), all alerts dispatched and all asks over, or
nothing left to reconcile or to handle (AlertDispatch, CameraFeeds), all utterances, calls, alerts or posts used up (Guidance, ActionRuntime,
AlertPath, Identity).

**Fairness, and why the code justifies it.**

* CameraLoops: coroutines that are ready run (asyncio's FIFO ready queue), so weak fairness
  on each; `asyncio.Lock` wakes waiters in order, so a reconcile that waits for the lock gets
  it, which is strong fairness on the acquisition; the periodic task never ends; the user
  need not edit, publishing may always fail.
* RtspCapture: executor threads take jobs, coroutines that are ready run, a backoff ends, a
  connection attempt returns; a stream may last for ever and nobody has to add or remove.
* FrameQueue: each worker thread is scheduled, and a wait has a timeout; a worker calls `get()`
  again only while `stopping` is not set and its encode has not raised.  `EveryFrameLeaves` is
  about the time before a stop: what is queued then stays there.
* TriageBus: the server delivers what is deliverable, `ack_wait` passes, awaits of the loop
  return, with success or failure; no sender is assumed.
* VlmRouter: each backend call returns (its HTTP client has a timeout), time passes, callers
  keep asking.
* HealthWatchdog: probes and callbacks return, and the loop polls for ever; the callback may
  raise every time.
* ActionRuntime: calls to HA return or fail (they have a timeout), a sleep ends, tasks that
  are ready run; no request is owed.
* HomeClient: the awaits of `_ws_loop` return, with success or failure, and a sleep ends; an
  HA that is starting comes up, a socket whose server is gone ends at some time.  HA itself
  may stay down for ever, and no read and no change is owed.
* CameraFeeds: the periodic task and the coroutines of a reconcile run; nothing is assumed of
  NATS, of the preprocessor, of the connection to HA, or of the user.
* AlertDispatch, Guidance and AlertPath state the same of their awaits, for the properties
  `EveryAskEnds`, `EveryTurnIsAnswered` and `EveryEvaluationEnds`.
* Identity claims no liveness: a route runs to its end, and nobody has to call one.

## 4. What the runs show

* **Camera life cycle.**  The apply lock does what it is there for: a loop that was not told
  to stop is always the one `_running` holds (`LiveLoopIsRunning`), and the preprocessor has
  been sent the spec of each, except after a failed publish or an apply that a dead loop's
  exception ended, whenever no apply is under way (`PublishedTracksRunning`); the registry has
  them too, and besides at most loops that had died (`RegistryMatchesRunning`).  What is lost
  in these exceptions is not repaired (`PreprocessorFollows` in section 6).  A
  capture starts only for the loop in charge, although the consumer walks a copied handler
  list (`CaptureStartsOnlyWhileRunning`).  Stale targets and applies that
  ended half-way are repaired by the periodic pass (`EventuallyMatchesOverrides`), in
  `_running`: a loop that has died stays there.
* **Camera feeds.**  Whatever overlaps, is lost or restarts, a capture is never set back to a
  URL older than one it had (`NoOlderUrl`): the publishes of one reconcile stand behind the
  apply lock of the other's, and NATS keeps their order.  Loops and specs end up as the
  overrides and the state cache say (`CacheIsFollowed`).  The cache need not say what the home
  does, nor need the captures follow: see section 6.
* **RTSP capture.**  Workers neither leak nor go missing (`WorkersAreAccountedFor`); with
  enough threads every camera decodes and every stop returns (`EveryTaskGetsThere`).  Calls
  that did not overlap never leave two captures (`OneLiveTaskPerCamera`).
* **Frame queue.**  The queue implements the lossy FIFO (`IsLossyFifo`), sheds a motion frame
  only from a queue of motion frames (`MotionIsShedLast`), and until the capture is stopped no
  frame is left over when a notify goes to a worker that has just timed out, or to one that
  then fails (`EveryFrameLeaves`).  At a stop every worker ends, wherever it is
  (`WorkersEnd`).
* **Motion events.**  Motion a poll has returned stays covered (`SeenMotionIsKept`), but for
  what a shutdown of more than five seconds cancels; the cap keeps the window inside the buffer
  (`BufferServesTheWindow`); no crash leaves a manifest of a frame that is not there
  (`ManifestIsTrue`).
* **Triage.**  Of each acknowledged event's signature one was forwarded, shed or lost to a
  publish that raised, and safety events are never shed (`AckedIsAccountedFor`); everything is
  settled while the loop lives (`EveryEventIsSettled`).
* **VLM router.**  A breaker is closed while it has counted fewer failures than the threshold
  (`ClosedBelowThreshold`); a backend that is up for good gets its breaker closed for good, if
  requests prefer it (`FirstChoiceRecovers`).
* **HA client.**  A handler hears of a change once, and never of an older state of an entity
  after a newer one, although sockets break, HA restarts and handlers come and go
  (`DeliveriesAreInOrder`); whatever fails on the way, the client ends up connected if HA
  stays up (`ClientReconnects`).  The cache, which REST answers write as well, keeps no such
  promise: see section 6.
* **Health.**  After a complete round registry and gate agree with every component that did
  not change meanwhile (`CompleteRoundIsAccurate`); an outage or a recovery reaches the gate for
  good, even if the callback raises every time and cuts rounds short (`OutageReachesTheGate`:
  a component is told of once per transition, so one behind it is reached in the next round),
  unless a component that is polled earlier keeps changing.  One that does so in every round
  starves those behind it: `GateStaysCorrect` in section 6.

* **Dispatch.**  More failure modes never loosen what may be done to a device, whatever was
  approved (`GateOnlyTightens`); ticks, follow-ups and cancels in any order raise an alert
  once at most and never after its cancellation (`EscalatesOnce`); an outcome of a question
  is final although older deliveries' timers fire under the same id (`AnswerStands`).
* **Guidance.**  Whatever write of a confirmation is the last one, what the transcript, the
  provenance and the graph claim has happened (`AuditIsTrue`): the order entry, provenance,
  graph, transcript is what makes it so.  Provenance only grows (`HistoryIsKept`): slugs of
  new rules avoid those of the old.  What was deleted or revoked stays so through double
  submits and refinements (`WithdrawnStaysSo`).
* **Action runtime.**  A revert that sleeps is the one on record, in whatever phase of another
  revert a request arrives (`RevertsAreOnRecord`), and every record is gone in the end, even
  if the call fails (`RevertsDrain`).  A lock is only turned on the word of as many incidents
  as required, although calls overlap (`IncidentsAgree`).
* **Alert path.**  Ring and files never contradict each other, whichever write failed
  (`StoresAgree`); gate, enricher and user do not undo each other's fields (`MetaIsMerged`):
  each rereads the file after its awaits.  In the add-on as it is wired the gate has no rules runtime; the runtime is
  attached as the tests of `triage.py` do.
* **Memory graph.**  After the same writes, statements that fail included, the database is read
  back as the dictionaries would be, but for what the encoding takes of its texts, and its
  queries answer as theirs, the vector index if it is asked on the scale of its scores
  (`BackendsAgree`; on one scale they do not agree: `SimilarityIsOneScale` in section 6); a
  memory that has become a candidate for pruning stays one until it is cited itself
  (`OnlyCitationsRescue`): decay never turns round.
* **Identity.**  Every name on a row has a template, every template a stored source
  (`EveryNameHasEvidence`); the live cache holds the store's vector, or one the memory
  service sent, never an older one (`LiveCacheIsCurrent`); a repeated post changes nothing
  (`RetriesChangeNothing`); a rejection survives all sweeps (`VerdictsAreKept`).

## 5. Theorems

Proved for all values of the constants that satisfy the `ASSUME` of the module (finite sets
are not assumed where they are not needed); nothing is taken without proof.

| Theorem | Says |
|---|---|
| `CameraLoopsProofs!Typing` | `Spec => []TypeOK` |
| `CameraLoopsProofs!OneLiveLoop` | `Spec => []LiveLoopIsRunning` |
| `CameraLoopsProofs!RegistryFollows` | `Spec => []RegistryMatchesRunning` |
| `CameraLoopsProofs!PublishedFollows` | `Spec => []PublishedTracksRunning` |
| `CameraLoopsProofs!CapturesAreCurrent` | `Spec => CaptureStartsOnlyWhileRunning` |
| `FrameQueueProofs!EveryFrameCounted` | `Spec => []Accounting` |
| `FrameQueueProofs!FramesInOrder` | `Spec => []FifoOrder` |
| `FrameQueueProofs!MotionShedOnlyWhenAllMotion` | `Spec => MotionIsShedLast` |
| `FrameQueueProofs!ImplementsLossyFifo` | `Spec => IsLossyFifo`: the refinement |
| `FrameQueueProofs!SeenIsKept` | `EventSizes` implies `EventsSpec => []SeenMotionIsKept` (MotionEvents) |
| `FrameQueueProofs!BufferServes` | `EventSizes` implies `EventsSpec => BufferServesTheWindow` |
| `FrameQueueProofs!ManifestsAreTrue` | `EventsSpec => []ManifestIsTrue` |
| `RtspCaptureProofs!Typing` | `Spec => []TypeOK` |
| `RtspCaptureProofs!NoWorkerIsLost` | `Spec => []WorkersAreAccountedFor` |
| `RtspCaptureProofs!KnownIsRunning` | `Spec => []RegisteredIsLive` |
| `RtspCaptureProofs!OneCapturePerCamera` | `Spec => []OneLiveTaskPerCamera` |
| `RtspCaptureProofs!UrlsMoveOn` | `FeedsSpec => NoOlderUrl` (CameraFeeds) |
| `TriageBusProofs!Typing` | `Spec => []TypeOK` |
| `TriageBusProofs!AcknowledgedIsAccountedFor` | `Spec => []AckedIsAccountedFor` |
| `TriageBusProofs!CacheAgrees` | `Spec => []CacheIsConsistent` |
| `HealthWatchdogProofs!RoundsAreAccurate` | `Spec => []CompleteRoundIsAccurate` |
| `HealthWatchdogProofs!HandlersHearInOrder` | `ClientSpec => DeliveriesAreInOrder` (HomeClient) |
| `VlmRouterProofs!BreakersAgree` | `Spec => []ClosedBelowThreshold` |
| `VlmRouterProofs!MirrorIsTyped` | `MirrorSpec => []MirrorInv` (GraphMirror) |
| `VlmRouterProofs!BackendsAnswerAlike` | `MirrorSpec => []BackendsAgree` |
| `VlmRouterProofs!CitationsRescue` | `MirrorSpec => OnlyCitationsRescue` |
| `AlertDispatchProofs!GateTightens` | `Spec => GateOnlyTightens` |
| `AlertDispatchProofs!OneEscalation` | `Spec => EscalatesOnce` |
| `AlertDispatchProofs!AnswersStand` | `Spec => AnswerStands` |
| `StoreProofs!OneRevertPerTarget` | `Spec => []RevertsAreOnRecord` (ActionRuntime) |
| `StoreProofs!NoRecordIsStale` | `Spec => []RecordsAreLive` |
| `StoreProofs!AgreedOn` | `Spec => []IncidentsAgree` |
| `StoreProofs!AuditHolds` | `GuidanceSpec => []AuditIsTrue` |
| `StoreProofs!HistoryGrows` | `GuidanceSpec => HistoryIsKept` |
| `StoreProofs!WithdrawnForGood` | `GuidanceSpec => WithdrawnStaysSo` |
| `StoreProofs!StoresTellTheSame` | `PathSpec => []StoresAgree` (AlertPath) |
| `StoreProofs!MetadataIsMerged` | `PathSpec => MetaIsMerged` |
| `StoreProofs!NotifiedOnce` | `PathSpec => [](SentOnce /\ FailsOpen)` |
| `StoreProofs!EveryNameIsFounded` | `IdentitySpec => []EveryNameHasEvidence` |
| `StoreProofs!CacheFollowsStore` | `IdentitySpec => []LiveCacheIsCurrent` |
| `StoreProofs!RepeatsAreHarmless` | `IdentitySpec => RetriesChangeNothing` |
| `StoreProofs!RejectedStaysRejected` | `IdentitySpec => VerdictsAreKept` |

So every safety property the runs check is a theorem.

The arguments:

* **CameraLoops.**  None of the properties is inductive: while a reconcile is inside `apply`
  the registry and the running loops differ by exactly what it is doing.  `IInv` adds: a
  reconcile is past the lock iff it holds it (`LockInv`); a live loop is the running loop of
  its camera and running loops are live unless their stop is under way (`LoopInv`); the loop
  awaited by the holder is the stopped one of the camera it is at (`AwaitInv`); and what the
  registry (`RegInv`: it differs where a stop is under way, and where one met a loop that had
  died), the list of changed cameras (`PhaseInv`) and the published specs (`PubInv`: what
  differs is still to be sent, or was given up with the apply) look like at each `pc`.  Each conjunct is preserved by its own lemma, action by
  action; most actions leave most conjuncts alone.
* **FrameQueue.**  `FifoOrder` needs that sequence numbers in the queue are below the next
  one (`Numbered`); `AdmitStep` is the heart: which frame leaves when the queue is full, and
  that removing it from the middle keeps order and accounts.  `MotionIsShedLast` then
  follows from the step relation and the invariant.  For the refinement the frames held are
  the queue without its numbers (`Held`), what left is counted by the metrics, and each
  `Take` gives what stands first; waiting, waking and closing stutter.
* **MotionEvents.**  The theorems hold for sizes that fit together (`EventSizes`): frames reach
  the buffer within the pre-roll and the post-roll, there is a post-roll, and the buffer
  reaches back over the longest event (`Span`), by its horizon and by its number of entries.
  The code's defaults fit; the code does not enforce it, and with a smaller buffer the
  properties fail.  `EventInv` has one part per stage of a frame's way.  `FramesInv`: frames
  are an odd instant each, the queue is in the order of time.  `BufferInv`: the buffer is
  sorted but for the lag, and misses only frames older than any event can reach;
  `FullBufferReaches` is the counting argument for it (as many frames as the buffer holds
  take twice as many half seconds, whatever the order they came in).  `RecorderInv`: the open
  event was not due at the last poll.  `ClosingInv`: triggers grow, so no close overwrites
  another's directory, and a close that has not started yet lies within the reach of the
  buffer.  `SeenInv`: what was seen and not abandoned is `Kept`, by a directory only if that is
  `Settled`; a shutdown that is cut short takes closes away, and with them only what it adds
  to `abandoned`.
* **HealthWatchdog.**  The round in progress has already processed the checks before
  `position`; `IInv` says of those what the property says of all of them at the end, plus
  what the observation in hand may be compared with.
* **VlmRouter.**  The invariant with the breakers' types is inductive; the point is that it
  survives every operation in every order: results that come late, resets, lazy HALF_OPEN.
* **GraphMirror.**  `MirrorInv` says that nodes are as their statements wrote them (`NodesInv`:
  a policy's `expires_at` is the one its lifetime gives), that relationships join nodes that
  exist and are no younger than now (`RelsInv`), and that the graph read back is `promised`
  with each text as its encoding leaves it (`Holds`, `AsText`), which is kept because an event
  is written with the text that was promised and by nothing else.
  What a MERGE does to each collection is one lemma for all labels (`MergeCollections`); that
  a relationship is found by the ids of its ends needs ids that are unique beyond their label
  (`GraphMirrorAssumption`, `types.py`).  The queries then agree collection by collection:
  counts by a bijection of nodes and ids, the vector index because scores order actors as
  their cosines do (`BestScored`) and whoever is better than an actor alike enough is alike
  enough (`BestFiltered`), scores of citations as maxima of equal sets.
  `CitationsRescue`: the table of the sigmoid falls, so no citation of a candidate is worth
  more than it was, and neither is their maximum.

* **AlertDispatch.**  `GateOnlyTightens` is a property of the table: a maximum over a larger
  set, and a floor that is monotone in it.  `EscalatesOnce` needs that an alert that was
  raised has no timer and that only planned alerts have either (`TimerInv`); `AnswerStands`
  that the callbacks of one question are told apart by position (`AskInv`).
* **RtspCapture.**  `WorkerInv` counts: the jobs of a task in threads, those in the backlog
  and the `Void` ones among them add up to what its phase says it has; counts over the backlog
  are cardinalities of sets of positions, for which there are lemmas of appending, taking the
  head and making void.  `StartInv` and `RegisteredInv` say which caller brings a task up and
  that what the dictionary holds is live once that caller has gone on.  The uniqueness of a
  capture (`SerialInv`) is claimed only while calls did not overlap: the counterexample of
  section 6 is what happens otherwise, and `overlapped` is what its hypothesis has to be.
* **CameraFeeds.**  A URL carries when it was resolved.  `FeedInv` says at which places URLs
  are on their way to a capture, and that they stand there in order: in the capture, on the
  wire (`WireInv`), in the hand of the reconcile that holds the apply lock (`SendInv`), of
  which there is one (`OnePublisher`).
* **TriageBus.**  `AckedIsAccountedFor` speaks of signatures, the code of a cache that forgets:
  `AckInv` says what an entry of the cache, an acknowledged message and each await of the loop
  owe to the outcomes on record.  `CacheInv` ties the dict to the deque: entries are in the
  order of time, a signature is indexed iff it is in the deque, and there once.
* **HomeClient.**  What a handler has heard of an entity is not newer than the event in hand,
  that not newer than those on the wire, in their order, and those not newer than the home
  (`HeardInv`, `EventInv`, `WireInv`); a handler that is yet to be called has heard less than
  the event (`HandlersInv`).
* **ActionRuntime.**  `RevertsAreOnRecord` and `RecordsAreLive` hold each other up: a request
  replaces a sleeping revert's record in the step that cancels it, and a revert that runs has
  taken its own away.  `IncidentsAgree` needs that the redundancy sets only hold incidents
  that recommended (`SeenInv`) and that a row of the log was written by a call that had found
  as many (`LogInv`).
* **Guidance.**  `AuditIsTrue` needs no more than that an id that is drawn is not in use
  (`FreshInv`), and then goes through the writes of a confirmation one by one: each store's
  part is a lemma of the operators `Create` and `Refine`, for every number of writes.
* **AlertPath.**  `GateInv` says what the evaluation suspended at an await may rely on of what
  it read before, `StoresInv` how ring and file may differ while a write is owed.  That an
  alert is sent once is a count of the elements of its selection (`TimesCounts`).
* **Identity.**  `IdentityInv` has three parts.  The tables: every row names a subject that
  has a template in the row's modality, every template's weights are those of the embeddings
  its sources stored, and what is a source was labelled so (`RowsInv`, `TemplatesInv`,
  `SourcesInv`).  The cache: what it holds is the template of now, and of names that are
  active (`CachedInv`, `NamesInv`).  The request that may be repeated: after it the store is
  `Settled` for it, which is what makes the second time change nothing (`RetryInv`); a sweep
  writes what the tables already say, so it settles itself.  Sums of weights are cardinalities
  of sets of units, since the prover knows nothing of a recursive sum.  Assumed of the
  constants: there are finitely many tracks and looks, and `Nil` is not a subject.

Only model-checked:

* Liveness, for which the prover has no rules: `EventuallyMatchesOverrides`,
  `EveryTaskGetsThere`, `EveryFrameLeaves`, `WorkersEnd`, `EveryEventIsSettled`,
  `OutageReachesTheGate`, `ClientReconnects`, `FirstChoiceRecovers`, `CacheIsFollowed`,
  `RevertsDrain`.
* Properties over `SelectSeq`, of which the prover knows nothing (it takes an operator as its
  argument and is defined by recursion): `LocalOnlyStaysLocal`, `TrailTellsTransitions`.
* `NoEarlyRepeat`, which holds of the instance only as far as the cache is not full: a cache
  that is full forgets a signature inside its window.
* What `Encode` and `Decode` compute (GraphMirror): they are recursive functions and a maximum
  over positions of a text; the theorem holds of whatever they compute.

## 6. Claims the models refute

TLC finds a counterexample to each.  They are definitions in the modules, at the end, and are
refuted by the named configuration with that property in place of its own.

| Definition | Configuration | What the text says | What the code does |
|---|---|---|---|
| `LiveIsRegistered` | `RtspCapture.cfg` | `rtsp_capture.py`, `RTSPCaptureSupervisor`: concurrent add and remove are safe | a remove that arrives while `add` awaits the old task's stop unregisters the new task, which is then started and runs unknown to the supervisor |
| `NoMotionIsMissed` | `MotionEvents.cfg` | `event_recorder.py`: this component closes the gap | polls move on by their own time, frames carry their decode time: a frame decoded before a poll and written after it is in no poll's interval |
| `SuppressedRepeatsForwarded` | `TriageBus.cfg` | `triage.py`: only the first of the repeats is forwarded | the signature is remembered before the publish; when that fails, the redelivery is suppressed as a duplicate of itself and acknowledged |
| `QuiescentMatchesOverrides` | `CameraLoops.cfg` | `__main__.py:3439`: safe to call concurrently | targets are read before the lock is taken; the older ones can be applied last, until the next periodic pass |
| `NoAlertFromStoppedLoop` | `CameraLoops.cfg` | `camera_loop.py:326`: a disabled camera must not produce alerts | the stop event is not looked at again after the snapshot was awaited |
| `StoppedLoopIsUnregistered` | `CameraLoops.cfg` | `camera_loop.py:317`: the handler is unregistered on stop | a loop stopped before the first step of its task registers afterwards |
| `EveryDiffIsFannedOut` | `CameraLoops.cfg` | `reconciler.py:95`: every reconcile diff fans out to the preprocessor | `_stop_one` catches `TimeoutError` only: the exception of a loop that has died ends the apply before it publishes (`:223`) |
| `PreprocessorFollows` | `CameraLoops.cfg` | `reconciler.py:97`: the preprocessor's camera set tracks the toggle | a diff that was lost, or whose publish failed, is not sent again |
| `EnabledCameraIsWatched` | `CameraLoops.cfg` | `camera_loop.py:299`: `run` subscribes until stopped | a loop whose first step raised stays in `_running`, where the next passes find it unchanged |
| `NoDecodeAfterStop` | `RtspCapture.cfg` | `rtsp_capture.py:85`: runs until cancelled | the decode loop, in a thread, never looks at `_stopping` |
| `LiveTaskDecodes` | `RtspCapture.cfg`, `PoolSize = 4`, two cameras, two tasks | `rtsp_capture.py:260`: ingestion is never throttled by downstream processing | encode workers take the threads the decode jobs wait for |
| `ShutdownIsDurable` | `MotionEvents.cfg` | `event_recorder.py:150`: let in-flight closes finish persisting on shutdown | the caller waits five seconds and then cancels them (preprocessor `__main__.py:243`) |
| `WindowIsChronological` | `MotionEvents.cfg` | `rolling_buffer.py:94`: in chronological order | in the order in which the encode workers finished |
| `ConsumerOutlivesFailures` | `TriageBus.cfg` | `bus.py:159`: the task is tied to the bus's lifecycle | a `nak()` or a `term()` that raises ends it for good |
| `ForwardedOnce` | `TriageBus.cfg`, `Events = {e1}`, `Invalid = {}`, `MaxCopies = 2`, `Failing = {}` | `triage.py:3`: consumes events from adapters | consumes what it forwarded as well, and forwards it again after the window |
| `PersistentOutageEscalates` | `HealthWatchdog.cfg`, `Threshold = 2` | `watchdog.py:12`: N offline observations escalate to critical | the level is computed at transitions only, when the count is 1 |
| `GateStaysCorrect` | `HealthWatchdog.cfg` | `watchdog.py:137`: the safe-action gate stays correct even if a callback is missed | a component that changes in every round, with a callback that raises, keeps the checks behind it from being polled |
| `OneProbe` | `VlmRouter.cfg` | `breaker.py:7`: one probe request allowed | every request that looks at a half-open breaker probes |
| `OpenRejects` | `VlmRouter.cfg` | `breaker.py:6`: rejected immediately for `reset_seconds` | a fallback chain computed before the breaker opened leads to it |
| `DeviceActionsAreAdditive` | `AlertDispatch.cfg` | `rules.py:247`: device actions additive | the actions of rules that lost on scope are dropped with the rules (`rules.py:303`) |
| `SafetyRuleWins` | `AlertDispatch.cfg` | `rules.py:330`: a smoke alarm fires an immediate alert | the rule is of scope global, and a rule of an area that fires too displaces it (`rules.py:261`) |
| `QuietPushIsSilent` | `AlertDispatch.cfg` | `dispatch.py:145`: in quiet hours a push is silent | what quiet hours decide is not part of the events that are published (`dispatch.py:1030`) |
| `BlockIsReported` | `AlertDispatch.cfg` | `dispatch.py:381`: a blocked action notifies the operator instead | the push is addressed to `all_residents`, which the push dispatcher looks up as the id of a resident and skips (`notify/dispatcher.py:60`) |
| `WaitersResume` | `AlertDispatch.cfg` | `notify/dispatcher.py:174`: a waiter resumes on an answer or the timeout | a second delivery replaces the callback; whoever waits for the first waits for ever (`:209`) |
| `UtteranceIsTheAsked` | `Guidance.cfg` | provenance records the utterance that led to the entry | the latest user turn of the session is taken (`__main__.py:2649`), which of two overlapping turns can be the other |
| `EveryRuleHasProvenance` | `Guidance.cfg` | `commit_guidance.py:3`: every guidance write funnels through one function | the form on the rules page writes the store itself (`__main__.py:2759`) |
| `CommittedExists` | `Guidance.cfg`, `Classes = {"area_posture"}`, an unknown area | a confirmation names its entry | a posture of an area that does not exist is confirmed and written nowhere |
| `ConfirmedOnce` | `Guidance.cfg` | a proposal turn is marked with the entry it became | nothing stops a second confirmation of the same turn (`__main__.py:2620`) |
| `RefinementReachesEntry` | `Guidance.cfg`, `Classes = {"area_posture"}`, two known areas | `commit_guidance.py:13`: a refined proposal updates the entry's data | the posture goes to the area of the proposal, the history to the entry that was refined |
| `WindowIsExtended` | `ActionRuntime.cfg` | `action_runtime.py:10`: a second request inside a pending revert extends the timer | the call of a revert that has begun can be served after the second request's |
| `EveryCallIsLogged` | `ActionRuntime.cfg` | `action_runtime.py:17`: every attempt is logged | the row is written after the call was awaited: not if the process ends in between |
| `EveryExecutionIsAgreedOn` | `ActionRuntime.cfg` | `action_store.py:73`: consecutive recommendations needed | the count is never started again: after the first execution each recommendation is executed |
| `EveryAlertIsJudged` | `AlertPath.cfg` | `triage.py:4`: every recorded alert flows through the gate | cameras run before the gate is wired (`__main__.py:3523`) |
| `ResultsAreTheirs` | `AlertPath.cfg` | `notifier.py:131`: returns per-service results | the selection of services is read again after the answers were gathered (`:142`) |
| `OneCallPerService` | `AlertPath.cfg` | `notifier.py:94`: notified exactly once | one call per element of the selection (`:141`): a service that is listed twice is called twice |
| `LabelSticks` | `Identity.cfg` | `identity_api.py:168`: so it re-resolves to the new subject | a track labelled by mistake stays a source of the wrong subject, whose older row wins the tie |
| `ContributesOnce` | `Identity.cfg` | `identity_store.py:331`: a track only contributes once | merging two subjects enrolled from one track adds its frames twice |
| `ReadyMeansConnected` | `HealthWatchdog.cfg` | `client.py:154`: set on a successful connect and auth, cleared on disconnect | only an exception clears it: after `stop`, and after a clean close until the next attempt fails, it is still set |
| `SnapshotIsComplete` | `HealthWatchdog.cfg`, two entities, `Handlers = {}` | `client.py:163`: one-shot fetch of all states, uses the cache when fresh | one event makes the cache non-empty, and then it is all there is |
| `CacheMovesOn` | `HealthWatchdog.cfg` | `client.py:10`: snapshot and delta cache | a REST answer is written over what events put there while it was awaited |
| `CapturesTrackTheToggle` | `AlertDispatch.cfg` | `__main__.py:3649`: the preprocessor's camera set tracks the toggle of the UI | the removal and the configuration go over two subjects, whose messages can overtake each other |
| `DiscoverySeesTheHome` | `AlertDispatch.cfg` | `__main__.py:3489`: catches cameras the user added after the add-on started | discovery reads the state cache, which keeps what was removed and misses what changes while the WebSocket is down |
| `RotationReachesCapture` | `AlertDispatch.cfg` | `rtsp_capture.py:313`: restarts when the URL changes (token refresh) | nobody publishes a URL again while the spec of the camera is the same |
| `EnvIsReplaced` | `AlertDispatch.cfg` | preprocessor `__main__.py:128`: events of the agent replace the URLs of the environment | the URLs are added after the subscription is open, and replace what the agent said meanwhile |
| `CandidatesMirrorInMemory` | `AlertPath.cfg` | memory `client.py:743`: mirrors the in-memory semantics | asked for all kinds, decisions and policies are among the candidates |
| `SimilarityIsOneScale` | `AlertPath.cfg` | memory `client.py:88`: filtered to at least `min_similarity` | the database compares it with `(1 + cos) / 2`, the dictionaries with the cosine |
| `ShadowIsNarrower` | `AlertPath.cfg` | `graph_mirror.py:17`: the graph is a shadow of SQLite | a refinement that shortens the expiry of a row (`commit_guidance.py:393`) does not reach the graph, where the policy ends later |
| `ShadowAgrees` | `AlertPath.cfg` | `graph_mirror.py:17`: the graph is a shadow of SQLite | a policy without an expiry has a lifetime of 0 there, and one that is revoked stays |
| `MetadataRoundTrips` | `AlertPath.cfg` | memory `client.py:808`: round trip through a deterministic encoding | a headline with a semicolon is cut off there |
| `NamedIsActive` | `Identity.cfg` | `identity_api.py:212`: keep the live cache consistent | a merge into a subject that was merged away moves everything to an inactive name |

Three hazards of the list are covered by these refuted claims and not by a property of a
run: encode workers that occupy the pool of the decode jobs (`LiveTaskDecodes`), a frame in
flight when the poll goes on (`NoMotionIsMissed`), and the error path that awaits a call which
can itself fail (`ConsumerOutlivesFailures`).

## 7. Plan

Done, most important first: CameraLoops (the part every installation runs), RtspCapture,
FrameQueue, MotionEvents (the footage), TriageBus, VlmRouter, HealthWatchdog; then AlertPolicy
and AlertDispatch, Guidance, ActionRuntime, AlertPath and Identity; HomeClient, CameraFeeds and
the memory graph; the abstract specifications of the frame queue and of a graph client; and
the theorems of section 5.

What a continuation would take up:

1. Theorems: the safety properties of section 3 that hold on the runs' instances and are in no
   run (`OneOpenSession`, `FamiliesAreKept` and `CacheIsCurrent` of Guidance, `FeedbackIsBacked`
   and `RuleAuditIsTrue` of AlertPath, `NothingSlipsTheGate` of AlertDispatch), `NoEarlyRepeat`
   for a cache that is not full, and type correctness of the modules that have no such theorem.
2. The identity router: votes, tracks and scheduling in front of the Identity store.
3. Abstract specifications: RtspCapture and CameraLoops together implement "a set of wanted
   cameras and a set of capturing ones"; TriageBus implements a bag of events each of which
   is forwarded, shed or reported.
4. Composition of AlertDispatch with HealthWatchdog, whose active modes it takes as inputs.

## 8. Not modelled

* Vision pipelines (detection, face, gait, body, pets, tiling, markup): numeric code.
* VLM backends, adapters, the HA integration, HTML pages: translation and presentation; in the
  models a backend answers or fails, an adapter sends events, a handler is the action it does.
* The identity router, fusion and scheduling; drift detection; the rule parser (a language
  model); of the memory service `store.py` (sessions, rule retrieval) and retention; the
  adapter registry; the process supervisor; the retention store; the discovery report and the
  area resolver; the idempotency cache and the clip writer.
* The REST helpers of the HA client that keep no state (signed URLs, service calls, fired
  events): where they are called they succeed, fail, or fail after they took effect.
* The RTSP-direct `CameraLoop` of `camera_loop.py`, which shares no state with the HA loops.
* In core, the tracker of the last responder, the remediation registry, deeper assessments.
* In Identity, Euclidean norms (the weights are normalised by their sum), a change of the
  embedding model, confidences and rankings, errors of SQLite.  The live cache is not rebuilt
  after a restart, as in the code.
* Provisioning of JetStream streams and `Bus.connect`.
* Telemetry, logging, metrics other than those the code itself relies on.
* `event.json` as a file that can be half written: a manifest is one value here.
* What a language model answers: any proposal of the instance, any number of tool rounds.
