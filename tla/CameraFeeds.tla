---------------------------- MODULE CameraFeeds ----------------------------
(***************************************************************************)
(* From the camera entities of Home Assistant to the URLs the preprocessor *)
(* captures: discovery groups entities into devices and picks a stream and *)
(* motion sensors, the user's overrides win, the reconciler starts, stops  *)
(* and restarts loops and tells the preprocessor, over two NATS subjects,  *)
(* which URL to capture, found through a chain of credential providers.    *)
(* What the agent knows of Home Assistant is HAClient's state cache, which *)
(* is filled by the first answer, by answers about single entities and by  *)
(* the events that arrive while the WebSocket is connected.                *)
(*                                                                         *)
(* An entity is the set of words of its slug, a device the set of words    *)
(* that is left when stream and sensor words are dropped.  How loops start *)
(* and stop is in CameraLoops, how captures do in RtspCapture; here a loop *)
(* is its spec, a capture its URL.                                         *)
(***************************************************************************)
EXTENDS Naturals, FiniteSets, SequencesExt

CONSTANTS
  CameraEntities, \* camera.* entities there can be
  Sensors,      \* binary_sensor.* entities
  Forms,        \* what the user may post: override entries
  WithSource,   \* cameras whose integration gives them a stream_source
  EnvDevices,   \* devices with a URL in the preprocessor's environment
  Reconciles,   \* coroutines of _reconcile_discovery that may overlap
  MaxChanges,   \* bound on edits, changes of entities, URLs and credentials
  MaxFaults     \* bound on restarts, failed queries and failed publishes

VARIABLES
  home,         \* camera -> "idle", "unavailable" or "absent" in HA
  source,       \* camera -> version of its stream_source attribute, 0: none
  file,         \* device -> version of its entry in the credentials file, 0: none
  overrides,    \* adapter_overrides.json: device -> entry
  changes, faults,
  pc,           \* reconcile -> the await it is suspended at
  target,       \* reconcile -> device -> spec
  todo,         \* reconcile -> publishes that are left
  url,          \* reconcile -> the URL resolved for the first of them
  running,      \* Reconciler._running: device -> spec
  entity,       \* StreamSourceAttrProvider._device_to_entity
  linked,       \* whether the WebSocket is connected and subscribed
  cache,        \* HAClient._state_cache: the cameras' states as they were told,
                \*   and the sensors that are in it
  publisher,    \* whether boot connected one
  wire,         \* subject -> messages that are not handled
  preprocessor, \* "down", "bootstrap" or "up"
  envLeft,      \* devices the bootstrap has still to add
  captures,     \* RTSPCaptureSupervisor._tasks: device -> URL
  newest        \* history: device -> when its latest captured URL was resolved

homeVars  == <<home, source, file, overrides>>
clientVars == <<linked, cache>>
agentVars == <<pc, target, todo, url, running, entity, publisher, clientVars>>
nodeVars  == <<wire, preprocessor, envLeft, captures, newest>>
feedVars  == <<homeVars, changes, faults, agentVars, nodeVars>>

-----------------------------------------------------------------------------
(* Discovery: what entities say.                                           *)

StreamStopTokens ==
  {"camera", "cam", "stream", "mainstream", "substream", "main", "sub", "hd", "sd",
   "profile", "profile000", "profile001", "high", "low", "fluent", "clear", "alarm",
   "alert", "alerts", "sensor", "binary", "detected", "detection"}
Numbers == {"1", "2", "3", "4"}
MotionKeywords ==
  {"motion", "person", "vehicle", "animal", "package", "pet", "occupancy",
   "intrusion", "ding"}

MeaningfulTokens(slug) == slug \ (StreamStopTokens \cup MotionKeywords \cup Numbers)

\* Entities without a word of their own are devices of their own.
DeviceOf(c) == IF MeaningfulTokens(c) = {} THEN c ELSE MeaningfulTokens(c)
Devices     == {DeviceOf(c) : c \in CameraEntities}

Has(slug, patterns) == \E p \in patterns : p \subseteq slug

StreamExcluded(c) ==
  Has(c, {{"profile"}, {"profile000"}, {"profile001"}, {"sub", "2"}, {"sub", "3"},
          {"sub", "4"}})
StreamPreference ==
  <<"fluent", "sub", "low", "main", "mainstream", "clear", "high">>
Rank(c) ==
  LET hints == {i \in DOMAIN StreamPreference : StreamPreference[i] \in c}
  IN IF hints = {} THEN Len(StreamPreference) + 1 ELSE Min(hints)

Noisy == {{"motion", "alarm"}, {"video", "motion", "info"}, {"cell", "motion", "detection"}}
Classified ==
  {{"smart", "motion", "human"}, {"smart", "motion", "vehicle"},
   {"smart", "motion", "animal"}, {"person", "detection"}, {"vehicle", "detection"},
   {"pet", "detection"}, {"animal", "detection"}, {"package", "detection"},
   {"intrusion", "area"}}
Kinds == {{"person"}, {"vehicle"}, {"animal"}, {"pet"}, {"package"}}

\* Cameras as get_states shows them, in an answer of HA or out of the cache.
Missing == [state |-> "absent", source |-> 0]
AtHome(c) ==
  IF home[c] = "absent" THEN Missing ELSE [state |-> home[c], source |-> source[c]]
Answer == [cameras |-> [c \in CameraEntities |-> AtHome(c)], sensors |-> Sensors]
NotAsked == [cameras |-> [c \in CameraEntities |-> Missing], sensors |-> {}]

\* get_states: the cache, if there is anything in it.
States == IF cache = NotAsked THEN Answer ELSE cache

Listed(d) ==
  {c \in CameraEntities : DeviceOf(c) = d /\ States.cameras[c] # Missing}

\* Sensors that share a word with one of the device's cameras.
MotionCandidates(d) ==
  {s \in States.sensors : s \cap MotionKeywords # {} /\
     \E c \in Listed(d) : MeaningfulTokens(c) \cap MeaningfulTokens(s) # {}}

NoStream == {}
PickStream(d) ==
  LET usable == {c \in Listed(d) : States.cameras[c].state = "idle" /\ ~ StreamExcluded(c)}
  IN IF usable = {} THEN NoStream
     ELSE CHOOSE c \in usable : \A o \in usable : Rank(c) <= Rank(o)

PickMotions(sensors) ==
  LET eligible == {s \in sensors : ~ Has(s, Noisy)}
      ai       == {s \in eligible : Has(s, Classified)}
      fallback == {s \in eligible : Has(s, Kinds)}
  IN IF ai # {} THEN ai ELSE IF fallback # {} THEN fallback ELSE eligible

\* An override entry; a field that is unset leaves the choice to discovery.
NoEntry == [enabled |-> "unset", stream |-> NoStream, motion |-> {}, cooldown |-> 0]
DefaultCooldown == 10
NoSpec  == [camera |-> NoStream, motions |-> {}, cooldown |-> 0]

Decision(d) ==
  LET ov     == overrides[d]
      stream == IF ov.stream # NoStream THEN ov.stream ELSE PickStream(d)
  IN IF Listed(d) = {} \/ ov.enabled = "false" \/ stream = NoStream THEN NoSpec
     ELSE [camera   |-> stream,
           motions  |-> IF ov.motion # {} THEN ov.motion
                        ELSE PickMotions(MotionCandidates(d)),
           cooldown |-> IF ov.cooldown # 0 THEN ov.cooldown ELSE DefaultCooldown]

\* The page offers the generic alarm when all chosen sensors are classified.
SuggestedMotions(d) ==
  {s \in MotionCandidates(d) : {"motion", "alarm"} \subseteq s /\
     Decision(d).motions # {} /\ \A m \in Decision(d).motions : Has(m, Classified)}

Decisions == [d \in Devices |-> Decision(d)]

\* Mutant: only another stream counts as a change.
DiffersInStream(a, b) == a.camera # b.camera

SpecsDiffer(a, b) == a # b

-----------------------------------------------------------------------------

NoUrl      == [via |-> "none", version |-> 0, at |-> 0]
EnvUrl     == [via |-> "env", version |-> 0, at |-> 0]
Urls       == [via : {"attribute", "file"}, version : 1..MaxChanges + 1,
               at : 0..MaxChanges] \cup {NoUrl, EnvUrl}
Specs      == [camera : CameraEntities \cup {NoStream}, motions : SUBSET Sensors, cooldown : Nat]
Publishes  == [kind : {"configured", "removed"}, device : Devices]
Messages   == [device : Devices, url : Urls]

FeedsTypeOK ==
  /\ home \in [CameraEntities -> {"idle", "unavailable", "absent"}]
  /\ source \in [CameraEntities -> 0..MaxChanges + 1]
  /\ file \in [Devices -> 0..MaxChanges + 1]
  /\ DOMAIN overrides = Devices
  /\ changes \in 0..MaxChanges /\ faults \in 0..MaxFaults
  /\ pc \in [Reconciles -> {"idle", "discover", "lock", "publish", "send"}]
  /\ \A r \in Reconciles : target[r] \in [Devices -> Specs]
  /\ \A r \in Reconciles : todo[r] \in Seq(Publishes) /\ url[r] \in Urls
  /\ running \in [Devices -> Specs]
  /\ entity \in [Devices -> CameraEntities \cup {NoStream}]
  /\ publisher \in BOOLEAN /\ linked \in BOOLEAN
  /\ cache.cameras \in [CameraEntities ->
       [state : {"idle", "unavailable", "absent"}, source : 0..MaxChanges + 1]]
  /\ cache.sensors \subseteq Sensors
  /\ wire.configured \in Seq(Messages) /\ wire.removed \in Seq(Devices)
  /\ preprocessor \in {"down", "bootstrap", "up"}
  /\ envLeft \subseteq EnvDevices
  /\ captures \in [Devices -> Urls]
  /\ newest \in [Devices -> 0..MaxChanges]

Nothing == [d \in Devices |-> NoSpec]

FeedsInit ==
  /\ home = [c \in CameraEntities |-> "idle"]
  /\ source = [c \in CameraEntities |-> IF c \in WithSource THEN 1 ELSE 0]
  /\ file = [d \in Devices |-> 0]
  /\ overrides \in [Devices -> Forms \cup {NoEntry}]
  /\ changes = 0 /\ faults = 0
  /\ \E r \in Reconciles :
       pc = [q \in Reconciles |-> IF q = r THEN "discover" ELSE "idle"]
  /\ target = [r \in Reconciles |-> Nothing]
  /\ todo = [r \in Reconciles |-> <<>>]
  /\ url = [r \in Reconciles |-> NoUrl]
  /\ running = Nothing
  /\ entity = [d \in Devices |-> NoStream]
  /\ publisher = TRUE
  /\ linked = FALSE /\ cache = NotAsked
  /\ wire = [configured |-> <<>>, removed |-> <<>>]
  /\ preprocessor = "bootstrap" /\ envLeft = EnvDevices
  /\ captures = [d \in Devices |-> NoUrl]
  /\ newest = [d \in Devices |-> 0]

-----------------------------------------------------------------------------
(* Home Assistant and the operator.                                        *)

Change == changes < MaxChanges /\ changes' = changes + 1

\* The event of a change reaches a client that is connected; that an entity was
\* removed is passed over.
Told(c) ==
  /\ cache' = IF linked /\ home'[c] # "absent"
              THEN [cache EXCEPT !.cameras[c] = AtHome(c)'] ELSE cache
  /\ UNCHANGED <<pc, target, todo, url, running, entity, publisher, linked>>

EntityChanges(c, s) ==
  /\ Change /\ home[c] # s
  /\ home' = [home EXCEPT ![c] = s]
  /\ UNCHANGED <<source, file, overrides, faults, nodeVars>>
  /\ Told(c)

SourceChanges(c) ==
  /\ Change /\ c \in WithSource
  /\ source' = [source EXCEPT ![c] = changes + 2]
  /\ UNCHANGED <<home, file, overrides, faults, nodeVars>>
  /\ Told(c)

\* A sensor turns on or off, which is an event as well.
SensorReports(s) ==
  /\ linked /\ s \notin cache.sensors
  /\ cache' = [cache EXCEPT !.sensors = @ \cup {s}]
  /\ UNCHANGED <<homeVars, changes, faults, pc, target, todo, url, running, entity,
                 publisher, linked, nodeVars>>

FileChanges(d) ==
  /\ Change
  /\ file' = [file EXCEPT ![d] = changes + 2]
  /\ UNCHANGED <<home, source, overrides, faults, agentVars, nodeVars>>

\* The forms of the page: a partial update of the entry, which is saved before
\* discovery runs again.  Blank fields of the override form clear theirs.
Enable(entry, enabled) == [entry EXCEPT !.enabled = enabled]
Override(entry, form)  == [form EXCEPT !.enabled = entry.enabled]

Edit(r, d, entry) ==
  /\ Change /\ pc[r] = "idle" /\ entry # overrides[d]
  /\ overrides' = [overrides EXCEPT ![d] = entry]
  /\ pc' = [pc EXCEPT ![r] = "discover"]
  /\ UNCHANGED <<home, source, file, faults, target, todo, url, running, entity,
                 publisher, clientVars, nodeVars>>

DiscoveryEnable(r, d, enabled)  == Edit(r, d, Enable(overrides[d], enabled))
DiscoveryOverride(r, d, form)   == Edit(r, d, Override(overrides[d], form))
DiscoveryReset(r, d)            == Edit(r, d, NoEntry)
UseGenericMotion(r, d, s)       == Edit(r, d, [overrides[d] EXCEPT !.motion = {s}])

-----------------------------------------------------------------------------
(* The ha-agent.                                                           *)

\* The WebSocket connects again and again; what happened meanwhile is not asked for.
Connects ==
  /\ ~ linked /\ linked' = TRUE
  /\ UNCHANGED <<homeVars, changes, faults, pc, target, todo, url, running, entity,
                 publisher, cache, nodeVars>>

Disconnects ==
  /\ linked /\ linked' = FALSE
  /\ faults < MaxFaults /\ faults' = faults + 1
  /\ UNCHANGED <<homeVars, changes, pc, target, todo, url, running, entity,
                 publisher, cache, nodeVars>>

\* The periodic task, Refresh and the switch toggle.
Rediscover(r) ==
  /\ pc[r] = "idle"
  /\ pc' = [pc EXCEPT ![r] = "discover"]
  /\ UNCHANGED <<homeVars, changes, faults, target, todo, url, running, entity,
                 publisher, clientVars, nodeVars>>

\* The states are there, or HA was asked and failed, and the error is shown on the
\* page.  The motion switches are looked up in the cache; the entities of the
\* targets are registered and apply asks for its lock.
Discover(r) ==
  /\ pc[r] = "discover"
  /\ \/ /\ cache' = States
        /\ target' = [target EXCEPT ![r] = Decisions]
        /\ entity' = [d \in Devices |-> IF Decisions[d] # NoSpec THEN Decisions[d].camera
                                        ELSE entity[d]]
        /\ pc' = [pc EXCEPT ![r] = "lock"]
        /\ UNCHANGED faults
     \/ /\ cache = NotAsked
        /\ faults < MaxFaults /\ faults' = faults + 1
        /\ pc' = [pc EXCEPT ![r] = "idle"]
        /\ UNCHANGED <<target, entity, cache>>
  /\ UNCHANGED <<homeVars, changes, todo, url, running, publisher, linked, nodeVars>>

Publishing(r) == pc[r] \in {"publish", "send"}

Tell(kind, devices) ==
  SetToSeq({[kind |-> kind, device |-> d] : d \in devices})

\* What the lock guards, but for the waiting: loops stop, start and restart, and
\* the diff is published, configured cameras before removed ones.
Reconciled(r) ==
  LET want    == target[r]
      stopped == {d \in Devices : running[d] # NoSpec /\ want[d] = NoSpec}
      changed == {d \in Devices : want[d] # NoSpec /\ SpecsDiffer(running[d], want[d])}
      news    == IF publisher THEN Tell("configured", changed) \o Tell("removed", stopped)
                 ELSE <<>>
  IN /\ running' = [d \in Devices |-> IF d \in stopped \cup changed THEN want[d]
                                      ELSE running[d]]
     /\ todo' = [todo EXCEPT ![r] = news]
     /\ pc' = [pc EXCEPT ![r] = IF news = <<>> THEN "idle" ELSE "publish"]
     /\ target' = [target EXCEPT ![r] = Nothing]
     /\ UNCHANGED <<homeVars, changes, faults, url, entity, publisher, clientVars,
                    nodeVars>>

\* Mutant: the lock is given up before the diff is published.
ApplyUnlocked(r) == pc[r] = "lock" /\ Reconciled(r)

Apply(r) ==
  /\ pc[r] = "lock"
  /\ \A q \in Reconciles : ~ Publishing(q)
  /\ Reconciled(r)

\* The publish at hand is over, whatever became of it.
Over(r) ==
  /\ todo' = [todo EXCEPT ![r] = Tail(@)]
  /\ url' = [url EXCEPT ![r] = NoUrl]
  /\ pc' = [pc EXCEPT ![r] = IF Len(todo[r]) = 1 THEN "idle" ELSE "publish"]

\* The attribute of the registered entity, then the credentials file.  An entry
\* of the file that does not say its vendor needs one in the camera's name, and a
\* vendor needs a template.
Templates == {"reolink", "dahua"}
Resolved(d, state) ==
  IF state.source # 0
  THEN [via |-> "attribute", version |-> state.source, at |-> changes]
  ELSE IF file[d] # 0 /\ running[d].camera \cap Templates # {}
  THEN [via |-> "file", version |-> file[d], at |-> changes]
  ELSE NoUrl

\* get_state: out of the cache, or asked for and put there; `state` is Missing for
\* an entity that HA does not know, and when it cannot be asked.
Fetched(d, state) ==
  LET c == entity[d] IN
  \/ /\ c = NoStream \/ cache.cameras[c] # Missing
     /\ state = IF c = NoStream THEN Missing ELSE cache.cameras[c]
     /\ UNCHANGED <<cache, faults>>
  \/ /\ c # NoStream /\ cache.cameras[c] = Missing
     /\ \/ /\ state = AtHome(c)
           /\ cache' = [cache EXCEPT !.cameras[c] = state]
           /\ UNCHANGED faults
        \/ /\ faults < MaxFaults /\ faults' = faults + 1
           /\ state = Missing
           /\ UNCHANGED cache

\* publish_configured: without a URL nothing is said.
Resolve(r) ==
  /\ pc[r] = "publish" /\ Head(todo[r]).kind = "configured"
  /\ LET d == Head(todo[r]).device IN
     \E state \in {Missing} \cup {AtHome(c) : c \in CameraEntities}
                 \cup {cache.cameras[c] : c \in CameraEntities} :
       /\ Fetched(d, state)
       /\ IF Resolved(d, state) = NoUrl
          THEN Over(r)
          ELSE /\ url' = [url EXCEPT ![r] = Resolved(d, state)]
               /\ pc' = [pc EXCEPT ![r] = "send"]
               /\ UNCHANGED todo
  /\ UNCHANGED <<homeVars, changes, target, running, entity, publisher, linked,
                 nodeVars>>

\* NATS delivers to who is subscribed, and raises without a connection, which is
\* logged.
SentConfig(p, u) ==
  \/ /\ preprocessor # "down"
     /\ wire' = IF p.kind = "configured"
                THEN [wire EXCEPT !.configured = Append(@, [device |-> p.device, url |-> u])]
                ELSE [wire EXCEPT !.removed = Append(@, p.device)]
     /\ UNCHANGED faults
  \/ preprocessor = "down" /\ UNCHANGED <<wire, faults>>
  \/ faults < MaxFaults /\ faults' = faults + 1 /\ UNCHANGED wire

PublishConfig(r) ==
  /\ \/ pc[r] = "send"
     \/ pc[r] = "publish" /\ Head(todo[r]).kind = "removed"
  /\ SentConfig(Head(todo[r]), url[r])
  /\ Over(r)
  /\ UNCHANGED <<homeVars, changes, target, running, entity, publisher, clientVars,
                 preprocessor, envLeft, captures, newest>>

\* The add-on starts anew; a publisher that cannot connect then is done without.
AgentRestarts(r, connected) ==
  /\ faults < MaxFaults /\ faults' = faults + 1
  /\ pc' = [q \in Reconciles |-> IF q = r THEN "discover" ELSE "idle"]
  /\ target' = [q \in Reconciles |-> Nothing]
  /\ todo' = [q \in Reconciles |-> <<>>]
  /\ url' = [q \in Reconciles |-> NoUrl]
  /\ running' = Nothing
  /\ entity' = [d \in Devices |-> NoStream]
  /\ publisher' = connected
  /\ linked' = FALSE /\ cache' = NotAsked
  /\ UNCHANGED <<homeVars, changes, nodeVars>>

-----------------------------------------------------------------------------
(* The preprocessor, with the rtsp backend.                                *)

Listening == preprocessor # "down"

\* Each subject has a task of its own that hands its messages on in order.
OnConfigured ==
  /\ Listening /\ wire.configured # <<>>
  /\ LET m == Head(wire.configured) IN
     /\ captures' = [captures EXCEPT ![m.device] = m.url]
     /\ newest' = [newest EXCEPT ![m.device] = Max({@, m.url.at})]
  /\ wire' = [wire EXCEPT !.configured = Tail(@)]
  /\ UNCHANGED <<homeVars, changes, faults, agentVars, preprocessor, envLeft>>

OnRemoved ==
  /\ Listening /\ wire.removed # <<>>
  /\ captures' = [captures EXCEPT ![Head(wire.removed)] = NoUrl]
  /\ wire' = [wire EXCEPT !.removed = Tail(@)]
  /\ UNCHANGED <<homeVars, changes, faults, agentVars, preprocessor, envLeft, newest>>

\* It subscribes first, then adds the URLs of its environment one by one.
Subscribes ==
  /\ preprocessor = "down"
  /\ preprocessor' = "bootstrap" /\ envLeft' = EnvDevices
  /\ UNCHANGED <<homeVars, changes, faults, agentVars, wire, captures, newest>>

Bootstrap ==
  /\ preprocessor = "bootstrap"
  /\ IF envLeft = {}
     THEN preprocessor' = "up" /\ UNCHANGED <<envLeft, captures>>
     ELSE \E d \in envLeft :
            /\ captures' = [captures EXCEPT ![d] = EnvUrl]
            /\ envLeft' = envLeft \ {d}
            /\ UNCHANGED preprocessor
  /\ UNCHANGED <<homeVars, changes, faults, agentVars, wire, newest>>

Crashes ==
  /\ Listening /\ faults < MaxFaults /\ faults' = faults + 1
  /\ preprocessor' = "down" /\ envLeft' = {}
  /\ captures' = [d \in Devices |-> NoUrl]
  /\ wire' = [configured |-> <<>>, removed |-> <<>>]
  /\ UNCHANGED <<homeVars, changes, agentVars, newest>>

-----------------------------------------------------------------------------

Proceeds(r) == Discover(r) \/ Apply(r) \/ Resolve(r) \/ PublishConfig(r)

FeedsNext ==
  \/ \E c \in CameraEntities, s \in {"idle", "unavailable", "absent"} : EntityChanges(c, s)
  \/ \E c \in CameraEntities : SourceChanges(c)
  \/ \E s \in Sensors : SensorReports(s)
  \/ Connects \/ Disconnects
  \/ \E d \in Devices : FileChanges(d)
  \/ \E r \in Reconciles, d \in Devices :
       \/ \E enabled \in {"true", "false"} : DiscoveryEnable(r, d, enabled)
       \/ \E form \in Forms : DiscoveryOverride(r, d, form)
       \/ DiscoveryReset(r, d)
       \/ \E s \in SuggestedMotions(d) : UseGenericMotion(r, d, s)
  \/ \E r \in Reconciles : Rediscover(r) \/ Proceeds(r)
  \/ \E r \in Reconciles, connected \in BOOLEAN : AgentRestarts(r, connected)
  \/ OnConfigured \/ OnRemoved \/ Subscribes \/ Bootstrap \/ Crashes

FeedsSpec == FeedsInit /\ [][FeedsNext]_feedVars

\* Discovery runs again every five minutes, and HA and NATS answer or fail.
FeedsFairness ==
  \A r \in Reconciles : WF_feedVars(Rediscover(r)) /\ WF_feedVars(Proceeds(r))

FeedsFairSpec == FeedsSpec /\ FeedsFairness

-----------------------------------------------------------------------------
(* Properties.                                                             *)

\* Whatever reconciles overlap, messages are lost and processes restart, a
\* capture never goes back from a URL to one that was resolved before it.
NoOlderUrl ==
  [][\A d \in Devices : captures'[d] # captures[d] /\ captures'[d] \notin {NoUrl, EnvUrl} =>
       captures'[d].at >= newest[d]]_feedVars

\* Every change that the agent hears of, every edit of the overrides and every
\* restart ends in loops that run what discovery and the overrides of then make of
\* the cache.
LoopsFollowTheCache == <>[](running = Decisions)

-----------------------------------------------------------------------------
(* Claims of the code's documentation that the model refutes.              *)

Quiet ==
  /\ \A r \in Reconciles : pc[r] = "idle"
  /\ wire = [configured |-> <<>>, removed |-> <<>>]
  /\ preprocessor = "up"

\* "So the preprocessor's camera set tracks the Web UI Enable toggle": once all
\* is handled, no call failed and nothing restarted, a camera without a loop is not captured.
CapturesTrackTheToggle ==
  Quiet /\ faults = 0 => \A d \in Devices :
    running[d] = NoSpec => captures[d] \in {NoUrl, EnvUrl}

\* "Catches HA cameras the user added after the add-on started", without a restart:
\* discovery comes to say what it would of the states that HA has.
DiscoverySeesTheHome ==
  <>[]\A c \in CameraEntities : States.cameras[c] = AtHome(c)

\* "Restart with a new URL when the URL changes (e.g. HLS token refresh)."
RotationReachesCapture ==
  Quiet /\ faults = 0 /\ running = Decisions => \A d \in Devices :
    captures[d].via = "attribute" =>
      captures[d].version = cache.cameras[entity[d]].source

\* "Camera-config events from ha-agent can subsequently replace these" URLs of
\* the environment, and are not replaced by them.
EnvIsReplaced ==
  [][\A d \in Devices : captures'[d] = EnvUrl /\ captures[d] # EnvUrl =>
       captures[d] = NoUrl]_feedVars

=============================================================================
