-------------------------- MODULE MCAlertDispatch --------------------------
(***************************************************************************)
(* Model-checking instances of AlertDispatch: two residents, a rule book   *)
(* of the default pack's kinds, and situations by day and night, with and  *)
(* without somebody at home; and of CameraFeeds: a camera with two         *)
(* streams, of which one tells its URL, and two sensors.  The two share no *)
(* variable, so either is checked with the other at rest (`subject`).      *)
(***************************************************************************)
EXTENDS AlertDispatch, CameraFeeds

CONSTANTS smoke, parcel, hush, prowler, floodlight

VARIABLE subject

MCHousehold == <<"ann", "bob">>

MCPrefs ==
  [ann |-> [quiet |-> <<23, 7>>, vacation |-> FALSE, emergencyOnly |-> FALSE],
   bob |-> [quiet |-> <<>>, vacation |-> TRUE, emergencyOnly |-> TRUE]]

Act(type, service, rule) == [type |-> type, service |-> service, targets |-> {}, rule |-> rule]
Notify == [Act("notify", "none", "none") EXCEPT !.targets = {"all_residents"}]
Call(service) == Act("ha_service_call", service, "none")

AnyRule(scope, severity, actions) ==
  [deleted |-> FALSE, suppressUntil |-> 0, confidence |-> 70, hours |-> <<>>, days |-> {},
   exclusions |-> {}, subject |-> "any", known |-> "any", location |-> "any", labels |-> {},
   excluded |-> {}, contexts |-> {}, scope |-> scope, severity |-> severity, actions |-> actions]

MCRule ==
  (smoke :> [AnyRule("global", "alert", <<Notify, Act("escalate", "none", "none")>>)
               EXCEPT !.labels = {"smoke_alarm"}]) @@
  (parcel :> [AnyRule("area", "info", <<Notify>>)
               EXCEPT !.labels = {"package"}, !.location = "front_door", !.excluded = {"dog"}]) @@
  (hush :> [AnyRule("area", "info", <<Act("suppress", "none", parcel)>>)
               EXCEPT !.contexts = {"party"}, !.exclusions = {[day |-> "Mon", hours |-> <<9, 17>>]}]) @@
  (prowler :> [AnyRule("area", "alert", <<Call("lock.lock"), Act("speak", "none", "none")>>)
               EXCEPT !.hours = <<20, 6>>, !.known = "unknown", !.subject = "person"]) @@
  (floodlight :> [AnyRule("area", "warning", <<Call("siren.turn_on"), Call("light.turn_on")>>)
               EXCEPT !.subject = "person", !.days = {"Mon", "Tue"}])

Base ==
  [hour |-> 2, day |-> "Mon", places |-> {"front_door"}, subject |-> "person", known |-> "unknown",
   actor |-> "none", labels |-> {}, contexts |-> {}, confidence |-> 90, criticality |-> "alert",
   urgent |-> FALSE, forceAudio |-> FALSE, onTimeout |-> FALSE, home |-> {"ann"}, away |-> {"bob"},
   approved |-> {}]

MCModeSets == {{}, {"F7"}, {"F7", "F8"}, {"F1", "F7"}}

MCSituations ==
  {[Base EXCEPT !.day = d, !.home = {}, !.away = {"ann", "bob"}, !.approved = a] :
     d \in {"Mon", "Wed"}, a \in {{}, {"lock.lock"}}}
  \cup {[Base EXCEPT !.labels = {"package"} \cup x, !.subject = "none", !.criticality = c,
                     !.contexts = p, !.onTimeout = TRUE] :
          x \in {{}, {"smoke_alarm"}}, c \in {"info", "warning"}, p \in {{}, {"party"}}}
  \cup {[Base EXCEPT !.criticality = "warning", !.hour = 12],
        [Base EXCEPT !.subject = "animal", !.urgent = TRUE]}

MCYard       == {"reolink", "yard"}
MCFluent     == MCYard \cup {"fluent"}
MCClear      == MCYard \cup {"clear"}
MCEntities   == {MCFluent, MCClear}
MCSensors    == {MCYard \cup {"person", "detection"}, MCYard \cup {"motion", "alarm"}}
MCForms      == {[enabled |-> "unset", stream |-> MCClear, motion |-> {}, cooldown |-> 5]}
MCWithSource == {MCFluent}
MCEnv        == {MCYard}

allVars == <<subject, vars, feedVars>>

MCInit ==
  /\ Init /\ FeedsInit
  /\ \/ subject = "feeds"
     \/ subject = "alerts" /\ pc["periodic"] = "discover"
                           /\ overrides = [d \in Devices |-> NoEntry]

MCNext ==
  \/ subject = "alerts" /\ Next /\ UNCHANGED <<subject, feedVars>>
  \/ subject = "feeds" /\ FeedsNext /\ UNCHANGED <<subject, vars>>

\* FeedsFairSpec; what the run checks of AlertDispatch needs no fairness.
MCSpec ==
  /\ MCInit /\ [][MCNext]_allVars
  /\ \A r \in Reconciles :
       /\ WF_allVars(subject = "feeds" /\ Rediscover(r) /\ UNCHANGED <<subject, vars>>)
       /\ WF_allVars(subject = "feeds" /\ Proceeds(r) /\ UNCHANGED <<subject, vars>>)

\* With the fairness of FairSpec, for EveryAskEnds.
MCFairSpec ==
  /\ MCSpec
  /\ \A a \in Alerts : WF_allVars(subject = "alerts" /\ Elapse(a) /\ UNCHANGED <<subject, feedVars>>)
  /\ WF_allVars(subject = "alerts" /\ Tick /\ UNCHANGED <<subject, feedVars>>)
  /\ \A i \in 1..MaxAsks :
       WF_allVars(subject = "alerts" /\ i \in DOMAIN asked /\ Expire(i)
                    /\ UNCHANGED <<subject, feedVars>>)

\* LoopsFollowTheCache, of the behaviours in which CameraFeeds is not at rest: once
\* nothing changes any more, the camera loops that run, and their configuration, end
\* up as discovery and the user's overrides make them of the client's cache.
CacheIsFollowed == subject = "feeds" => LoopsFollowTheCache
=============================================================================
