---------------------------- MODULE AlertPolicy ----------------------------
(***************************************************************************)
(* What services/core decides about an alert without keeping any state:    *)
(* which rules fire (RuleEvaluator), what survives of them                 *)
(* (ConflictResolver), how loud the alert is for whom (TierRouter,         *)
(* OccupancyRouter, QuietHours), what may be done to devices while parts   *)
(* of the system have failed (PolicyGate, SafeDefaultsMatrix), and the     *)
(* events ActionDispatcher.plan makes of it.                               *)
(*                                                                         *)
(* Confidences are per cents, times are hours, tiers are 0..4.  A window   *)
(* is <<>> (none) or <<first hour, last hour>>.                            *)
(***************************************************************************)
EXTENDS Integers, FiniteSets, SequencesExt

CONSTANTS
  Household,  \* the residents, in the order of the list given to plan()
  Prefs,      \* resident -> [quiet, vacation, emergencyOnly]
  Rules,      \* rule ids
  Rule        \* rule id -> its RuleRecord

Modes   == {"F1", "F2", "F3", "F4", "F5", "F6", "F7", "F8", "F9", "F10"}
Silent  == 0
InApp   == 1
Push    == 2
Wake    == 3
Emergency == 4
Skipped == -1   \* no RouteTarget for the resident

\* Both quiet hours and a rule's active_hours may wrap around midnight.
InWindow(w, hour) ==
  /\ w # <<>>
  /\ IF w[1] <= w[2] THEN hour \in w[1]..w[2] ELSE hour >= w[1] \/ hour <= w[2]

-----------------------------------------------------------------------------
(* Rules.                                                                  *)

\* The rule fires in the context c: not deleted, not suppressed, sure enough,
\* at its time, on its subject, in its place, with its labels and contexts.
Fires(r, c) ==
  /\ ~r.deleted /\ r.suppressUntil <= c.hour
  /\ c.confidence >= r.confidence
  /\ r.hours = <<>> \/ InWindow(r.hours, c.hour)
  /\ r.days = {} \/ c.day \in r.days
  /\ \A x \in r.exclusions : x.day = c.day => ~InWindow(x.hours, c.hour)
  /\ r.subject \in {"any", c.subject}
  /\ r.known \in {"any", c.known, c.actor}
  /\ r.location = "any" \/ r.location \in c.places
  /\ r.labels \subseteq c.labels /\ r.excluded \cap c.labels = {}
  /\ r.contexts \subseteq c.contexts

Firing(c) == {r \in Rules : Fires(Rule[r], c)}

ScopePriority == [zone |-> 0, camera |-> 1, area |-> 2, journey |-> 3, composite |-> 4, global |-> 5]
SeverityRank  == [info |-> 0, warning |-> 1, alert |-> 2]

SuppressTargets(r) == {a.rule : a \in {x \in ToSet(Rule[r].actions) : x.type = "suppress"}}

\* Only the most specific scope stays; its rules may cancel each other.
Winners(firing) ==
  LET top == SelectSeq(firing, LAMBDA r : \A q \in ToSet(firing) :
                ScopePriority[Rule[r].scope] <= ScopePriority[Rule[q].scope])
  IN  SelectSeq(top, LAMBDA r : \A q \in ToSet(top) : r \notin SuppressTargets(q))

Severity(winners) ==
  CHOOSE s \in DOMAIN SeverityRank :
    /\ s \in {"info"} \cup {Rule[r].severity : r \in ToSet(winners)}
    /\ \A r \in ToSet(winners) : SeverityRank[Rule[r].severity] <= SeverityRank[s]

\* What makes two actions the same for _merge_actions.  No action has a device.
Key(a) == <<a.type, a.targets, a.rule>>

\* _merge_actions: of the actions with one key the first.
Merge(actions) ==
  FoldLeft(LAMBDA kept, a : IF \E k \in ToSet(kept) : Key(k) = Key(a) THEN kept ELSE Append(kept, a),
           <<>>, actions)

Resolution(firing) ==
  LET winners == Winners(firing)
  IN  [winners |-> winners, severity |-> Severity(winners),
       actions |-> Merge(FlattenSeq([i \in DOMAIN winners |-> Rule[winners[i]].actions]))]

-----------------------------------------------------------------------------
(* Tiers and routing.                                                      *)

AtMost(x, y)  == IF x < y THEN x ELSE y
AtLeast(x, y) == IF x > y THEN x ELSE y

TierFor(criticality, confidence, severity, urgent) ==
  IF urgent \/ confidence >= 98 THEN Emergency
  ELSE IF criticality = "alert" /\ (confidence >= 92 \/ severity = "alert") THEN Wake
  ELSE IF criticality \in {"warning", "alert"} /\ confidence >= 85 THEN Push
  ELSE IF confidence >= 70 THEN InApp
  ELSE Silent

\* OccupancyRouter.route for one resident.
Route(r, base, s) ==
  LET bumped == IF Prefs[r].vacation THEN AtMost(base + 1, Emergency) ELSE base
  IN  IF Prefs[r].emergencyOnly /\ bumped = Push THEN Skipped
      ELSE IF s.criticality = "alert" /\ s.home = {} THEN AtLeast(bumped, Wake)
      ELSE IF s.criticality = "alert" /\ r \in s.away /\ bumped = Push THEN Wake
      ELSE bumped

\* QuietHours.apply: only a push is made silent.
IsSilent(r, tier, s) == tier = Push /\ ~s.forceAudio /\ InWindow(Prefs[r].quiet, s.hour)

-----------------------------------------------------------------------------
(* The policy gate.                                                        *)

PolicyGated == {"lock.lock", "lock.unlock", "alarm_control_panel.alarm_arm_home",
                "alarm_control_panel.alarm_arm_away", "alarm_control_panel.alarm_arm_night"}
HardBlocked == {"alarm_control_panel.alarm_disarm", "siren.turn_on", "cover.open_cover", "lock.open"}

\* SERVICE_ACTION_CLASS; the other services are not constrained by the floor.
ActionClass(service) ==
  CASE service \in {"light.turn_on", "light.turn_off", "switch.turn_on", "switch.turn_off",
                    "scene.turn_on"} -> "lights"
    [] service \in {"media_player.play_media", "tts.speak"} -> "speaker"
    [] service \in PolicyGated \ {"lock.unlock"} -> "lock"
    [] service \in {"lock.unlock", "lock.open", "alarm_control_panel.alarm_disarm",
                    "cover.open_cover"} -> "unlock"
    [] service = "siren.turn_on" -> "siren"
    [] OTHER -> "unmapped"

\* SAFE_DEFAULTS, row by row.
Verdict(mode, class) ==
  CASE mode = "F5" -> "block"
    [] mode = "F4" /\ class # "notifications" -> "block"
    [] mode \in {"F1", "F3"} /\ class \in {"lock", "unlock", "siren"} -> "block"
    [] mode \in {"F6", "F7"} /\ class \in {"unlock", "siren"} -> "block"
    [] mode \in {"F6", "F7"} /\ class = "lock" -> "conditional"
    [] OTHER -> "allow"

\* Mutant: all active modes have to agree before something is blocked.
AllAgree(class, modes) ==
  IF modes # {} /\ \A m \in modes : Verdict(m, class) = "block" THEN "block"
  ELSE IF \E m \in modes : Verdict(m, class) = "conditional" THEN "conditional"
  ELSE "allow"

\* SafeDefaultsMatrix.permission: the most restrictive verdict of the active modes.
Permission(class, modes) ==
  IF \E m \in modes : Verdict(m, class) = "block" THEN "block"
  ELSE IF \E m \in modes : Verdict(m, class) = "conditional" THEN "conditional"
  ELSE "allow"

\* PolicyGate._base_service_decision.
BaseDisposition(service, approved) ==
  CASE service \in HardBlocked -> "blocked"
    [] service \in PolicyGated /\ ~approved -> "gated"
    [] OTHER -> "auto"

\* PolicyGate._apply_failure_floor; a pre-approval counts only where it was asked for.
Disposition(service, approved, modes) ==
  LET base  == BaseDisposition(service, approved)
      class == ActionClass(service)
      perm  == Permission(class, modes)
  IN  IF modes = {} \/ class = "unmapped" \/ perm = "allow" THEN base
      ELSE IF perm = "block" THEN "blocked"
      ELSE IF base = "auto" /\ ~(service \in PolicyGated /\ approved) THEN "gated"
      ELSE base

Strictness == [auto |-> 0, gated |-> 1, blocked |-> 2]

-----------------------------------------------------------------------------
(* ActionDispatcher.plan.                                                  *)

Event(type, tier, to, service, gate) ==
  [type |-> type, tier |-> tier, to |-> to, service |-> service, gate |-> gate]

\* A resident's notification; the silent flag of the RouteTarget goes no further.
Notifications(r, tier) ==
  (IF tier = Wake THEN <<Event("speak", tier, {r}, "none", FALSE)>> ELSE <<>>)
  \o (IF tier > Silent THEN <<Event("push", tier, {r}, "none", FALSE)>> ELSE <<>>)

\* The events of one action that survived; notify, ask and escalate leave none.
DeviceEvents(a, tier, residents, approved, modes) ==
  LET d == Disposition(a.service, approved, modes)
  IN  CASE a.type = "speak" -> <<Event("speak", tier, {}, "none", FALSE)>>
        [] a.type = "ha_service_call" /\ d = "blocked" ->
             <<Event("push", Push, {"all_residents"}, a.service, FALSE)>>
        [] a.type = "ha_service_call" /\ d = "gated" ->
             <<Event("ha_service_call", tier, {}, a.service, TRUE),
               Event("ask", Push, residents, a.service, FALSE)>>
        [] a.type = "ha_service_call" /\ d = "auto" ->
             <<Event("ha_service_call", tier, {}, a.service, FALSE)>>
        [] OTHER -> <<>>

BaseTier(s, resolution) == TierFor(s.criticality, s.confidence, resolution.severity, s.urgent)

PlannedEvents(s, resolution, modes) ==
  LET base    == BaseTier(s, resolution)
      reached == {r \in ToSet(Household) : Route(r, base, s) # Skipped}
      tell(i) == Notifications(Household[i], Route(Household[i], base, s))
      act(i)  == LET a == resolution.actions[i]
                 IN  DeviceEvents(a, base, reached, a.service \in s.approved, modes)
  IN  FlattenSeq([i \in DOMAIN Household |-> tell(i)])
      \o FlattenSeq([i \in DOMAIN resolution.actions |-> act(i)])

=============================================================================
