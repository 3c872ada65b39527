----------------------------- MODULE AlertPath -----------------------------
(***************************************************************************)
(* What happens to an alert of the ha-agent once a camera loop records it: *)
(* the ring of recent alerts (AlertLog), the durable directory per event   *)
(* (EventStore), recognition folded in later (AlertEnricher), the decision *)
(* whether anybody is notified (TriageGate, StubReasoner), the fan-out to  *)
(* the notify services (AlertNotifier), the shortcut rules (RulesRuntime)  *)
(* and the user's dismissals and reports of false positives.               *)
(*                                                                         *)
(* Everything runs on one event loop.  An action is what runs between two  *)
(* awaits: of the preprocessor's frame window or image, of Home            *)
(* Assistant's answers.  A write of a file may fail.                       *)
(***************************************************************************)
EXTENDS Integers, Sequences, FiniteSets, SequencesExt

CONSTANTS
  Alerts,        \* alerts of camera loops
  Tests,         \* alerts of the "send test alert" button
  Kind,          \* alert -> what the sensor says it is
  Windows,       \* frame windows the preprocessor can answer with
  ServiceLists,  \* selections of notify services on the Notifications card
  Selected,      \* the selection at the start
  Policy,        \* ReasoningPolicy
  Rules,         \* the active shortcut rules, a sequence
  Fires,         \* rule -> alerts in its scope with its subject
  MaxEntries,    \* AlertLog.max_entries
  MaxFailures,   \* bound on the writes that fail
  MaxAlertEdits,      \* bound on what the user does
  MaxAlertRestarts,   \* bound on the restarts
  None

Ids      == Alerts \cup Tests
Services == UNION {Range(l) : l \in ServiceLists}

Meta == [triage : {"none", "alerted", "dismissed"}, enriched : BOOLEAN, dismissed : BOOLEAN]

ASSUME AlertPathAssumption ==
  /\ Alerts \cap Tests = {} /\ DOMAIN Kind = Ids /\ Selected \in ServiceLists
  /\ \A l \in ServiceLists : l \in Seq(Range(l))
  /\ None \notin Windows /\ None \notin ServiceLists /\ None \notin Meta
  /\ MaxEntries \in Nat \ {0} /\ MaxFailures \in Nat /\ MaxAlertEdits \in Nat /\ MaxAlertRestarts \in Nat

VARIABLES
  wired,     \* what on_record calls besides the stores: nothing yet, the gate, or the notifier
  ring,   \* AlertLog._entries
  saved,     \* alerts.json
  events,    \* event id -> its meta.json, or None
  files,     \* <<event id, "feedback" or "annotated">> that exist beside meta.json
  gate,      \* alert -> where TriageGate._evaluate is
  verdict,   \* alert -> what the reasoner decided
  enricher,  \* alert -> where AlertEnricher._enrich is
  services,  \* AlertNotifier.notify_services
  sending,   \* alert -> the services its notification was sent to, or None
  calls,     \* alert -> service -> calls of the service for it
  testing,   \* test alert -> where its handler is
  report,    \* test alert -> the results shown, or None
  todo,      \* alert -> rules that matched it and are not handled yet
  heard,     \* <<rule, alert>> Home Assistant got as kukiihome_alert
  matches,   \* the table rule_matches
  failures, alertEdits, alertRestarts

alertStores == <<ring, saved, events, files>>
notices == <<services, sending, calls, testing, report>>
audit == <<todo, heard, matches>>
bounds == <<failures, alertEdits, alertRestarts>>
pathVars == <<wired, alertStores, gate, verdict, enricher, notices, audit, bounds>>

PathTypeOK ==
  /\ wired \in {"none", "gate", "direct"}
  /\ \A l \in {ring, saved} : Len(l) <= MaxEntries
       /\ \A i \in DOMAIN l : l[i].id \in Ids /\ l[i].triage \in {"none", "alerted", "dismissed"}
  /\ events \in [Ids -> Meta \cup {None}]
  /\ files \subseteq Ids \X {"feedback", "annotated"}
  /\ gate \in [Ids -> {"none", "window", "open", "notify", "rules", "direct", "over", "lost"}]
  /\ verdict \in [Ids -> {"none", "alerted", "dismissed", "failed"}]
  /\ enricher \in [Ids -> {"none", "window", "image", "over", "lost"}]
  /\ services \in ServiceLists
  /\ sending \in [Ids -> ServiceLists \cup {None}]
  /\ calls \in [Ids -> [Services -> Nat]]
  /\ testing \in [Tests -> {"none", "calls", "over", "lost"}]
  /\ \A a \in Ids : IsSuffix(todo[a], SelectSeq(Rules, LAMBDA r : a \in Fires[r]))

PathInit ==
  /\ wired = "none"
  /\ ring = <<>> /\ saved = <<>>
  /\ events = [a \in Ids |-> None]
  /\ files = {}
  /\ gate = [a \in Ids |-> "none"]
  /\ verdict = [a \in Ids |-> "none"]
  /\ enricher = [a \in Ids |-> "none"]
  /\ services = Selected
  /\ sending = [a \in Ids |-> None]
  /\ calls = [a \in Ids |-> [s \in Services |-> 0]]
  /\ testing = [t \in Tests |-> "none"]
  /\ report = [t \in Tests |-> None]
  /\ todo = [a \in Ids |-> <<>>]
  /\ heard = {} /\ matches = {}
  /\ failures = 0 /\ alertEdits = 0 /\ alertRestarts = 0

-----------------------------------------------------------------------------
(* StubReasoner: a pure decision on what is in frame.                      *)

Surplus(boxes, identified) == IF boxes > identified THEN boxes - identified ELSE 0

HasIdentity(w) == w.known + w.guessed + w.cars + w.pets > 0
HasEvidence(w) == w # None /\ (HasIdentity(w) \/ w.boxes.person + w.boxes.car + w.boxes.animal > 0)

\* _subjects_from_evidence: a box that no identity accounts for is one more unknown
\* subject; without evidence the sensor's classification counts.
InFrame(a, w) ==
  IF HasEvidence(w)
  THEN [unknown |-> w.guessed + Surplus(w.boxes.person, w.known + w.guessed), known |-> w.known,
        vehicles |-> w.cars + Surplus(w.boxes.car, w.cars), animals |-> w.pets + w.boxes.animal]
  ELSE [unknown |-> IF Kind[a] = "person" THEN 1 ELSE 0, known |-> 0,
        vehicles |-> IF Kind[a] = "vehicle" THEN 1 ELSE 0, animals |-> IF Kind[a] = "animal" THEN 1 ELSE 0]

\* _decide and should_notify: an unknown person comes before everything else.
Notifies(a, w) ==
  LET s == InFrame(a, w) IN
  \/ s.unknown > 0
  \/ s.known = 0 /\ s.vehicles > 0 /\ Policy.vehicles
  \/ s.known = 0 /\ s.vehicles = 0 /\ s.animals > 0 /\ Policy.animals
  \/ s.known = 0 /\ s.vehicles = 0 /\ s.animals = 0 /\ Policy.unclassified

-----------------------------------------------------------------------------
(* The stores.  F is the set of writes that fail in this step.             *)

MayFail(F) == failures + Cardinality(F) <= MaxFailures /\ failures' = failures + Cardinality(F)

\* The oldest entries leave the ring.
Trimmed(l) == IF Len(l) > MaxEntries THEN SubSeq(l, Len(l) - MaxEntries + 1, Len(l)) ELSE l

\* The ring is saved whenever it changed.
Save(new, F) == ring' = new /\ saved' = IF "log" \in F THEN saved ELSE new

InLog(a) == \E i \in DOMAIN ring : ring[i].id = a

Triaged(a, s) == [i \in DOMAIN ring |-> IF ring[i].id = a THEN [ring[i] EXCEPT !.triage = s] ELSE ring[i]]

\* AlertLog.set_triage and acknowledge: nothing for an alert that has left the ring.
\* Mutant: the decision goes to the entry at the end of it.
SetTriageLast(a, s, F) == Save([ring EXCEPT ![Len(ring)].triage = s], F)

SetTriage(a, s, F) == IF InLog(a) THEN Save(Triaged(a, s), F) ELSE UNCHANGED <<ring, saved>>

Answer(a, text, F) ==
  IF InLog(a)
  THEN Save([i \in DOMAIN ring |->
               IF ring[i].id = a THEN [ring[i] EXCEPT !.feedback = text] ELSE ring[i]], F)
  ELSE UNCHANGED <<ring, saved>>

\* EventStore: meta.json is read, merged and replaced without an await in between.
Rewrite(a, meta, F) ==
  events' = IF events[a] # None /\ "event" \notin F THEN [events EXCEPT ![a] = meta] ELSE events

-----------------------------------------------------------------------------
(* Recording.                                                              *)

\* _bootstrap_topology_and_ha once Home Assistant is reached: the gate, or with
\* KUKIIHOME_TRIAGE_REASONING=off the notifier, subscribes.  Cameras record before.
Wire ==
  /\ wired = "none"
  /\ wired' \in {"gate", "direct"}
  /\ UNCHANGED <<alertStores, gate, verdict, enricher, notices, audit, bounds>>

\* One call per element of the selection, concurrently, and the answers gathered.
\* The page saves no service twice, the seed from the configuration may name one so.
Occurrences(s, list) == Cardinality({i \in DOMAIN list : list[i] = s})

Call(a) ==
  /\ sending' = [sending EXCEPT ![a] = services]
  /\ calls' = [calls EXCEPT ![a] = [s \in Services |-> @[s] + Occurrences(s, services)]]

\* on_alert of the gate or of the notifier; a test alert is suppressed, since its
\* handler sends it itself.
Task(a) ==
  IF a \in Tests \/ wired = "none" \/ (wired = "direct" /\ services = <<>>) THEN "over"
  ELSE IF wired = "gate" THEN "window" ELSE "direct"

\* AlertLog.record and its callbacks, in the order they were registered: the event
\* store, the enricher, the gate.  The handler of a test goes on to test_send.
Record(a) ==
  /\ gate[a] = "none"
  /\ \E F \in SUBSET {"log", "event"} :
       /\ MayFail(F)
       /\ Save(Trimmed(Append(ring, [id |-> a, triage |-> "none", feedback |-> "none"])), F)
       /\ events' = IF "event" \in F THEN events
                    ELSE [events EXCEPT ![a] = [triage |-> "none", enriched |-> FALSE, dismissed |-> FALSE]]
  /\ enricher' = [enricher EXCEPT ![a] = "window"]
  /\ gate' = [gate EXCEPT ![a] = Task(a)]
  /\ IF a \in Tests /\ wired # "none" /\ services # <<>>
     THEN Call(a) /\ testing' = [testing EXCEPT ![a] = "calls"] ELSE UNCHANGED <<sending, calls, testing>>
  /\ UNCHANGED <<wired, files, verdict, services, report, audit, alertEdits, alertRestarts>>

-----------------------------------------------------------------------------
(* AlertEnricher.                                                          *)

\* record_enrichment.  Mutant: meta.json was read before the image was awaited,
\* when it said nothing yet.
EnrichedStale(meta) == [triage |-> "none", enriched |-> TRUE, dismissed |-> FALSE]

Enriched(meta) == [meta EXCEPT !.enriched = TRUE]

Enrich(a, image) ==
  /\ \E F \in SUBSET {"event"} :
       /\ MayFail(F)
       /\ Rewrite(a, Enriched(events[a]), F)
       /\ files' = IF image /\ events[a] # None /\ F = {} THEN files \cup {<<a, "annotated">>} ELSE files
  /\ enricher' = [enricher EXCEPT ![a] = "over"]
  /\ UNCHANGED <<wired, ring, saved, gate, verdict, notices, audit, alertEdits, alertRestarts>>

\* The frame window: nothing, only boxes, or somebody an annotated frame shows.
EnrichWindow(a, w) ==
  /\ enricher[a] = "window"
  /\ IF HasEvidence(w) /\ ~HasIdentity(w) THEN Enrich(a, FALSE)
     ELSE /\ enricher' = [enricher EXCEPT ![a] = IF HasEvidence(w) THEN "image" ELSE "over"]
          /\ UNCHANGED <<wired, alertStores, gate, verdict, notices, audit, bounds>>

EnrichImage(a) == enricher[a] = "image" /\ \E got \in BOOLEAN : Enrich(a, got)

-----------------------------------------------------------------------------
(* TriageGate.                                                             *)

\* _maybe_evaluate_rules: the outcomes are computed once, then fired in turn.
ToRules(a) == LET out == SelectSeq(Rules, LAMBDA r : a \in Fires[r]) IN
  /\ todo' = [todo EXCEPT ![a] = out]
  /\ gate' = [gate EXCEPT ![a] = IF out = <<>> THEN "over" ELSE "rules"]

\* The decision is stored in both places before anybody is notified.
Reason(a, w) ==
  /\ gate[a] = "window"
  /\ LET status == IF Notifies(a, w) THEN "alerted" ELSE "dismissed" IN
     /\ verdict' = [verdict EXCEPT ![a] = status]
     /\ \E F \in SUBSET {"log", "event"} :
          /\ MayFail(F)
          /\ Rewrite(a, [events[a] EXCEPT !.triage = status], F)
          /\ SetTriage(a, status, F)
     /\ IF Notifies(a, w)
        THEN Call(a) /\ gate' = [gate EXCEPT ![a] = "notify"] /\ UNCHANGED todo
        ELSE ToRules(a) /\ UNCHANGED <<sending, calls>>
  /\ UNCHANGED <<wired, files, enricher, services, testing, report, heard, matches, alertEdits, alertRestarts>>

\* A reasoner that raises fails open: the alert is notified, then marked.  Mutant:
\* it is only marked.
ReasonFailsClosed(a) ==
  /\ gate[a] = "window"
  /\ gate' = [gate EXCEPT ![a] = "open"]
  /\ verdict' = [verdict EXCEPT ![a] = "failed"]
  /\ UNCHANGED <<wired, alertStores, enricher, notices, audit, bounds>>

ReasonFails(a) ==
  /\ gate[a] = "window"
  /\ gate' = [gate EXCEPT ![a] = "open"]
  /\ verdict' = [verdict EXCEPT ![a] = "failed"]
  /\ Call(a)
  /\ UNCHANGED <<wired, alertStores, enricher, services, testing, report, audit, bounds>>

FailedOpen(a) ==
  /\ gate[a] = "open"
  /\ gate' = [gate EXCEPT ![a] = "over"]
  /\ \E F \in SUBSET {"log"} : MayFail(F) /\ SetTriage(a, "alerted", F)
  /\ UNCHANGED <<wired, events, files, verdict, enricher, notices, audit, alertEdits, alertRestarts>>

\* gather returned: _notify swallows what _dispatch raises when the selection has
\* another length by now.
Notified(a) ==
  /\ gate[a] = "notify"
  /\ ToRules(a)
  /\ UNCHANGED <<wired, alertStores, verdict, enricher, notices, heard, matches, bounds>>

\* The notifier without the gate.
NotifyDirectly(a) ==
  /\ gate[a] = "direct"
  /\ gate' = [gate EXCEPT ![a] = "over"]
  /\ Call(a)
  /\ UNCHANGED <<wired, alertStores, verdict, enricher, services, testing, report, audit, bounds>>

\* Home Assistant's automations get the event of a matched rule.
Hear(a) ==
  /\ gate[a] = "rules" /\ <<Head(todo[a]), a>> \notin heard
  /\ heard' = heard \cup {<<Head(todo[a]), a>>}
  /\ UNCHANGED <<wired, alertStores, gate, verdict, enricher, notices, todo, matches, bounds>>

\* fire_event is answered or raises.
Emitted(a) == IF <<Head(todo[a]), a>> \in heard THEN {TRUE, FALSE} ELSE {FALSE}

\* record_match, whatever came of the event; then the next outcome.
Fired(a) ==
  /\ gate[a] = "rules"
  /\ \E ok \in Emitted(a) : matches' = matches \cup {[rule |-> Head(todo[a]), alert |-> a, emitted |-> ok]}
  /\ todo' = [todo EXCEPT ![a] = Tail(@)]
  /\ gate' = [gate EXCEPT ![a] = IF Len(todo[a]) = 1 THEN "over" ELSE "rules"]
  /\ UNCHANGED <<wired, alertStores, verdict, enricher, notices, heard, bounds>>

-----------------------------------------------------------------------------
(* The user, and the process.                                              *)

\* test_send pairs the answers with the selection as it is by now.
Report(t) ==
  /\ testing[t] = "calls"
  /\ testing' = [testing EXCEPT ![t] = "over"]
  /\ report' = [report EXCEPT ![t] = [raised |-> Len(services) # Len(sending[t]), rows |-> services]]
  /\ UNCHANGED <<wired, alertStores, gate, verdict, enricher, services, sending, calls, audit, bounds>>

SelectServices(l) ==
  /\ alertEdits < MaxAlertEdits /\ l # services
  /\ services' = l /\ alertEdits' = alertEdits + 1
  /\ UNCHANGED <<wired, alertStores, gate, verdict, enricher, sending, calls, testing, report, audit, failures, alertRestarts>>

Dismiss(a) ==
  /\ alertEdits < MaxAlertEdits /\ gate[a] # "none" /\ alertEdits' = alertEdits + 1
  /\ \E F \in SUBSET {"log", "event"} :
       /\ MayFail(F)
       /\ Rewrite(a, [events[a] EXCEPT !.dismissed = TRUE], F)
       /\ Answer(a, "dismissed", F)
  /\ UNCHANGED <<wired, files, gate, verdict, enricher, notices, audit, alertRestarts>>

\* A report of a false positive; the ring only hears of one that is kept.
Kept(a, F) == events[a] # None /\ "event" \notin F

Feedback(a) ==
  /\ alertEdits < MaxAlertEdits /\ gate[a] # "none" /\ alertEdits' = alertEdits + 1
  /\ \E F \in SUBSET {"log", "event"} :
       /\ MayFail(F)
       /\ files' = IF events[a] # None /\ "event" \notin F THEN files \cup {<<a, "feedback">>} ELSE files
       /\ IF Kept(a, F) THEN Answer(a, "fp", F) ELSE UNCHANGED <<ring, saved>>
  /\ UNCHANGED <<wired, events, gate, verdict, enricher, notices, audit, alertRestarts>>

\* The acknowledge call of the integration.
Acknowledge(a) ==
  /\ alertEdits < MaxAlertEdits /\ InLog(a) /\ alertEdits' = alertEdits + 1
  /\ \E F \in SUBSET {"log"} : MayFail(F) /\ Answer(a, "correct", F)
  /\ UNCHANGED <<wired, events, files, gate, verdict, enricher, notices, audit, alertRestarts>>

\* Tasks are gone; the files are as they were last written.
ProcessRestarts ==
  /\ alertRestarts < MaxAlertRestarts /\ alertRestarts' = alertRestarts + 1
  /\ wired' = "none"
  /\ ring' = saved
  /\ gate' = [a \in Ids |-> IF gate[a] \in {"none", "over"} THEN gate[a] ELSE "lost"]
  /\ enricher' = [a \in Ids |-> IF enricher[a] \in {"none", "over"} THEN enricher[a] ELSE "lost"]
  /\ testing' = [t \in Tests |-> IF testing[t] = "calls" THEN "lost" ELSE testing[t]]
  /\ todo' = [a \in Ids |-> <<>>]
  /\ UNCHANGED <<saved, events, files, verdict, services, sending, calls, report, heard, matches, failures, alertEdits>>

\* What ends an await of the gate's task.
GateStep(a) ==
  \/ \E w \in Windows \cup {None} : Reason(a, w)
  \/ ReasonFails(a) \/ FailedOpen(a) \/ Notified(a) \/ NotifyDirectly(a) \/ Fired(a)

PathNext ==
  \/ Wire \/ ProcessRestarts
  \/ \E a \in Ids : Record(a) \/ GateStep(a) \/ Hear(a) \/ EnrichImage(a) \/ Dismiss(a) \/ Feedback(a) \/ Acknowledge(a)
  \/ \E a \in Ids, w \in Windows \cup {None} : EnrichWindow(a, w)
  \/ \E t \in Tests : Report(t)
  \/ \E l \in ServiceLists : SelectServices(l)

PathSpec == PathInit /\ [][PathNext]_pathVars

\* Every request has a timeout.
PathFairSpec == PathSpec /\ \A a \in Ids : WF_pathVars(GateStep(a))

-----------------------------------------------------------------------------
(* Properties.                                                             *)

\* An alert is sent at most once, whichever path it takes, a test's own send
\* included: its calls are those of one selection.
SentOnce == \A a \in Ids, s \in Services :
  calls[a][s] = IF sending[a] = None THEN 0 ELSE Occurrences(s, sending[a])

\* The gate, the enricher and the user update one meta.json in any order: none
\* undoes what another has written.
MetaIsMerged == [][\A a \in Ids : events[a] # None =>
  /\ events'[a] # None
  /\ events[a].enriched => events'[a].enriched
  /\ events[a].dismissed => events'[a].dismissed
  /\ events[a].triage # "none" => events'[a].triage = events[a].triage]_pathVars

\* The ring and the event directory never tell different decisions, whichever of
\* their writes failed, aged out or went back with a restart.
StoresAgree ==
  \A i \in DOMAIN ring : LET a == ring[i].id IN
    /\ ring[i].triage = "dismissed" => verdict[a] = "dismissed"
    /\ ring[i].triage = "alerted" => verdict[a] \in {"alerted", "failed"}
    /\ events[a] # None => events[a].triage \in {"none", verdict[a]}

\* An alert that the reasoner has not dismissed is notified, a failing reasoner
\* included, whatever else fails.
FailsOpen == \A a \in Ids :
  /\ gate[a] \in {"rules", "over"} /\ verdict[a] \in {"alerted", "failed"} => sending[a] # None
  /\ verdict[a] = "dismissed" => sending[a] = None

\* The ring shows a report of a false positive only when the report was kept.
FeedbackIsBacked == \A i \in DOMAIN ring : ring[i].feedback = "fp" => <<ring[i].id, "feedback">> \in files

\* The audit of the rules: what it calls emitted was heard, and what was heard is
\* in it unless the process ended in between.
RuleAuditIsTrue ==
  /\ \A m \in matches : m.emitted => <<m.rule, m.alert>> \in heard
  /\ \A h \in heard : gate[h[2]] \in {"rules", "lost"} \/ \E m \in matches : m.rule = h[1] /\ m.alert = h[2]

\* Every evaluation ends, whatever the services and the selection do meanwhile.
EveryEvaluationEnds == \A a \in Ids : gate[a] \in {"window", "notify", "direct"} ~> gate[a] \in {"over", "lost"}

\* "Every recorded alert flows through the gate": refuted, cameras run before the gate is wired.
EveryAlertIsJudged == \A a \in Alerts : gate[a] = "over" => verdict[a] # "none" \/ sending[a] # None

\* "they still notify exactly once via this path": refuted, a list that names a service
\* twice calls it twice.
OneCallPerService == \A a \in Ids, s \in Services : calls[a][s] <= 1

\* "return per-service results": refuted, the selection can change while they are gathered.
ResultsAreTheirs == \A t \in Tests : report[t] # None => ~report[t].raised /\ report[t].rows = sending[t]
=============================================================================
