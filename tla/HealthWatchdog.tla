--------------------------- MODULE HealthWatchdog ---------------------------
(***************************************************************************)
(* The resilience backbone: Watchdog.run polls the registered health       *)
(* checks one after the other, reports each observation to the             *)
(* HealthRegistry, keeps the DegradedState's set of active failure modes   *)
(* (what the safe-action gate reads), and on a transition appends to the   *)
(* diagnostic trail and calls on_transition.                               *)
(*                                                                         *)
(* One event loop: the watchdog suspends in a probe, in the transition     *)
(* callback and between two rounds; what lies between is one action.  The  *)
(* uncontended locks of the registry and of the trail do not suspend.      *)
(***************************************************************************)
EXTENDS Naturals, SequencesExt

CONSTANTS
  Checks,       \* Watchdog._checks: component names in order of registration
  Critical,     \* components whose check is critical
  ModeOf,       \* component -> its failure mode, or NoMode
  NoMode,
  Threshold,    \* persistent_failure_threshold
  RingSize      \* maxlen of the DiagnosticRing

Components == ToSet(Checks)
Modes      == {ModeOf[c] : c \in Components} \ {NoMode}

\* The components with a failure mode that no other component has.
SoleOwners ==
  {c \in Components : /\ ModeOf[c] # NoMode
                      /\ \A d \in Components \ {c} : ModeOf[d] # ModeOf[c]}

ASSUME HealthAssumption ==
  /\ Checks \in Seq(Components) /\ Checks # <<>>
  /\ \A i, j \in 1..Len(Checks) : Checks[i] = Checks[j] => i = j
  /\ Critical \subseteq Components
  /\ Threshold \in Nat \ {0} /\ RingSize \in Nat \ {0}

VARIABLES
  condition,    \* component -> how its probe would end
  at,           \* where the watchdog is suspended
  position,     \* index of the check it is at
  observed,     \* what the probe it is in saw
  registry,     \* HealthRegistry._by_id: component -> status, "unknown" before
  last,         \* _last_status
  offline,      \* _consecutive_offline, saturating at Threshold
  active,       \* DegradedState._active
  trail,        \* DiagnosticRing._entries, oldest first
  evicted,      \* history: TRUE once the ring has dropped an entry
  changed       \* history: components that changed since the round began

loopVars == <<at, position, observed>>
vars == <<condition, loopVars, registry, last, offline, active, trail,
          evicted, changed>>

Statuses   == {"ok", "degraded", "offline"}
Conditions == Statuses \cup {"raises"}
Levels     == {"info", "warning", "critical"}
Entries    == [component : Components, status : Statuses, level : Levels]

TypeOK ==
  /\ condition \in [Components -> Conditions]
  /\ at \in {"start", "probe", "report", "notify", "done", "cut"}
  /\ position \in 1..Len(Checks)
  /\ observed \in Statuses
  /\ registry \in [Components -> Statuses \cup {"unknown"}]
  /\ last \in [Components -> Statuses]
  /\ offline \in [Components -> 0..Threshold]
  /\ active \subseteq Modes
  /\ trail \in Seq(Entries) /\ Len(trail) <= RingSize
  /\ evicted \in BOOLEAN
  /\ changed \subseteq Components

Init ==
  /\ condition \in [Components -> Conditions]
  /\ at = "start"
  /\ position = 1
  /\ observed = "ok"
  /\ registry = [c \in Components |-> "unknown"]
  /\ last = [c \in Components |-> "ok"]
  /\ offline = [c \in Components |-> 0]
  /\ active = {}
  /\ trail = <<>>
  /\ evicted = FALSE
  /\ changed = {}

-----------------------------------------------------------------------------

\* The world: a component fails, recovers, or its probe begins to raise, as often
\* as it likes.
Change(c, to) ==
  /\ condition[c] # to
  /\ condition' = [condition EXCEPT ![c] = to]
  /\ changed' = changed \cup {c}
  /\ UNCHANGED <<loopVars, registry, last, offline, active, trail, evicted>>

Current == Checks[position]

\* A probe that raises counts as offline.
Seen(how) == IF how = "raises" THEN "offline" ELSE how

\* run: the next round begins, poll_interval_s after the last one ended.
BeginRound ==
  /\ at \in {"start", "done", "cut"}
  /\ at' = "probe"
  /\ position' = 1
  /\ changed' = {}
  /\ UNCHANGED <<condition, observed, registry, last, offline, active,
                 trail, evicted>>

\* The probe of the current check looks at its component ...
Probe ==
  /\ at = "probe"
  /\ observed' = Seen(condition[Current])
  /\ at' = "report"
  /\ UNCHANGED <<condition, position, registry, last, offline, active,
                 trail, evicted, changed>>

\* The next check, or the end of the round.
NextCheck ==
  IF position < Len(Checks)
  THEN at' = "probe" /\ position' = position + 1
  ELSE at' = "done" /\ UNCHANGED position

\* Mutant: only an outage activates the mode.
OfflineActivates(c) ==
  IF ModeOf[c] = NoMode THEN active
  ELSE IF observed = "offline" THEN active \cup {ModeOf[c]}
  ELSE active \ {ModeOf[c]}

\* set_active(failure_mode, status != "ok"), on every observation.
Activated(c) ==
  IF ModeOf[c] = NoMode THEN active
  ELSE IF observed # "ok" THEN active \cup {ModeOf[c]}
  ELSE active \ {ModeOf[c]}

\* The number of consecutive offline observations, this one included.
OfflineRun(c) ==
  IF observed # "offline" THEN 0
  ELSE IF offline[c] < Threshold THEN offline[c] + 1 ELSE offline[c]

Level(c) ==
  IF observed = "ok" THEN "info"
  ELSE IF observed = "offline" /\ (c \in Critical \/ OfflineRun(c) >= Threshold)
  THEN "critical"
  ELSE "warning"

\* DiagnosticRing.record: a full ring drops its oldest entry.
Record(entry) ==
  IF Len(trail) < RingSize
  THEN /\ trail' = Append(trail, entry)
       /\ UNCHANGED evicted
  ELSE /\ trail' = Append(Tail(trail), entry)
       /\ evicted' = TRUE

\* Mutant: the steady state is recorded too.
ReportAlways ==
  LET c == Current IN
  /\ at = "report"
  /\ registry' = [registry EXCEPT ![c] = observed]
  /\ last' = [last EXCEPT ![c] = observed]
  /\ active' = Activated(c)
  /\ offline' = [offline EXCEPT ![c] = OfflineRun(c)]
  /\ Record([component |-> c, status |-> observed, level |-> Level(c)])
  /\ at' = "notify"
  /\ UNCHANGED <<condition, position, observed, changed>>

\* ... and returns: registry.report and _process, up to the await of
\* on_transition.  In the steady state there is nothing to record.
Report ==
  LET c == Current IN
  /\ at = "report"
  /\ registry' = [registry EXCEPT ![c] = observed]
  /\ last' = [last EXCEPT ![c] = observed]
  /\ active' = Activated(c)
  /\ offline' = [offline EXCEPT ![c] = OfflineRun(c)]
  /\ IF observed = last[c]
     THEN /\ NextCheck
          /\ UNCHANGED <<trail, evicted>>
     ELSE /\ Record([component |-> c, status |-> observed, level |-> Level(c)])
          /\ at' = "notify"
          /\ UNCHANGED position
  /\ UNCHANGED <<condition, observed, changed>>

Notified ==
  /\ at = "notify"
  /\ NextCheck
  /\ UNCHANGED <<condition, observed, registry, last, offline, active,
                 trail, evicted, changed>>

\* Mutant: a transition whose callback raised is taken back.
NotifyFailsAgain ==
  /\ at = "notify"
  /\ at' = "cut"
  /\ last' = [last EXCEPT ![Current] = IF observed = "ok" THEN "offline" ELSE "ok"]
  /\ UNCHANGED <<condition, position, observed, registry, offline,
                 active, trail, evicted, changed>>

\* on_transition raises: run catches it, the rest of the round is skipped.
NotifyFails ==
  /\ at = "notify"
  /\ at' = "cut"
  /\ UNCHANGED <<condition, position, observed, registry, last, offline,
                 active, trail, evicted, changed>>

-----------------------------------------------------------------------------

Watchdog == BeginRound \/ Probe \/ Report \/ Notified \/ NotifyFails

Next ==
  \/ \E c \in Components, to \in Conditions : Change(c, to)
  \/ Watchdog

Spec == Init /\ [][Next]_vars

\* The poll loop goes on for ever, probes and callbacks return; nothing in the
\* world has to change, and the callback may raise every time.
FairSpec == Spec /\ WF_vars(Watchdog)

-----------------------------------------------------------------------------
(* Properties.                                                             *)

\* A complete round leaves no stale belief: of every component that did not
\* change since the round began, the registry (the health card) and the gate's
\* failure mode, unless another component has the same, say what its probe says.
CompleteRoundIsAccurate ==
  at = "done" =>
    \A c \in Components \ changed :
      /\ registry[c] = Seen(condition[c])
      /\ c \in SoleOwners =>
           (ModeOf[c] \in active <=> Seen(condition[c]) # "ok")

\* The trail tells transitions: two entries about a component that follow each
\* other differ, and the newest one says what was last observed, however often
\* callbacks failed in between.
TrailTellsTransitions ==
  \A c \in Components :
    LET own == SelectSeq(trail, LAMBDA x : x.component = c) IN
    /\ \A i \in 1..(Len(own) - 1) : own[i].status # own[i + 1].status
    /\ IF own = <<>> THEN evicted \/ last[c] = "ok"
                     ELSE own[Len(own)].status = last[c]

\* From some time on the first n - 1 checks find what they found before.
EarlierSettle(n) == <>[][\A i \in 1..(n - 1) : UNCHANGED condition[Checks[i]]]_condition

\* A component that stays down ends up with its failure mode active for good, and
\* one that stays well with its mode inactive, even if the callback raises every
\* time and cuts rounds short: a component polled earlier can keep the watchdog
\* from this one only by changing for ever, for it is told once of a transition.
OutageReachesTheGate ==
  \A n \in 1..Len(Checks) :
    LET c == Checks[n] IN
    c \in SoleOwners /\ EarlierSettle(n) =>
      /\ <>[](condition[c] # "ok") => <>[](ModeOf[c] \in active)
      /\ <>[](condition[c] = "ok") => <>[](ModeOf[c] \notin active)

-----------------------------------------------------------------------------
(* Claims of the code's documentation that the model refutes.              *)

\* "so the safe-action gate stays correct even if a transition's callback is
\* missed": nobody who is polled later can be kept from the gate.
GateStaysCorrect ==
  \A c \in SoleOwners : <>[](condition[c] # "ok") => <>[](ModeOf[c] \in active)

\* "Persistent failures (N consecutive offline observations) escalate the
\* diagnostic to critical."
PersistentOutageEscalates ==
  \A c \in Components :
    offline[c] >= Threshold =>
      evicted \/ \E i \in 1..Len(trail) : /\ trail[i].component = c
                                          /\ trail[i].level = "critical"

=============================================================================
