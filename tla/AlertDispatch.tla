--------------------------- MODULE AlertDispatch ---------------------------
(***************************************************************************)
(* Alerts on their way from a decision to the residents: plan() under the  *)
(* failure modes active at that moment, dispatch() publishing one event    *)
(* after the other, the NotifyWorker that handles what the bus delivers    *)
(* (at least once), AskFlow with its timers, and the EscalationEngine.     *)
(* The services that own these objects are not wired at this commit; the   *)
(* callers are those of tests/integration/test_action_dispatch.py.         *)
(***************************************************************************)
EXTENDS AlertPolicy

CONSTANTS
  Alerts,
  Situations,   \* what plan() can be called with: VLM response, context, occupancy, hour
  Services,     \* the HA services looked at
  ModeSets,     \* the sets of failure modes that are active together
  MaxDeliver,   \* deliveries of an event before the bus gives up
  MaxAsks,      \* as many questions as the deliveries of the situations lead to
  MaxShifts     \* bound on the changes of the active failure modes

ASSUME AlertDispatchAssumption ==
  MaxDeliver \in Nat /\ MaxShifts \in Nat /\ MaxAsks \in Nat /\ ModeSets \subseteq SUBSET Modes

VARIABLES
  modes,    \* DegradedState.active()
  shifts,   \* how often they changed
  plan,     \* alert -> its situation, rules, events and how many are published
  timer,    \* alert -> EscalationEngine._active
  raised,   \* alert -> the timers tick() has returned for it
  queue,    \* <<alert, index>> of a published question -> deliveries left
  asked     \* all AskCallbacks, in the order of ask()

vars == <<modes, shifts, plan, timer, raised, queue, asked>>

NoPlan  == [stage |-> "none"]
NoTimer == [is |-> "none"]
Timer(tier, due, levels) == [is |-> "armed", tier |-> tier, due |-> due, levels |-> levels]
Outcomes == {"yes", "no", "not_sure", "timeout"}

TypeOK ==
  /\ modes \subseteq Modes /\ shifts \in 0..MaxShifts
  /\ \A a \in Alerts :
       /\ plan[a].stage \in {"none", "publishing", "published", "failed"}
       /\ timer[a].is \in {"none", "armed", "cancelled"}
       /\ timer[a].is # "none" => timer[a].tier \in InApp..Wake /\ timer[a].levels \in {1, 2}
       /\ raised[a] \in Nat
  /\ \A e \in DOMAIN queue : e[1] \in Alerts /\ queue[e] \in 0..MaxDeliver
  /\ Len(asked) <= MaxAsks
  /\ \A i \in DOMAIN asked : asked[i].outcome \in Outcomes \cup {"none"}

Init ==
  /\ modes = {} /\ shifts = 0
  /\ plan = [a \in Alerts |-> NoPlan]
  /\ timer = [a \in Alerts |-> NoTimer]
  /\ raised = [a \in Alerts |-> 0]
  /\ queue = <<>>
  /\ asked = <<>>

-----------------------------------------------------------------------------
(* Planning and publishing.                                                *)

\* EscalationEngine.schedule.
Escalates(tier, s) ==
  \/ tier = Wake
  \/ tier = Push /\ (s.home = {} \/ s.onTimeout)
  \/ tier = InApp /\ s.onTimeout

\* ActionDispatcher.plan: one call, without a suspension.  The rules that fire
\* come in the order in which the memory returns them.
Plan(a) ==
  /\ plan[a] = NoPlan
  /\ \E s \in Situations :
     \E firing \in SetToSeqs(Firing(s)) :
       LET res  == Resolution(firing)
           tier == BaseTier(s, res)
       IN  /\ plan' = [plan EXCEPT ![a] =
                [stage |-> "publishing", s |-> s, firing |-> firing, actions |-> res.actions,
                 modes |-> modes, events |-> PlannedEvents(s, res, modes), sent |-> 0]]
           /\ timer' = [timer EXCEPT ![a] =
                IF Escalates(tier, s) THEN Timer(tier, FALSE, 1) ELSE @]
  /\ UNCHANGED <<modes, shifts, raised, queue, asked>>

\* The bus keeps a published question until it is acknowledged or given up.
Sent(e) == [x \in DOMAIN queue \cup {e} |-> IF x = e THEN MaxDeliver ELSE queue[x]]

\* dispatch() publishes the next event; a publish that raises ends it.
Publish(a) ==
  /\ plan[a].stage = "publishing"
  /\ LET n == plan[a].sent + 1
     IN  \/ /\ n <= Len(plan[a].events)
            /\ plan' = [plan EXCEPT ![a].sent = n]
            /\ queue' = IF plan[a].events[n].type = "ask" THEN Sent(<<a, n>>) ELSE queue
         \/ /\ n <= Len(plan[a].events)
            /\ plan' = [plan EXCEPT ![a].stage = "failed"]
            /\ UNCHANGED queue
         \/ /\ n > Len(plan[a].events)
            /\ plan' = [plan EXCEPT ![a].stage = "published"]
            /\ UNCHANGED queue
  /\ UNCHANGED <<modes, shifts, timer, raised, asked>>

\* The watchdog's observations: modes come and go at any time.
Shift ==
  /\ shifts < MaxShifts
  /\ modes' \in ModeSets /\ modes' # modes
  /\ shifts' = shifts + 1
  /\ UNCHANGED <<plan, timer, raised, queue, asked>>

-----------------------------------------------------------------------------
(* NotifyWorker and AskFlow.                                               *)

Pending(i) == asked[i].outcome = "none"

\* _pending[ask_id]: ask() overwrites what was there.
Latest(ask) == CHOOSE i \in DOMAIN asked :
                 /\ asked[i].ask = ask
                 /\ \A j \in DOMAIN asked : asked[j].ask = ask => j <= i

\* A caller may still get an answer to it.
Open(i) == i \in DOMAIN asked /\ Pending(i) /\ Latest(asked[i].ask) = i

\* AskFlow.ask: a new callback with a timer of its own; the timer of the one it
\* replaces, if any, is not cancelled.
Ask(ask) == asked' = Append(asked, [ask |-> ask, outcome |-> "none", timer |-> "armed"])

\* NotifyWorker.handle on one delivery of a question.  The acknowledgement may get
\* lost: then it stays for another delivery.  Pushes and speeches go to HA and leave
\* no trace in the worker, so their deliveries are not followed.
Handle(e) ==
  /\ queue[e] > 0
  /\ \/ queue' = [queue EXCEPT ![e] = 0]
     \/ queue' = [queue EXCEPT ![e] = @ - 1]
  /\ Ask(e)
  /\ UNCHANGED <<modes, shifts, plan, timer, raised>>

\* AskFlow.respond.
Respond(ask, outcome) ==
  /\ \E i \in DOMAIN asked : asked[i].ask = ask
  /\ Pending(Latest(ask))
  /\ asked' = [asked EXCEPT ![Latest(ask)].outcome = outcome, ![Latest(ask)].timer = "cancelled"]
  /\ UNCHANGED <<modes, shifts, plan, timer, raised, queue>>

\* Mutant: the timer does not look whether there is an outcome.
ExpireAnyway(i) ==
  /\ asked[i].timer = "armed"
  /\ asked' = [asked EXCEPT ![i].timer = "fired", ![Latest(asked[i].ask)].outcome = "timeout"]
  /\ UNCHANGED <<modes, shifts, plan, timer, raised, queue>>

\* AskFlow._expire: the timer of callback i ends whatever is pending under its id.
Expire(i) ==
  /\ asked[i].timer = "armed"
  /\ asked' =
       LET l == Latest(asked[i].ask)
       IN  [asked EXCEPT ![i].timer = "fired", ![l].outcome = IF Pending(l) THEN "timeout" ELSE @]
  /\ UNCHANGED <<modes, shifts, plan, timer, raised, queue>>

-----------------------------------------------------------------------------
(* EscalationEngine.                                                       *)

\* The timeout of the timer's tier passes.
Elapse(a) ==
  /\ timer[a].is = "armed" /\ ~timer[a].due
  /\ timer' = [timer EXCEPT ![a].due = TRUE]
  /\ UNCHANGED <<modes, shifts, plan, raised, queue, asked>>

\* cancel: the timer stays until the next tick.
Cancel(a) ==
  /\ timer[a].is = "armed"
  /\ timer' = [timer EXCEPT ![a].is = "cancelled"]
  /\ UNCHANGED <<modes, shifts, plan, raised, queue, asked>>

\* Mutant: a follow-up arms a cancelled timer again.
FollowUpAnyway(a) ==
  /\ timer[a].is # "none"
  /\ timer' = [timer EXCEPT ![a] = Timer(timer[a].tier, TRUE, 2)]
  /\ UNCHANGED <<modes, shifts, plan, raised, queue, asked>>

\* follow_up_detected: the next tick escalates, by two levels.
FollowUp(a) ==
  /\ timer[a].is = "armed"
  /\ timer' = [timer EXCEPT ![a] = Timer(timer[a].tier, TRUE, 2)]
  /\ UNCHANGED <<modes, shifts, plan, raised, queue, asked>>

Due(a) == timer[a].is = "armed" /\ timer[a].due

\* tick: cancelled timers are dropped, due ones are dropped and returned.
Tick ==
  /\ \E a \in Alerts : Due(a) \/ timer[a].is = "cancelled"
  /\ raised' = [a \in Alerts |-> IF Due(a) THEN raised[a] + 1 ELSE raised[a]]
  /\ timer' = [a \in Alerts |-> IF Due(a) \/ timer[a].is = "cancelled" THEN NoTimer ELSE timer[a]]
  /\ UNCHANGED <<modes, shifts, plan, queue, asked>>

-----------------------------------------------------------------------------
Next ==
  \/ \E a \in Alerts : Plan(a) \/ Publish(a) \/ Elapse(a) \/ Cancel(a) \/ FollowUp(a)
  \/ Shift \/ Tick
  \/ \E e \in DOMAIN queue : Handle(e)
  \/ \E e \in DOMAIN queue, o \in {"yes", "no"} : Respond(e, o)
  \/ \E i \in DOMAIN asked : Expire(i)

Spec == Init /\ [][Next]_vars

\* Timers run out and ticks come; nobody has to answer, ask or publish.
FairSpec ==
  /\ Spec
  /\ \A a \in Alerts : WF_vars(Elapse(a))
  /\ WF_vars(Tick)
  /\ \A i \in 1..MaxAsks : WF_vars(i \in DOMAIN asked /\ Expire(i))

-----------------------------------------------------------------------------
(* Properties.                                                             *)

\* More active failure modes only tighten what may be done to a device, however
\* modes overlap and whatever was approved: the floor of the policy gate never
\* turns a blocked service into a gated one or a gated one into an automatic one.
GateOnlyTightens ==
  [][modes \subseteq modes' =>
       \A x \in Services, approved \in BOOLEAN :
         Strictness[Disposition(x, approved, modes)]
           <= Strictness[Disposition(x, approved, modes')]]_vars

\* A blocked service never leaves the dispatcher, and a gated one leaves it only
\* flagged and with a question behind it, under the modes of the moment of planning.
NothingSlipsTheGate ==
  \A a \in Alerts : plan[a] # NoPlan =>
    \A i \in DOMAIN plan[a].events :
      LET e == plan[a].events[i]
          d == Disposition(e.service, e.service \in plan[a].s.approved, plan[a].modes)
      IN  e.type = "ha_service_call" =>
            /\ d # "blocked"
            /\ d = "gated" => /\ e.gate
                              /\ plan[a].events[i + 1].type = "ask"
                              /\ plan[a].events[i + 1].service = e.service

\* One alert escalates once at most, and never after its timer was cancelled,
\* whatever ticks, follow-ups and cancels come in which order.
EscalatesOnce ==
  [][\A a \in Alerts :
       /\ raised'[a] # raised[a] => raised[a] = 0 /\ timer[a].is = "armed"
       /\ timer[a].is = "cancelled" => timer'[a].is # "armed"]_vars

\* The outcome of a question stands: late timers of earlier deliveries, late
\* answers and redeliveries never change it.
AnswerStands ==
  [][\A i \in DOMAIN asked : ~Pending(i) => asked'[i].outcome = asked[i].outcome]_vars

\* A question gets an outcome, unless a redelivery puts another in its place.
EveryAskEnds == \A i \in 1..MaxAsks : Open(i) ~> ~Open(i)

\* Which rules win and how severe the alert is follows from the set of rules that
\* fired, although the resolution goes through them in some order, and of the
\* winners' actions exactly one is kept of each kind.
ResolutionIsStable ==
  \A a \in Alerts : plan[a] # NoPlan =>
    LET fired   == ToSet(plan[a].firing)
        all     == UNION {ToSet(Rule[r].actions) : r \in ToSet(Winners(plan[a].firing))}
        kept    == plan[a].actions
    IN  /\ \A order \in SetToSeqs(fired) :
             /\ ToSet(Winners(order)) = ToSet(Winners(plan[a].firing))
             /\ Severity(Winners(order)) = Severity(Winners(plan[a].firing))
        /\ \A x \in all : \E i \in DOMAIN kept : Key(kept[i]) = Key(x)
        /\ \A i, j \in DOMAIN kept : Key(kept[i]) = Key(kept[j]) => i = j

-----------------------------------------------------------------------------
(* Claims of the code's documentation that the model refutes.              *)

\* ConflictResolver: "device actions additive": no winner's device action is lost.
DeviceActionsAreAdditive ==
  \A a \in Alerts : plan[a] # NoPlan =>
    \A r \in ToSet(Winners(plan[a].firing)) :
      ToSet(SelectSeq(Rule[r].actions, LAMBDA x : x.type = "ha_service_call"))
        \subseteq ToSet(plan[a].actions)

\* DEFAULT_RULE_PACK: "Tier-1 safety: smoke alarm fires immediate alert".
SafetyRuleWins ==
  \A a \in Alerts : plan[a] # NoPlan =>
    \A r \in ToSet(plan[a].firing) :
      Rule[r].severity = "alert" /\ Rule[r].labels = {"smoke_alarm"} =>
        r \in ToSet(Winners(plan[a].firing))

\* QuietHours: in quiet hours a push is silent.  Events have no such flag.
QuietPushIsSilent ==
  \A a \in Alerts : plan[a] # NoPlan =>
    \A i \in DOMAIN plan[a].events :
      LET e == plan[a].events[i]
      IN  e.type = "push" /\ e.service = "none" =>
            \A r \in e.to : ~IsSilent(r, e.tier, plan[a].s)

\* PolicyGate: a blocked action notifies the operator instead.
BlockIsReported ==
  \A a \in Alerts : plan[a] # NoPlan =>
    \A i \in DOMAIN plan[a].events :
      plan[a].events[i].type = "push" => plan[a].events[i].to \subseteq ToSet(Household)

\* AskFlow.wait "resumes on respond() or timeout": no pending callback is replaced.
WaitersResume ==
  \A i, j \in DOMAIN asked : i < j /\ asked[i].ask = asked[j].ask => ~Pending(i)

=============================================================================
