------------------------ MODULE AlertDispatchProofs ------------------------
(***************************************************************************)
(* Theorems about AlertDispatch, for any residents, rules, situations and  *)
(* failure modes.                                                          *)
(***************************************************************************)
EXTENDS AlertDispatch, TLAPS

-----------------------------------------------------------------------------
(* The gate.                                                               *)

\* SafeDefaultsMatrix.permission: with more modes the verdict is as strict or stricter.
LEMMA PermissionGrows ==
  ASSUME NEW M, NEW N, M \subseteq N, NEW class
  PROVE  /\ Permission(class, M) \in {"allow", "conditional", "block"}
         /\ Permission(class, M) = "block" => Permission(class, N) = "block"
         /\ Permission(class, M) = "conditional" => Permission(class, N) # "allow"
  <1> DEFINE P(modeset, v) == \E m \in modeset : Verdict(m, class) = v
  <1>1. \A v : P(M, v) => P(N, v)
    OBVIOUS
  <1>2. \A S : Permission(class, S) =
          IF P(S, "block") THEN "block" ELSE IF P(S, "conditional") THEN "conditional" ELSE "allow"
    BY DEF Permission
  <1> HIDE DEF P
  <1> QED
    BY <1>1, <1>2

\* The failure floor on top of the normal disposition.
LEMMA DispositionGrows ==
  ASSUME NEW M, NEW N, M \subseteq N, NEW x, NEW approved \in BOOLEAN
  PROVE  Strictness[Disposition(x, approved, M)] <= Strictness[Disposition(x, approved, N)]
  <1> DEFINE base == BaseDisposition(x, approved)
             p    == Permission(ActionClass(x), M)
             q    == Permission(ActionClass(x), N)
             free == x \in PolicyGated /\ approved
             none == ActionClass(x) = "unmapped"
  <1>1. base \in {"auto", "gated", "blocked"}
    BY DEF BaseDisposition
  <1>2. /\ p \in {"allow", "conditional", "block"} /\ q \in {"allow", "conditional", "block"}
        /\ p = "block" => q = "block"
        /\ p = "conditional" => q # "allow"
    BY PermissionGrows
  <1>3. M = {} => p = "allow"
    BY DEF Permission
  <1>4. N = {} => M = {}
    OBVIOUS
  <1>5. Disposition(x, approved, M) =
          IF M = {} \/ none \/ p = "allow" THEN base
          ELSE IF p = "block" THEN "blocked"
          ELSE IF base = "auto" /\ ~free THEN "gated" ELSE base
    BY DEF Disposition
  <1>6. Disposition(x, approved, N) =
          IF N = {} \/ none \/ q = "allow" THEN base
          ELSE IF q = "block" THEN "blocked"
          ELSE IF base = "auto" /\ ~free THEN "gated" ELSE base
    BY DEF Disposition
  <1>7. Strictness["auto"] = 0 /\ Strictness["gated"] = 1 /\ Strictness["blocked"] = 2
    BY DEF Strictness
  <1> HIDE DEF base, p, q, free, none
  <1> QED
    BY <1>1, <1>2, <1>3, <1>4, <1>5, <1>6, <1>7

\* More active failure modes only tighten what may be done to a device.
THEOREM GateTightens == Spec => GateOnlyTightens
  <1>1. [Next]_vars => [modes \subseteq modes' =>
          \A x \in Services, approved \in BOOLEAN :
            Strictness[Disposition(x, approved, modes)]
              <= Strictness[Disposition(x, approved, modes')]]_vars
    BY DispositionGrows
  <1> QED
    BY <1>1, PTL DEF Spec, GateOnlyTightens

-----------------------------------------------------------------------------
(* Escalation.                                                             *)

\* A timer exists only after planning, and none is left once it has fired.
TimerInv ==
  /\ timer \in [Alerts -> [is : {"none"}] \cup
                 [is : {"armed", "cancelled"}, tier : Int, due : BOOLEAN, levels : {1, 2}]]
  /\ DOMAIN plan = Alerts
  /\ raised \in [Alerts -> Nat]
  /\ \A a \in Alerts : raised[a] # 0 => timer[a] = NoTimer
  /\ \A a \in Alerts : raised[a] # 0 \/ timer[a] # NoTimer => plan[a] # NoPlan

LEMMA TierIsInt == ASSUME NEW s, NEW res PROVE BaseTier(s, res) \in Int
  BY DEF BaseTier, TierFor, Emergency, Wake, Push, InApp, Silent

LEMMA TimerInit == Init => TimerInv
  BY DEF Init, TimerInv, NoTimer

LEMMA TimerStep == TimerInv /\ [Next]_vars => TimerInv'
  <1> SUFFICES ASSUME TimerInv, [Next]_vars PROVE TimerInv'
    OBVIOUS
  <1> USE DEF TimerInv, NoTimer, Timer
  <1>1. ASSUME NEW a \in Alerts, Plan(a) PROVE TimerInv'
    <2>1. PICK s \in Situations : \E firing \in SetToSeqs(Firing(s)) :
            /\ plan' = [plan EXCEPT ![a] =
                 [stage |-> "publishing", s |-> s, firing |-> firing,
                  actions |-> Resolution(firing).actions, modes |-> modes,
                  events |-> PlannedEvents(s, Resolution(firing), modes), sent |-> 0]]
            /\ timer' = [timer EXCEPT ![a] =
                 IF Escalates(BaseTier(s, Resolution(firing)), s)
                 THEN Timer(BaseTier(s, Resolution(firing)), FALSE, 1) ELSE @]
      BY <1>1 DEF Plan
    <2>0. PICK firing \in SetToSeqs(Firing(s)) :
            /\ plan' = [plan EXCEPT ![a] =
                 [stage |-> "publishing", s |-> s, firing |-> firing,
                  actions |-> Resolution(firing).actions, modes |-> modes,
                  events |-> PlannedEvents(s, Resolution(firing), modes), sent |-> 0]]
            /\ timer' = [timer EXCEPT ![a] =
                 IF Escalates(BaseTier(s, Resolution(firing)), s)
                 THEN Timer(BaseTier(s, Resolution(firing)), FALSE, 1) ELSE @]
      BY <2>1
    <2>2. BaseTier(s, Resolution(firing)) \in Int
      BY TierIsInt
    <2>3. raised' = raised /\ plan[a] = NoPlan
      BY <1>1 DEF Plan
    <2>4. raised[a] = 0
      BY <2>3
    <2>5. \A b \in Alerts : b # a => plan'[b] = plan[b] /\ timer'[b] = timer[b]
      BY <2>0
    <2>6. timer' \in [Alerts -> [is : {"none"}] \cup
                 [is : {"armed", "cancelled"}, tier : Int, due : BOOLEAN, levels : {1, 2}]]
      BY <2>0, <2>2
    <2>7. plan'[a] # NoPlan /\ DOMAIN plan' = Alerts
      BY <2>0 DEF NoPlan
    <2>8. raised'[a] = 0
      BY <2>3, <2>4
    <2> QED
      BY <2>3, <2>5, <2>6, <2>7, <2>8
  <1>2. ASSUME NEW a \in Alerts, Publish(a) PROVE TimerInv'
    <2>1. timer' = timer /\ raised' = raised /\ DOMAIN plan' = Alerts
      BY <1>2 DEF Publish
    <2>2. \A b \in Alerts : b # a => plan'[b] = plan[b]
      BY <1>2 DEF Publish
    <2>3. plan[a] # NoPlan
      BY <1>2 DEF Publish, NoPlan
    <2>4. plan'[a] # NoPlan
      <3>1. plan[a].stage = "publishing"
        BY <1>2 DEF Publish
      <3>2. \/ plan'[a] = [plan[a] EXCEPT !.sent = plan[a].sent + 1]
            \/ plan'[a] = [plan[a] EXCEPT !.stage = "failed"]
            \/ plan'[a] = [plan[a] EXCEPT !.stage = "published"]
        BY <1>2 DEF Publish
      <3>3. DOMAIN plan'[a] = DOMAIN plan[a] /\ \A f \in DOMAIN plan[a] : f # "stage" =>
              f = "sent" \/ plan'[a][f] = plan[a][f]
        BY <3>2
      <3>4. plan'[a] = NoPlan => plan'[a].stage = "none" /\ "stage" \in DOMAIN plan'[a]
        BY DEF NoPlan
      <3> QED
        BY <3>1, <3>2, <3>3, <3>4
    <2> QED
      BY <2>1, <2>2, <2>3, <2>4
  <1>3. ASSUME NEW a \in Alerts, Elapse(a) \/ Cancel(a) \/ FollowUp(a) PROVE TimerInv'
    <2>1. timer[a].is = "armed" /\ raised' = raised /\ plan' = plan
      BY <1>3 DEF Elapse, Cancel, FollowUp
    <2>2. timer[a] \in [is : {"armed", "cancelled"}, tier : Int, due : BOOLEAN, levels : {1, 2}]
      BY <2>1
    <2> DEFINE T == [is : {"armed", "cancelled"}, tier : Int, due : BOOLEAN, levels : {1, 2}]
    <2>6. timer[a] = [is |-> timer[a].is, tier |-> timer[a].tier,
                      due |-> timer[a].due, levels |-> timer[a].levels]
      BY <2>2
    <2>7. \/ timer' = [timer EXCEPT ![a] = [timer[a] EXCEPT !.due = TRUE]]
          \/ timer' = [timer EXCEPT ![a] = [timer[a] EXCEPT !.is = "cancelled"]]
          \/ timer' = [timer EXCEPT ![a] = Timer(timer[a].tier, TRUE, 2)]
      BY <1>3 DEF Elapse, Cancel, FollowUp
    <2>8. /\ [timer[a] EXCEPT !.due = TRUE] \in T
          /\ [timer[a] EXCEPT !.is = "cancelled"] \in T
          /\ Timer(timer[a].tier, TRUE, 2) \in T
      BY <2>2
    <2>3. timer' \in [Alerts -> [is : {"none"}] \cup T]
      <3>1. timer \in [Alerts -> [is : {"none"}] \cup T]
        OBVIOUS
      <3> HIDE DEF T, Timer
      <3> QED BY <2>7, <2>8, <3>1
    <2>4. \A b \in Alerts : b # a => timer'[b] = timer[b]
      BY <1>3 DEF Elapse, Cancel, FollowUp
    <2>5. raised[a] = 0
      BY <2>1
    <2> QED
      BY <2>1, <2>3, <2>4, <2>5
  <1>4. CASE Tick
    <2>1. \A a \in Alerts : raised'[a] \in Nat
      BY <1>4 DEF Tick
    <2>2. \A a \in Alerts : /\ raised'[a] # 0 => timer'[a] = NoTimer
                            /\ raised'[a] # 0 \/ timer'[a] # NoTimer => plan'[a] # NoPlan
      <3> SUFFICES ASSUME NEW a \in Alerts
                   PROVE  /\ raised'[a] # 0 => timer'[a] = NoTimer
                          /\ raised'[a] # 0 \/ timer'[a] # NoTimer => plan'[a] # NoPlan
        OBVIOUS
      <3>1. CASE Due(a)
        <4>1. timer'[a] = NoTimer
          BY <1>4, <3>1 DEF Tick
        <4>2. timer[a] # NoTimer
          BY <3>1 DEF Due
        <4>3. plan[a] # NoPlan
          BY <4>2, <3>1
        <4> QED
          BY <4>1, <4>3, <1>4 DEF Tick
      <3>2. CASE ~Due(a)
        BY <1>4, <3>2 DEF Tick
      <3> QED
        BY <3>1, <3>2
    <2> QED
      BY <1>4, <2>1, <2>2 DEF Tick
  <1>5. CASE UNCHANGED <<plan, timer, raised>>
    BY <1>5
  <1> QED
    BY <1>1, <1>2, <1>3, <1>4, <1>5
    DEF Next, vars, Shift, Handle, Respond, Expire

\* An alert escalates at most once, and never after its timer was cancelled.
THEOREM OneEscalation == Spec => EscalatesOnce
  <1>1. Spec => []TimerInv
    BY TimerInit, TimerStep, PTL DEF Spec
  <1>2. TimerInv /\ [Next]_vars =>
          [\A a \in Alerts :
             /\ raised'[a] # raised[a] => raised[a] = 0 /\ timer[a].is = "armed"
             /\ timer[a].is = "cancelled" => timer'[a].is # "armed"]_vars
    <2> SUFFICES ASSUME TimerInv, Next, NEW a \in Alerts
                 PROVE  /\ raised'[a] # raised[a] => raised[a] = 0 /\ timer[a].is = "armed"
                        /\ timer[a].is = "cancelled" => timer'[a].is # "armed"
      OBVIOUS
    <2>1. CASE Tick
      <3>1. raised'[a] # raised[a] => Due(a)
        BY <2>1 DEF Tick
      <3>2. Due(a) => timer[a].is = "armed" /\ timer[a] # NoTimer
        BY DEF Due, NoTimer
      <3>3. timer[a].is = "cancelled" => timer'[a].is = "none"
        BY <2>1 DEF Tick, NoTimer
      <3> QED
        BY <3>1, <3>2, <3>3 DEF TimerInv
    <2>2. CASE UNCHANGED <<raised, timer>>
      BY <2>2
    <2>3. ASSUME NEW b \in Alerts, Plan(b) PROVE raised' = raised /\ (timer[a].is = "cancelled" => timer'[a].is # "armed")
      <3>1. raised' = raised /\ plan[b] = NoPlan /\ (a # b => timer'[a] = timer[a])
        BY <2>3 DEF Plan, TimerInv
      <3>2. timer[b] = NoTimer
        BY <3>1 DEF TimerInv
      <3> QED
        BY <3>1, <3>2 DEF NoTimer
    <2>4. ASSUME NEW b \in Alerts, Elapse(b) \/ Cancel(b) \/ FollowUp(b)
          PROVE raised' = raised /\ (timer[a].is = "cancelled" => timer'[a].is # "armed")
      <3>1. timer[b].is = "armed" /\ (a # b => timer'[a] = timer[a]) /\ raised' = raised
        BY <2>4 DEF Elapse, Cancel, FollowUp, TimerInv
      <3> QED
        BY <3>1
    <2> QED
      BY <2>1, <2>2, <2>3, <2>4 DEF Next, Publish, Shift, Handle, Respond, Expire
  <1> QED
    BY <1>1, <1>2, PTL DEF Spec, EscalatesOnce

-----------------------------------------------------------------------------
(* Questions.                                                              *)

Callback == [ask : Alerts \X Nat, outcome : Outcomes \cup {"none"},
             timer : {"armed", "fired", "cancelled"}]

\* Published questions are named by alert and position, and callbacks by those.
AskInv ==
  /\ DOMAIN plan = Alerts
  /\ \A a \in Alerts : plan[a].stage = "publishing" => plan[a].sent \in Nat
  /\ DOMAIN queue \subseteq Alerts \X Nat
  /\ asked \in Seq(Callback)

LEMMA AskInit == Init => AskInv
  BY DEF Init, AskInv, NoPlan

\* Changing the outcome of a callback, wherever it is, keeps the list well formed.
LEMMA SetOutcome ==
  ASSUME NEW s \in Seq(Callback), NEW l, NEW v \in Outcomes \cup {"none"}
  PROVE  /\ [s EXCEPT ![l].outcome = v] \in Seq(Callback)
         /\ DOMAIN [s EXCEPT ![l].outcome = v] = DOMAIN s
         /\ \A j \in DOMAIN s : [s EXCEPT ![l].outcome = v][j].outcome = IF j = l THEN v ELSE s[j].outcome
  <1>1. CASE l \in DOMAIN s
    <2>1. s[l] \in Callback
      BY <1>1
    <2>2. [s[l] EXCEPT !.outcome = v] \in Callback /\ [s[l] EXCEPT !.outcome = v].outcome = v
      BY <2>1 DEF Callback
    <2> QED
      BY <1>1, <2>2
  <1>2. CASE l \notin DOMAIN s
    <2>1. [s EXCEPT ![l].outcome = v] = s
      BY <1>2
    <2> QED
      BY <2>1, <1>2
  <1> QED
    BY <1>1, <1>2

\* The same for the timer.
LEMMA SetTimer ==
  ASSUME NEW s \in Seq(Callback), NEW l, NEW v \in {"fired", "cancelled"}
  PROVE  /\ [s EXCEPT ![l].timer = v] \in Seq(Callback)
         /\ DOMAIN [s EXCEPT ![l].timer = v] = DOMAIN s
         /\ \A j \in DOMAIN s : [s EXCEPT ![l].timer = v][j].outcome = s[j].outcome
  <1>1. CASE l \in DOMAIN s
    <2>1. s[l] \in Callback
      BY <1>1
    <2>2. [s[l] EXCEPT !.timer = v] \in Callback /\ [s[l] EXCEPT !.timer = v].outcome = s[l].outcome
      BY <2>1 DEF Callback
    <2> QED
      BY <1>1, <2>2
  <1>2. CASE l \notin DOMAIN s
    <2>1. [s EXCEPT ![l].timer = v] = s
      BY <1>2
    <2> QED
      BY <2>1
  <1> QED
    BY <1>1, <1>2

\* What a step does to the callbacks: none is taken away, and one with an
\* outcome keeps it.
Kept == /\ asked' \in Seq(Callback)
        /\ \A i \in DOMAIN asked : ~Pending(i) => asked'[i].outcome = asked[i].outcome

LEMMA AskedStep == AskInv /\ [Next]_vars => Kept
  <1> SUFFICES ASSUME AskInv, [Next]_vars PROVE Kept
    OBVIOUS
  <1>0. asked \in Seq(Callback) /\ DOMAIN queue \subseteq Alerts \X Nat
    BY DEF AskInv
  <1>1. ASSUME NEW e \in DOMAIN queue, Handle(e) PROVE Kept
    <2>1. asked' = Append(asked, [ask |-> e, outcome |-> "none", timer |-> "armed"])
      BY <1>1 DEF Handle, Ask
    <2>2. [ask |-> e, outcome |-> "none", timer |-> "armed"] \in Callback
      BY <1>0 DEF Callback
    <2> QED
      BY <1>0, <2>1, <2>2 DEF Kept
  <1>2. ASSUME NEW e \in DOMAIN queue, NEW o \in {"yes", "no"}, Respond(e, o) PROVE Kept
    <2> DEFINE l == Latest(e)
               s == [asked EXCEPT ![l].outcome = o]
    <2>1. asked' = [s EXCEPT ![l].timer = "cancelled"] /\ Pending(l)
      BY <1>2 DEF Respond
    <2>2. o \in Outcomes \cup {"none"}
      BY DEF Outcomes
    <2>3. /\ s \in Seq(Callback) /\ DOMAIN s = DOMAIN asked
          /\ \A j \in DOMAIN asked : s[j].outcome = IF j = l THEN o ELSE asked[j].outcome
      BY <1>0, <2>2, SetOutcome
    <2> HIDE DEF s
    <2>4. /\ [s EXCEPT ![l].timer = "cancelled"] \in Seq(Callback)
          /\ \A j \in DOMAIN s : [s EXCEPT ![l].timer = "cancelled"][j].outcome = s[j].outcome
      BY <2>3, SetTimer
    <2> QED
      BY <2>1, <2>3, <2>4 DEF Kept, Pending
  <1>3. ASSUME NEW i \in DOMAIN asked, Expire(i) PROVE Kept
    <2> DEFINE l == Latest(asked[i].ask)
               s == [asked EXCEPT ![i].timer = "fired"]
               v == IF Pending(l) THEN "timeout" ELSE s[l].outcome
    <2>1. /\ s \in Seq(Callback) /\ DOMAIN s = DOMAIN asked
          /\ \A j \in DOMAIN asked : s[j].outcome = asked[j].outcome
      BY <1>0, SetTimer
    <2>2. asked' = [s EXCEPT ![l].outcome = v]
      BY <1>3 DEF Expire
    <2>3. CASE l \in DOMAIN asked
      <3>1. s[l].outcome = asked[l].outcome
        BY <2>1, <2>3
      <3>7. asked[l] \in Callback
        <4> HIDE DEF l
        <4> QED
          BY <1>0, <2>3
      <3>2. asked[l].outcome \in Outcomes \cup {"none"}
        <4> HIDE DEF l
        <4> QED
          BY <3>7 DEF Callback
      <3>3. v \in Outcomes \cup {"none"}
        BY <3>1, <3>2 DEF Outcomes
      <3>4. ~Pending(l) => v = asked[l].outcome
        BY <3>1
      <3> HIDE DEF s, l, v
      <3>5. s \in Seq(Callback)
        BY <2>1
      <3>6. /\ [s EXCEPT ![l].outcome = v] \in Seq(Callback)
            /\ \A j \in DOMAIN s : [s EXCEPT ![l].outcome = v][j].outcome = IF j = l THEN v ELSE s[j].outcome
        BY <3>3, <3>5, SetOutcome
      <3> QED
        BY <2>1, <2>2, <3>4, <3>6 DEF Kept
    <2>4. CASE l \notin DOMAIN asked
      <3>1. asked' = s
        BY <2>1, <2>2, <2>4
      <3> QED
        BY <3>1, <2>1 DEF Kept
    <2> QED
      BY <2>3, <2>4
  <1>4. CASE UNCHANGED asked
    BY <1>4, <1>0 DEF Kept
  <1> QED
    BY <1>1, <1>2, <1>3, <1>4
    DEF Next, vars, Plan, Publish, Elapse, Cancel, FollowUp, Shift, Tick

LEMMA AskStep == AskInv /\ [Next]_vars => AskInv'
  <1> SUFFICES ASSUME AskInv, [Next]_vars PROVE AskInv'
    OBVIOUS
  <1>0. asked' \in Seq(Callback)
    BY AskedStep DEF Kept
  <1>1. ASSUME NEW a \in Alerts, Plan(a) PROVE AskInv'
    <2>1. /\ queue' = queue /\ DOMAIN plan' = DOMAIN plan
          /\ \A b \in Alerts : b # a => plan'[b] = plan[b]
      BY <1>1 DEF Plan
    <2>2. plan'[a].sent = 0
      BY <1>1 DEF Plan, AskInv
    <2> QED
      BY <1>0, <2>1, <2>2 DEF AskInv
  <1>2. ASSUME NEW a \in Alerts, Publish(a) PROVE AskInv'
    <2>1. plan[a].sent \in Nat
      BY <1>2 DEF Publish, AskInv
    <2>2. queue' = queue \/ queue' = Sent(<<a, plan[a].sent + 1>>)
      BY <1>2 DEF Publish
    <2>3. DOMAIN queue' \subseteq Alerts \X Nat
      <3> DEFINE e == <<a, plan[a].sent + 1>>
      <3>1. e \in Alerts \X Nat
        BY <2>1
      <3>2. DOMAIN queue \subseteq Alerts \X Nat
        BY DEF AskInv
      <3> HIDE DEF e
      <3>3. DOMAIN Sent(e) = {e} \cup DOMAIN queue
        BY DEF Sent
      <3> QED
        BY <2>2, <3>1, <3>2, <3>3 DEF e
    <2>4. DOMAIN plan' = Alerts /\ \A b \in Alerts : b # a => plan'[b] = plan[b]
      BY <1>2 DEF Publish, AskInv
    <2>5. plan'[a].stage = "publishing" => plan'[a].sent \in Nat
      <3>1. \/ plan'[a] = [plan[a] EXCEPT !.sent = plan[a].sent + 1]
            \/ plan'[a] = [plan[a] EXCEPT !.stage = "failed"]
            \/ plan'[a] = [plan[a] EXCEPT !.stage = "published"]
        BY <1>2 DEF Publish, AskInv
      <3>2. plan[a].stage = "publishing"
        BY <1>2 DEF Publish
      <3>3. plan[a].sent + 1 \in Nat
        BY <2>1
      <3>4. CASE plan'[a] = [plan[a] EXCEPT !.sent = plan[a].sent + 1]
        <4>1. plan'[a].sent \in {plan[a].sent, plan[a].sent + 1}
          BY <3>4
        <4> QED
          BY <4>1, <3>3, <2>1
      <3>5. CASE plan'[a] = [plan[a] EXCEPT !.stage = "failed"]
        <4>1. plan'[a].sent = plan[a].sent
          BY <3>5
        <4> QED
          BY <4>1, <2>1
      <3>6. CASE plan'[a] = [plan[a] EXCEPT !.stage = "published"]
        <4>1. plan'[a].sent = plan[a].sent
          BY <3>6
        <4> QED
          BY <4>1, <2>1
      <3> QED
        BY <3>1, <3>4, <3>5, <3>6
    <2> QED
      BY <1>0, <2>3, <2>4, <2>5 DEF AskInv
  <1>3. ASSUME NEW e \in DOMAIN queue, Handle(e) PROVE AskInv'
    BY <1>0, <1>3 DEF Handle, AskInv
  <1>4. CASE UNCHANGED <<plan, queue>>
    BY <1>0, <1>4 DEF AskInv
  <1> QED
    BY <1>1, <1>2, <1>3, <1>4
    DEF Next, vars, Elapse, Cancel, FollowUp, Shift, Tick, Respond, Expire

\* The outcome of a question stands, whatever is delivered again or fires late.
THEOREM AnswersStand == Spec => AnswerStands
  <1>1. Spec => []AskInv
    BY AskInit, AskStep, PTL DEF Spec
  <1>2. AskInv /\ [Next]_vars =>
          [\A i \in DOMAIN asked : ~Pending(i) => asked'[i].outcome = asked[i].outcome]_vars
    BY AskedStep DEF Kept
  <1> QED
    BY <1>1, <1>2, PTL DEF Spec, AnswerStands

=============================================================================
