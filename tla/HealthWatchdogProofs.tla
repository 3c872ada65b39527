------------------------ MODULE HealthWatchdogProofs ------------------------
(***************************************************************************)
(* Proofs about HealthWatchdog: after a complete round of probes the       *)
(* registry and the safe-action gate agree with every component that did   *)
(* not change meanwhile, for any number of components, failure modes and   *)
(* changes.  And about HomeClient, whose `ready` the Home Assistant probe  *)
(* reads: handlers are called in the order of the changes, for any number  *)
(* of entities, handlers, changes and lost connections.                    *)
(***************************************************************************)
EXTENDS HealthWatchdog, HomeClient, SequenceTheorems, TLAPS

\* The part of TypeOK the other invariants need.
Typed ==
  /\ at \in {"start", "probe", "report", "notify", "done", "cut"}
  /\ position \in 1..Len(Checks)
  /\ registry \in [Components -> Statuses \cup {"unknown"}]
  /\ active \subseteq Modes
  /\ condition \in [Components -> Conditions]
  /\ observed \in Statuses

\* In a round, the check at index i has been dealt with.
Processed(i) ==
  \/ at \in {"probe", "report"} /\ i < position
  \/ at \in {"notify", "done"} /\ i <= position

\* What was processed in this round and has not changed since is in the registry.
ProcessedIsRegistered ==
  \A i \in 1..Len(Checks) :
    Processed(i) /\ Checks[i] \notin changed =>
      registry[Checks[i]] = Seen(condition[Checks[i]])

\* The observation in hand is current unless its component has changed.
ObservedIsCurrent ==
  at = "report" /\ Current \notin changed => observed = Seen(condition[Current])

\* The gate follows the registry, for modes that have one owner.
GateFollowsRegistry ==
  \A c \in SoleOwners :
    registry[c] # "unknown" => (ModeOf[c] \in active <=> registry[c] # "ok")

RoundEndsAtLast == at = "done" => position = Len(Checks)

IInv ==
  /\ Typed
  /\ ProcessedIsRegistered
  /\ ObservedIsCurrent
  /\ GateFollowsRegistry
  /\ RoundEndsAtLast

-----------------------------------------------------------------------------

\* The checks are a non-empty sequence without repetitions, and the components
\* are its elements.
LEMMA ChecksFacts ==
  /\ Len(Checks) \in Nat /\ Len(Checks) >= 1
  /\ \A i \in 1..Len(Checks) : Checks[i] \in Components
  /\ \A c \in Components : \E i \in 1..Len(Checks) : Checks[i] = c
  /\ \A i, j \in 1..Len(Checks) : Checks[i] = Checks[j] => i = j
<1>1. Checks \in Seq(Components) /\ Checks # <<>>
  BY HealthAssumption
<1>2. Len(Checks) \in Nat /\ DOMAIN Checks = 1..Len(Checks)
  BY <1>1
<1>3. Len(Checks) >= 1
  BY <1>1, <1>2
<1>4. Components = {Checks[i] : i \in DOMAIN Checks}
  BY DEF Components, ToSet
<1> QED
  BY <1>2, <1>3, <1>4, HealthAssumption

\* What a probe that ended in a condition is taken for.
LEMMA SeenType ==
  \A how \in Conditions : Seen(how) \in Statuses
BY DEF Seen, Conditions, Statuses

-----------------------------------------------------------------------------
(* The invariant holds initially and is kept by every action.              *)

LEMMA InitTyped == Init => Typed
BY ChecksFacts DEF Init, Typed, Statuses, Modes

LEMMA InitIInv == Init => IInv
<1> SUFFICES ASSUME Init PROVE IInv
  OBVIOUS
<1>1. Typed
  BY InitTyped
<1>2. at = "start" /\ registry = [c \in Components |-> "unknown"]
  BY DEF Init
<1>3. ProcessedIsRegistered /\ ObservedIsCurrent /\ RoundEndsAtLast
  BY <1>2 DEF ProcessedIsRegistered, Processed, ObservedIsCurrent, RoundEndsAtLast
<1>4. GateFollowsRegistry
  BY <1>2 DEF GateFollowsRegistry, SoleOwners
<1> QED
  BY <1>1, <1>3, <1>4 DEF IInv

\* A change concerns a component that counts as changed from then on.
LEMMA ChangeIInv ==
  ASSUME IInv, NEW c \in Components, NEW to \in Conditions, Change(c, to)
  PROVE  IInv'
<1> USE DEF Change, loopVars
<1>1. Typed'
  BY DEF IInv, Typed
<1>2. \A d \in Components : d \notin changed' =>
        d \notin changed /\ condition'[d] = condition[d]
  BY DEF IInv, Typed
<1>3. ProcessedIsRegistered'
  BY <1>2, ChecksFacts DEF IInv, ProcessedIsRegistered, Processed, Seen
<1>4. ObservedIsCurrent'
  BY <1>2, ChecksFacts DEF IInv, Typed, ObservedIsCurrent, Current, Seen
<1>5. GateFollowsRegistry' /\ RoundEndsAtLast'
  BY DEF IInv, GateFollowsRegistry, RoundEndsAtLast
<1> QED
  BY <1>1, <1>3, <1>4, <1>5 DEF IInv

LEMMA BeginRoundIInv ==
  ASSUME IInv, BeginRound
  PROVE  IInv'
<1> USE DEF BeginRound
<1>1. Typed'
  BY ChecksFacts DEF IInv, Typed
<1>2. ProcessedIsRegistered'
  BY ChecksFacts DEF ProcessedIsRegistered, Processed
<1>3. ObservedIsCurrent' /\ RoundEndsAtLast'
  BY DEF ObservedIsCurrent, RoundEndsAtLast
<1>4. GateFollowsRegistry'
  BY DEF IInv, GateFollowsRegistry
<1> QED
  BY <1>1, <1>2, <1>3, <1>4 DEF IInv

LEMMA ProbeIInv ==
  ASSUME IInv, Probe
  PROVE  IInv'
<1> USE DEF Probe
<1>1. Current \in Components
  BY ChecksFacts DEF IInv, Typed, Current
<1>2. observed' \in Statuses
  BY <1>1, SeenType DEF IInv, Typed
<1>3. Typed'
  BY <1>2 DEF IInv, Typed
<1>4. ProcessedIsRegistered'
  BY DEF IInv, ProcessedIsRegistered, Processed
<1>5. ObservedIsCurrent' /\ RoundEndsAtLast'
  BY DEF IInv, ObservedIsCurrent, RoundEndsAtLast, Current
<1>6. GateFollowsRegistry'
  BY DEF IInv, GateFollowsRegistry
<1> QED
  BY <1>3, <1>4, <1>5, <1>6 DEF IInv

\* The next check is at the next index; the round is done after the last one.
LEMMA NextCheckFacts ==
  ASSUME Typed, NextCheck
  PROVE  /\ position' \in 1..Len(Checks)
         /\ at' = "probe" => position' = position + 1
         /\ at' = "done" => position' = position /\ position = Len(Checks)
         /\ at' \in {"probe", "done"}
BY ChecksFacts DEF Typed, NextCheck

\* After NextCheck exactly the checks up to the current one are processed.
LEMMA NextCheckProcessed ==
  ASSUME Typed, NextCheck, NEW i \in 1..Len(Checks)
  PROVE  Processed(i)' <=> i <= position
BY NextCheckFacts, ChecksFacts DEF Typed, Processed

\* Report changes active as to the current component's mode only.
LEMMA ActivatedFacts ==
  ASSUME NEW c \in Components, NEW d \in SoleOwners
  PROVE  /\ d = c => (ModeOf[d] \in Activated(c) <=> observed # "ok")
         /\ d # c => (ModeOf[d] \in Activated(c) <=> ModeOf[d] \in active)
BY DEF Activated, SoleOwners

LEMMA ActivatedType ==
  ASSUME Typed, NEW c \in Components
  PROVE  Activated(c) \subseteq Modes
BY DEF Typed, Activated, Modes

LEMMA ReportIInv ==
  ASSUME IInv, Report
  PROVE  IInv'
<1> DEFINE c == Current
<1>1. c \in Components /\ c = Checks[position] /\ position \in 1..Len(Checks)
  BY ChecksFacts DEF IInv, Typed, Current
<1>2. /\ at = "report" /\ registry' = [registry EXCEPT ![c] = observed]
      /\ active' = Activated(c)
      /\ condition' = condition /\ changed' = changed /\ observed' = observed
  BY DEF Report
<1>3. NextCheck \/ (at' = "notify" /\ position' = position)
  BY DEF Report
<1>4. /\ position' \in 1..Len(Checks)
      /\ at' \in {"probe", "done", "notify"}
      /\ at' = "done" => position' = Len(Checks)
  BY <1>1, <1>3, NextCheckFacts DEF IInv
<1>5. Typed'
  <2>1. registry' \in [Components -> Statuses \cup {"unknown"}]
    BY <1>1, <1>2 DEF IInv, Typed
  <2>2. active' \subseteq Modes
    BY <1>1, <1>2, ActivatedType DEF IInv
  <2> QED
    BY <1>2, <1>4, <2>1, <2>2 DEF IInv, Typed
<1>6. \A i \in 1..Len(Checks) : Processed(i)' <=> i <= position
  BY <1>1, <1>3, NextCheckProcessed, ChecksFacts DEF IInv, Typed, Processed
<1>7. ProcessedIsRegistered'
  <2> SUFFICES ASSUME NEW i \in 1..Len(Checks), Processed(i)',
                      Checks[i] \notin changed
               PROVE  registry'[Checks[i]] = Seen(condition[Checks[i]])
    BY <1>2 DEF ProcessedIsRegistered, Seen
  <2>1. i <= position
    BY <1>6
  <2>2. CASE i = position
    BY <1>1, <1>2, <2>2 DEF IInv, Typed, ObservedIsCurrent, Current
  <2>3. CASE i # position
    <3>1. Checks[i] # c /\ Checks[i] \in Components
      BY <1>1, <2>3, ChecksFacts
    <3>2. Processed(i)
      BY <1>1, <1>2, <2>1, <2>3, ChecksFacts DEF Processed
    <3> QED
      BY <1>2, <3>1, <3>2 DEF IInv, Typed, ProcessedIsRegistered
  <2> QED
    BY <2>2, <2>3
<1>8. GateFollowsRegistry'
  <2> SUFFICES ASSUME NEW d \in SoleOwners, registry'[d] # "unknown"
               PROVE  ModeOf[d] \in active' <=> registry'[d] # "ok"
    BY DEF GateFollowsRegistry
  <2>1. d \in Components
    BY DEF SoleOwners
  <2>2. CASE d = c
    BY <1>1, <1>2, <2>1, <2>2, ActivatedFacts DEF IInv, Typed
  <2>3. CASE d # c
    <3>1. registry'[d] = registry[d]
      BY <1>1, <1>2, <2>1, <2>3 DEF IInv, Typed
    <3>2. ModeOf[d] \in active' <=> ModeOf[d] \in active
      BY <1>1, <1>2, <2>3, ActivatedFacts
    <3> QED
      BY <3>1, <3>2 DEF IInv, GateFollowsRegistry
  <2> QED
    BY <2>2, <2>3
<1>9. ObservedIsCurrent' /\ RoundEndsAtLast'
  BY <1>4 DEF ObservedIsCurrent, RoundEndsAtLast
<1> QED
  BY <1>5, <1>7, <1>8, <1>9 DEF IInv

LEMMA NotifiedIInv ==
  ASSUME IInv, Notified
  PROVE  IInv'
<1>1. /\ at = "notify" /\ NextCheck
      /\ UNCHANGED <<condition, observed, registry, active, changed>>
  BY DEF Notified
<1>2. /\ position' \in 1..Len(Checks)
      /\ at' \in {"probe", "done"}
      /\ at' = "done" => position' = Len(Checks)
  BY <1>1, NextCheckFacts DEF IInv
<1>3. Typed'
  BY <1>1, <1>2 DEF IInv, Typed
<1>4. \A i \in 1..Len(Checks) : Processed(i)' => Processed(i)
  BY <1>1, NextCheckProcessed DEF IInv, Processed
<1>5. ProcessedIsRegistered'
  BY <1>1, <1>4 DEF IInv, ProcessedIsRegistered, Seen
<1>6. ObservedIsCurrent' /\ RoundEndsAtLast'
  BY <1>2 DEF ObservedIsCurrent, RoundEndsAtLast
<1>7. GateFollowsRegistry'
  BY <1>1 DEF IInv, GateFollowsRegistry
<1> QED
  BY <1>3, <1>5, <1>6, <1>7 DEF IInv

LEMMA NotifyFailsIInv ==
  ASSUME IInv, NotifyFails
  PROVE  IInv'
BY DEF IInv, NotifyFails, Typed, ProcessedIsRegistered, Processed,
       ObservedIsCurrent, GateFollowsRegistry, RoundEndsAtLast

LEMMA StutterIInv ==
  ASSUME IInv, UNCHANGED vars
  PROVE  IInv'
BY DEF IInv, vars, loopVars, Typed, ProcessedIsRegistered, Processed,
       ObservedIsCurrent, GateFollowsRegistry, RoundEndsAtLast, Current

LEMMA NextIInv == IInv /\ [Next]_vars => IInv'
<1> SUFFICES ASSUME IInv, [Next]_vars PROVE IInv'
  OBVIOUS
<1>1. ASSUME NEW c \in Components, NEW to \in Conditions, Change(c, to)
      PROVE  IInv'
  BY <1>1, ChangeIInv
<1>2. CASE BeginRound
  BY <1>2, BeginRoundIInv
<1>3. CASE Probe
  BY <1>3, ProbeIInv
<1>4. CASE Report
  BY <1>4, ReportIInv
<1>5. CASE Notified
  BY <1>5, NotifiedIInv
<1>6. CASE NotifyFails
  BY <1>6, NotifyFailsIInv
<1>7. CASE UNCHANGED vars
  BY <1>7, StutterIInv
<1> QED
  BY <1>1, <1>2, <1>3, <1>4, <1>5, <1>6, <1>7 DEF Next, Watchdog

-----------------------------------------------------------------------------

\* At the end of a round every component has been processed.
LEMMA IInvImpliesAccurate == IInv => CompleteRoundIsAccurate
<1> SUFFICES ASSUME IInv, at = "done", NEW c \in Components \ changed
             PROVE  /\ registry[c] = Seen(condition[c])
                    /\ c \in SoleOwners =>
                         (ModeOf[c] \in active <=> Seen(condition[c]) # "ok")
  BY DEF CompleteRoundIsAccurate
<1>1. PICK i \in 1..Len(Checks) : Checks[i] = c
  BY ChecksFacts
<1>2. Processed(i)
  BY ChecksFacts DEF IInv, RoundEndsAtLast, Processed
<1>3. registry[c] = Seen(condition[c])
  BY <1>1, <1>2 DEF IInv, ProcessedIsRegistered
<1>4. Seen(condition[c]) # "unknown"
  BY SeenType DEF IInv, Typed, Statuses
<1> QED
  BY <1>3, <1>4 DEF IInv, GateFollowsRegistry

\* After a complete round of the watchdog, the registry and the safe-action
\* gate agree with every component that did not change since the round began.
THEOREM RoundsAreAccurate == Spec => []CompleteRoundIsAccurate
<1>1. Init => IInv
  BY InitIInv
<1>2. IInv /\ [Next]_vars => IInv'
  BY NextIInv
<1>3. IInv => CompleteRoundIsAccurate
  BY IInvImpliesAccurate
<1> QED
  BY <1>1, <1>2, <1>3, PTL DEF Spec

-----------------------------------------------------------------------------
(* HomeClient.                                                             *)

NewStates == [of : Entities, state : Nat]

NoRepeats(q) == \A i, j \in 1..Len(q) : q[i] = q[j] => i = j

\* The part of TypeOK the rest needs, without the bound of the ticks.
ClientTypes ==
  /\ tick \in Nat
  /\ home \in [Entities -> Nat]
  /\ wire \in Seq(NewStates)
  /\ heard \in [Handlers -> [Entities -> Nat]]
  /\ handlers \in Seq(Handlers) /\ todo \in Seq(Handlers)
  /\ phase = "dispatch" => event \in NewStates

\* A handler is on the list once, and is called once for an event.
HandlersInv ==
  /\ NoRepeats(handlers) /\ NoRepeats(todo)
  /\ phase = "dispatch" => todo # <<>>

\* What is on the socket is in the order of the changes and nobody has heard it.
WireInv ==
  /\ \A i \in 1..Len(wire) : wire[i].state <= tick
  /\ \A i, j \in 1..Len(wire) :
       i < j /\ wire[j].state # 0 => wire[i].state < wire[j].state

HeardInv ==
  \A h \in Handlers, e \in Entities :
    /\ heard[h][e] <= tick
    /\ \A i \in 1..Len(wire) : wire[i].state # 0 => heard[h][e] < wire[i].state

\* The event in hand is older than what is on the socket, and newer than all
\* that the handlers still to be called have heard.
EventInv ==
  phase = "dispatch" =>
    /\ event.state <= tick
    /\ \A i \in 1..Len(wire) : wire[i].state # 0 => event.state < wire[i].state
    /\ \A i \in 1..Len(todo), e \in Entities : heard[todo[i]][e] < event.state

ClientInv == ClientTypes /\ HandlersInv /\ WireInv /\ HeardInv /\ EventInv

\* A part of the socket's events, in their order, is as good as all of them.
Part(q, s) ==
  /\ q \in Seq(NewStates)
  /\ \E n \in Nat : \A i \in 1..Len(q) : i + n \in 1..Len(s) /\ q[i] = s[i + n]

LEMMA PartOfSubSeq ==
  ASSUME NEW s \in Seq(NewStates), NEW n \in 0..Len(s)
  PROVE  Part(SubSeq(s, 1, n), s)
<1> DEFINE q == SubSeq(s, 1, n)
<1>1. Len(s) \in Nat /\ n \in Nat /\ n <= Len(s)
  BY LenProperties
<1>2. \A i \in 1..n : s[i] \in NewStates
  BY <1>1, ElementOfSeq
<1>3. /\ q \in Seq(NewStates) /\ Len(q) = IF 1 <= n THEN n - 1 + 1 ELSE 0
      /\ \A i \in 1..(n - 1 + 1) : q[i] = s[1 + i - 1]
  BY <1>1, <1>2, SubSeqProperties
<1> HIDE DEF q
<1>4. \A i \in 1..Len(q) : i + 0 \in 1..Len(s) /\ q[i] = s[i + 0]
  BY <1>1, <1>3
<1> QED
  BY <1>3, <1>4 DEF Part, q

LEMMA PartOfTail ==
  ASSUME NEW s \in Seq(NewStates), s # <<>>
  PROVE  Part(Tail(s), s)
<1>1. Tail(s) \in Seq(NewStates) /\ Len(Tail(s)) = Len(s) - 1 /\ Len(s) \in Nat
  BY HeadTailProperties, LenProperties
<1>2. \A i \in 1..Len(Tail(s)) : i + 1 \in 1..Len(s) /\ Tail(s)[i] = s[i + 1]
  BY <1>1, HeadTailProperties
<1> QED
  BY <1>1, <1>2 DEF Part

LEMMA NoPart ==
  ASSUME NEW s PROVE Part(<<>>, s)
BY EmptySeq DEF Part

\* Steps that take events off the socket, and change neither what was heard nor
\* the handlers, keep the invariant unless an event is begun.
Drops ==
  /\ tick' = tick /\ home' = home /\ heard' = heard
  /\ wire' = wire \/ Part(wire', wire)
  /\ handlers' = handlers
  /\ todo' = todo \/ todo' = <<>>
  /\ phase' = "dispatch" => phase = "dispatch" /\ event' = event /\ todo' = todo

LEMMA DropsKeep == ClientInv /\ Drops => ClientInv'
<1> SUFFICES ASSUME ClientInv, Drops PROVE ClientInv'
  OBVIOUS
<1> USE DEF ClientInv
<1>1. ClientTypes'
  BY EmptySeq DEF Drops, Part, ClientTypes
<1>2. HandlersInv'
  BY EmptySeq DEF Drops, HandlersInv, NoRepeats
<1>3. PICK n \in Nat : \A i \in 1..Len(wire') : i + n \in 1..Len(wire) /\ wire'[i] = wire[i + n]
  <2>1. CASE wire' = wire
    <3>1. \A i \in 1..Len(wire') : i + 0 \in 1..Len(wire) /\ wire'[i] = wire[i + 0]
      BY <2>1, LenProperties DEF ClientTypes
    <3> QED
      BY <3>1
  <2> QED
    BY <2>1 DEF Drops, Part
<1>4. Len(wire') \in Nat /\ Len(wire) \in Nat
  BY <1>1, LenProperties DEF ClientTypes
<1>5. WireInv'
  <2>1. \A i \in 1..Len(wire') : wire'[i].state <= tick'
    BY <1>3 DEF WireInv, Drops
  <2>2. \A i, j \in 1..Len(wire') :
          i < j /\ wire'[j].state # 0 => wire'[i].state < wire'[j].state
    <3> SUFFICES ASSUME NEW i \in 1..Len(wire'), NEW j \in 1..Len(wire'),
                        i < j, wire'[j].state # 0
                 PROVE  wire'[i].state < wire'[j].state
      OBVIOUS
    <3>1. i + n \in 1..Len(wire) /\ wire'[i] = wire[i + n]
      BY <1>3
    <3>2. j + n \in 1..Len(wire) /\ wire'[j] = wire[j + n]
      BY <1>3
    <3>3. i + n < j + n
      BY <1>4
    <3> HIDE <1>3
    <3> QED
      BY <3>1, <3>2, <3>3 DEF WireInv
  <2> QED
    BY <2>1, <2>2 DEF WireInv
<1>6. HeardInv'
  BY <1>3 DEF HeardInv, Drops
<1>7. EventInv'
  BY <1>3 DEF EventInv, Drops
<1> QED
  BY <1>1, <1>2, <1>5, <1>6, <1>7

LEMMA ChangedKeeps ==
  ASSUME ClientInv, NEW e \in Entities, NEW there \in BOOLEAN, Changed(e, there)
  PROVE  ClientInv'
<1> USE DEF ClientInv
<1> DEFINE news == [of |-> e, state |-> home'[e]]
<1>1. /\ tick' = tick + 1
      /\ UNCHANGED <<phase, todo, event, handlers, heard>>
  BY DEF Changed
<1>2. tick \in Nat /\ tick' \in Nat /\ Len(wire) \in Nat
  BY <1>1, LenProperties DEF ClientTypes
<1>3. \A i \in 1..Len(wire) : wire[i].state \in Nat
  <2>1. \A i \in 1..Len(wire) : wire[i] \in NewStates
    BY ElementOfSeq DEF ClientTypes
  <2> QED
    BY <2>1 DEF NewStates
<1>4. home' = [home EXCEPT ![e] = IF there THEN tick + 1 ELSE 0] /\ home' \in [Entities -> Nat]
  BY <1>2 DEF Changed, ClientTypes
<1>5. CASE wire' = wire
  <2>1. ClientTypes' /\ HandlersInv'
    BY <1>1, <1>2, <1>5, <1>4 DEF ClientTypes, HandlersInv, NoRepeats
  <2>2. WireInv'
    BY <1>1, <1>2, <1>5, <1>3 DEF WireInv
  <2>3. HeardInv'
    BY <1>1, <1>2, <1>5 DEF HeardInv, ClientTypes
  <2>4. EventInv'
    BY <1>1, <1>2, <1>5 DEF EventInv, ClientTypes, NewStates
  <2> QED
    BY <2>1, <2>2, <2>3, <2>4
<1>6. CASE wire' = Append(wire, news) /\ news.state \in {0, tick + 1}
  <2>1. news \in NewStates
    BY <1>2, <1>6 DEF NewStates
  <2> HIDE DEF news
  <2>2. /\ wire' \in Seq(NewStates) /\ Len(wire') = Len(wire) + 1
        /\ \A i \in 1..Len(wire) : wire'[i] = wire[i]
        /\ wire'[Len(wire) + 1] = news
    BY <1>6, <2>1, AppendProperties DEF ClientTypes
  <2>3. \A i \in 1..Len(wire') :
          i \in 1..Len(wire) \/ (wire'[i] = news /\ i = Len(wire) + 1)
    <3>1. \A i \in 1..Len(wire) + 1 : i \in 1..Len(wire) \/ i = Len(wire) + 1
      BY <1>2
    <3>2. Len(wire') = Len(wire) + 1 /\ wire'[Len(wire) + 1] = news
      BY <2>2
    <3> QED
      BY <3>1, <3>2
  <2>5. ClientTypes' /\ HandlersInv'
    BY <1>1, <1>2, <1>4, <2>2 DEF ClientTypes, HandlersInv, NoRepeats
  <2>6. WireInv'
    <3>1. \A i \in 1..Len(wire') : wire'[i].state <= tick'
      BY <1>1, <1>2, <1>6, <2>2, <2>3, <1>3 DEF WireInv
    <3>2. \A i, j \in 1..Len(wire') :
            i < j /\ wire'[j].state # 0 => wire'[i].state < wire'[j].state
      <4> SUFFICES ASSUME NEW i \in 1..Len(wire'), NEW j \in 1..Len(wire'),
                          i < j, wire'[j].state # 0
                   PROVE  wire'[i].state < wire'[j].state
        OBVIOUS
      <4>1. i \in 1..Len(wire) /\ wire'[i] = wire[i]
        <5>1. Len(wire') = Len(wire) + 1
          BY <2>2
        <5>2. i \in Nat /\ j \in Nat /\ 1 <= i /\ i < j /\ j <= Len(wire) + 1
          BY <1>2, <5>1
        <5>3. i \in 1..Len(wire)
          BY <1>2, <5>2
        <5> QED
          BY <2>2, <5>3
      <4>2. CASE j \in 1..Len(wire)
        BY <2>2, <4>1, <4>2 DEF WireInv
      <4>3. CASE wire'[j] = news
        BY <1>2, <1>6, <1>3, <4>1, <4>3 DEF WireInv
      <4> QED
        BY <2>3, <4>2, <4>3
    <3> QED
      BY <3>1, <3>2 DEF WireInv
  <2>7. HeardInv'
    <3> SUFFICES ASSUME NEW h \in Handlers, NEW x \in Entities
                 PROVE  /\ heard[h][x] <= tick + 1
                        /\ \A i \in 1..Len(wire') :
                             wire'[i].state # 0 => heard[h][x] < wire'[i].state
      BY <1>1 DEF HeardInv
    <3>1. heard[h][x] \in Nat /\ heard[h][x] <= tick
      BY DEF HeardInv, ClientTypes
    <3>2. \A i \in 1..Len(wire) : wire'[i].state # 0 => heard[h][x] < wire'[i].state
      BY <2>2 DEF HeardInv
    <3> QED
      BY <1>2, <1>6, <2>3, <3>1, <3>2
  <2>8. EventInv'
    <3> SUFFICES ASSUME phase = "dispatch"
                 PROVE  /\ event.state <= tick + 1
                        /\ \A i \in 1..Len(wire') :
                             wire'[i].state # 0 => event.state < wire'[i].state
      BY <1>1 DEF EventInv
    <3>1. event.state \in Nat /\ event.state <= tick
      BY DEF EventInv, ClientTypes, NewStates
    <3>2. \A i \in 1..Len(wire) : wire'[i].state # 0 => event.state < wire'[i].state
      BY <2>2 DEF EventInv
    <3> QED
      BY <1>2, <1>6, <2>3, <3>1, <3>2
  <2> QED
    BY <2>5, <2>6, <2>7, <2>8
<1> QED
  <2>1. wire' = wire \/ wire' = Append(wire, news)
    BY DEF Changed
  <2>2. home'[e] = IF there THEN tick + 1 ELSE 0
    BY <1>4 DEF ClientTypes
  <2> QED
    BY <1>5, <1>6, <2>1, <2>2

\* An event is begun: nobody has heard of a change as new as it.
LEMMA ConsumeKeeps == ClientInv /\ Consume => ClientInv'
<1> SUFFICES ASSUME ClientInv, Consume PROVE ClientInv'
  OBVIOUS
<1> USE DEF ClientInv
<1>1. /\ phase = "consume" /\ wire # <<>> /\ wire' = Tail(wire)
      /\ UNCHANGED <<home, tick, handlers, heard>>
  BY DEF Consume, serverVars
<1>2. Part(wire', wire) /\ wire \in Seq(NewStates)
  BY <1>1, PartOfTail DEF ClientTypes
<1>3. CASE Head(wire).state = 0
  <2>1. Drops
    BY <1>1, <1>2, <1>3 DEF Consume, Drops
  <2> QED
    BY <2>1, DropsKeep
<1>4. CASE Head(wire).state # 0
  <2> DEFINE head == Head(wire)
  <2>1. /\ event' = head /\ todo' = handlers
        /\ phase' = IF handlers = <<>> THEN "consume" ELSE "dispatch"
    BY <1>4 DEF Consume
  <2>2. /\ head \in NewStates /\ head = wire[1] /\ Len(wire) \in Nat /\ 1 \in 1..Len(wire)
        /\ Len(wire') = Len(wire) - 1
        /\ \A i \in 1..Len(wire') : wire'[i] = wire[i + 1]
    <3>1. Len(wire) \in Nat \ {0}
      BY <1>1, <1>2, EmptySeq, LenProperties
    <3>2. /\ Len(wire') = Len(wire) - 1
          /\ \A i \in 1..Len(wire') : wire'[i] = wire[i + 1]
      BY <1>1, <1>2, HeadTailProperties
    <3>3. head \in NewStates /\ head = wire[1]
      BY <1>1, <1>2, HeadTailProperties
    <3> QED
      BY <3>1, <3>2, <3>3
  <2>3. head.state # 0
    BY <1>4
  <2> HIDE DEF head
  <2>4. \A i \in 1..Len(wire') :
          /\ i + 1 \in 1..Len(wire) /\ 1 < i + 1
          /\ wire'[i] = wire[i + 1]
    BY <2>2
  <2>5. ClientTypes'
    BY <1>1, <1>2, <2>1, <2>2 DEF ClientTypes, Part
  <2>6. HandlersInv'
    BY <1>1, <2>1 DEF HandlersInv
  <2>7. WireInv'
    <3>1. \A i \in 1..Len(wire') : wire'[i].state <= tick'
      BY <1>1, <2>4 DEF WireInv
    <3>2. \A i, j \in 1..Len(wire') :
            i < j /\ wire'[j].state # 0 => wire'[i].state < wire'[j].state
      <4> SUFFICES ASSUME NEW i \in 1..Len(wire'), NEW j \in 1..Len(wire'),
                          i < j, wire'[j].state # 0
                   PROVE  wire'[i].state < wire'[j].state
        OBVIOUS
      <4>1. i + 1 < j + 1
        BY <2>2
      <4>2. /\ i + 1 \in 1..Len(wire) /\ wire'[i] = wire[i + 1]
            /\ j + 1 \in 1..Len(wire) /\ wire'[j] = wire[j + 1]
        BY <2>4
      <4> QED
        BY <4>1, <4>2 DEF WireInv
    <3> QED
      BY <3>1, <3>2 DEF WireInv
  <2>8. HeardInv'
    BY <1>1, <2>4 DEF HeardInv
  <2>9. EventInv'
    <3>1. head.state <= tick
      BY <2>2 DEF WireInv
    <3>2. \A i \in 1..Len(wire') : wire'[i].state # 0 => head.state < wire'[i].state
      BY <2>2, <2>4 DEF WireInv
    <3>3. \A h \in Handlers, e \in Entities : heard[h][e] < head.state
      BY <2>2, <2>3 DEF HeardInv
    <3>4. \A i \in 1..Len(handlers) : handlers[i] \in Handlers
      BY ElementOfSeq DEF ClientTypes
    <3> QED
      BY <1>1, <2>1, <3>1, <3>2, <3>3, <3>4 DEF EventInv
  <2> QED
    BY <2>5, <2>6, <2>7, <2>8, <2>9
<1> QED
  BY <1>3, <1>4

\* The next handler has heard of the event; those left are others.
LEMMA CallKeeps == ClientInv /\ Call => ClientInv'
<1> SUFFICES ASSUME ClientInv, Call PROVE ClientInv'
  OBVIOUS
<1> USE DEF ClientInv
<1> DEFINE h == Head(todo)
<1>1. /\ phase = "dispatch" /\ todo' = Tail(todo)
      /\ heard' = [heard EXCEPT ![h][event.of] = event.state]
      /\ phase' = IF Len(todo) = 1 THEN "consume" ELSE "dispatch"
      /\ UNCHANGED <<home, tick, wire, event, handlers>>
  BY DEF Call, serverVars
<1>2. /\ todo # <<>> /\ todo \in Seq(Handlers)
      /\ event.of \in Entities /\ event.state \in Nat
  BY <1>1 DEF HandlersInv, ClientTypes, NewStates
<1>3. /\ Len(todo) \in Nat \ {0} /\ h \in Handlers /\ h = todo[1]
      /\ todo' \in Seq(Handlers) /\ Len(todo') = Len(todo) - 1
      /\ \A i \in 1..Len(todo') : todo'[i] = todo[i + 1]
  <2>1. Len(todo) \in Nat \ {0}
    BY <1>2, EmptySeq, LenProperties
  <2>2. h \in Handlers /\ h = todo[1]
    BY <1>2, HeadTailProperties
  <2>3. /\ todo' \in Seq(Handlers) /\ Len(todo') = Len(todo) - 1
        /\ \A i \in 1..Len(todo') : todo'[i] = todo[i + 1]
    BY <1>1, <1>2, HeadTailProperties
  <2> QED
    BY <2>1, <2>2, <2>3
<1> HIDE DEF h
<1>4. \A i \in 1..Len(todo') :
        i + 1 \in 1..Len(todo) /\ i + 1 # 1 /\ 1 \in 1..Len(todo) /\ todo'[i] = todo[i + 1]
  BY <1>3
<1>5. \A i \in 1..Len(todo') : todo'[i] # h /\ todo'[i] \in Handlers
  <2>1. \A i \in 1..Len(todo) : todo[i] \in Handlers
    BY <1>2, ElementOfSeq
  <2> QED
    BY <1>3, <1>4, <2>1 DEF HandlersInv, NoRepeats
<1>6. heard' \in [Handlers -> [Entities -> Nat]]
  BY <1>1, <1>2, <1>3 DEF ClientTypes
<1>7. \A g \in Handlers, e \in Entities :
        \/ heard'[g][e] = heard[g][e]
        \/ g = h /\ heard'[g][e] = event.state
  BY <1>1, <1>2, <1>3 DEF ClientTypes
<1>8. ClientTypes'
  BY <1>1, <1>3, <1>6 DEF ClientTypes
<1>9. HandlersInv'
  <2>1. phase' = "dispatch" => Len(todo') # 0
    BY <1>1, <1>3
  <2>2. phase' = "dispatch" => todo' # <<>>
    BY <2>1, EmptySeq
  <2>3. NoRepeats(todo')
    <3> SUFFICES ASSUME NEW i \in 1..Len(todo'), NEW j \in 1..Len(todo'), todo'[i] = todo'[j]
                 PROVE  i = j
      BY DEF NoRepeats
    <3>1. i + 1 = j + 1
      BY <1>4 DEF HandlersInv, NoRepeats
    <3> QED
      BY <1>3, <3>1
  <2> QED
    BY <1>1, <2>2, <2>3 DEF HandlersInv
<1>10. WireInv'
  BY <1>1 DEF WireInv
<1>11. HeardInv'
  BY <1>1, <1>7 DEF HeardInv, EventInv
<1>12. EventInv'
  BY <1>1, <1>4, <1>5, <1>7 DEF EventInv
<1> QED
  BY <1>8, <1>9, <1>10, <1>11, <1>12

LEMMA OnStateChangeKeeps ==
  ASSUME ClientInv, NEW h \in Handlers, OnStateChange(h)
  PROVE  ClientInv'
<1> USE DEF ClientInv
<1>1. /\ \A i \in 1..Len(handlers) : handlers[i] # h
      /\ handlers' = Append(handlers, h)
      /\ UNCHANGED <<home, tick, wire, event, heard, todo, phase>>
  BY DEF OnStateChange, ToSet, serverVars, clientLoop, ClientTypes
<1>2. /\ handlers' \in Seq(Handlers) /\ Len(handlers') = Len(handlers) + 1
      /\ \A i \in 1..Len(handlers) : handlers'[i] = handlers[i]
      /\ handlers'[Len(handlers) + 1] = h
  BY <1>1, AppendProperties DEF ClientTypes
<1>3. Len(handlers) \in Nat
  BY LenProperties DEF ClientTypes
<1>4. \A i \in 1..Len(handlers) + 1 : i \in 1..Len(handlers) \/ i = Len(handlers) + 1
  BY <1>3
<1>5. NoRepeats(handlers')
  <2>1. Len(handlers') = Len(handlers) + 1 /\ handlers'[Len(handlers) + 1] = h
    BY <1>2
  <2> QED
    BY <1>1, <1>2, <1>4, <2>1 DEF NoRepeats, HandlersInv
<1> QED
  BY <1>1, <1>2, <1>5 DEF ClientTypes, HandlersInv, WireInv, HeardInv, EventInv

LEMMA RemoveHandlerKeeps ==
  ASSUME ClientInv, NEW h \in Handlers, RemoveHandler(h)
  PROVE  ClientInv'
<1> USE DEF ClientInv
<1>1. PICK n \in DOMAIN handlers : handlers' = RemoveAt(handlers, n)
  BY DEF RemoveHandler
<1>2. UNCHANGED <<home, tick, wire, event, heard, todo, phase>>
  BY DEF RemoveHandler, serverVars, clientLoop
<1> DEFINE a == SubSeq(handlers, 1, n - 1)
           b == SubSeq(handlers, n + 1, Len(handlers))
           len == Len(handlers)
<1>3. /\ len \in Nat /\ n \in Nat /\ 1 <= n /\ n <= len
      /\ \A i \in 1..len : handlers[i] \in Handlers
  BY ElementOfSeq, LenProperties DEF ClientTypes
<1>4. a \in Seq(Handlers) /\ Len(a) = n - 1 /\ \A i \in 1..n - 1 : a[i] = handlers[i]
  <2>1. \A i \in 1..n - 1 : handlers[i] \in Handlers
    BY <1>3
  <2>2. /\ a \in Seq(Handlers) /\ Len(a) = IF 1 <= n - 1 THEN n - 1 - 1 + 1 ELSE 0
        /\ \A i \in 1..(n - 1) - 1 + 1 : a[i] = handlers[1 + i - 1]
    BY <1>3, <2>1, SubSeqProperties
  <2> HIDE DEF a
  <2> QED
    BY <1>3, <2>2
<1>5. b \in Seq(Handlers) /\ Len(b) = len - n /\ \A i \in 1..len - n : b[i] = handlers[i + n]
  <2>1. \A i \in n + 1..len : handlers[i] \in Handlers
    BY <1>3
  <2>2. /\ b \in Seq(Handlers) /\ Len(b) = IF n + 1 <= len THEN len - (n + 1) + 1 ELSE 0
        /\ \A i \in 1..len - (n + 1) + 1 : b[i] = handlers[n + 1 + i - 1]
    BY <1>3, <2>1, SubSeqProperties
  <2> HIDE DEF b, len
  <2> QED
    BY <1>3, <2>2
<1>6. handlers' = a \o b
  BY <1>1 DEF RemoveAt
<1> HIDE DEF a, b, len
<1>7. /\ handlers' \in Seq(Handlers) /\ Len(handlers') = (n - 1) + (len - n)
      /\ \A i \in 1..(n - 1) + (len - n) :
           handlers'[i] = IF i <= n - 1 THEN a[i] ELSE b[i - (n - 1)]
  BY <1>4, <1>5, <1>6, ConcatProperties
<1>8. \A i \in 1..Len(handlers') :
        IF i < n THEN i \in 1..len /\ handlers'[i] = handlers[i]
        ELSE i + 1 \in 1..len /\ handlers'[i] = handlers[i + 1]
  <2> SUFFICES ASSUME NEW i \in 1..Len(handlers')
               PROVE  IF i < n THEN i \in 1..len /\ handlers'[i] = handlers[i]
                      ELSE i + 1 \in 1..len /\ handlers'[i] = handlers[i + 1]
    OBVIOUS
  <2>1. i \in Nat /\ 1 <= i /\ i <= len - 1 /\ i \in 1..(n - 1) + (len - n)
    BY <1>3, <1>7
  <2>2. CASE i < n
    <3>1. i \in 1..n - 1 /\ i <= n - 1 /\ i \in 1..len
      BY <1>3, <2>1, <2>2
    <3> QED
      BY <1>4, <1>7, <2>1, <2>2, <3>1
  <2>3. CASE ~ (i < n)
    <3>1. ~ (i <= n - 1) /\ i - (n - 1) \in 1..len - n /\ (i - (n - 1)) + n = i + 1
          /\ i + 1 \in 1..len
      BY <1>3, <2>1, <2>3
    <3>2. handlers'[i] = b[i - (n - 1)]
      BY <1>7, <2>1, <3>1
    <3>3. b[i - (n - 1)] = handlers[(i - (n - 1)) + n]
      BY <1>5, <3>1
    <3> QED
      BY <2>3, <3>1, <3>2, <3>3
  <2> QED
    BY <2>2, <2>3
<1>9. NoRepeats(handlers')
  <2> SUFFICES ASSUME NEW i \in 1..Len(handlers'), NEW j \in 1..Len(handlers'),
                      handlers'[i] = handlers'[j]
               PROVE  i = j
    BY DEF NoRepeats
  <2>1. \A x, y \in 1..len : handlers[x] = handlers[y] => x = y
    BY DEF HandlersInv, NoRepeats, len
  <2>2. i \in Nat /\ j \in Nat
    BY <1>3, <1>7
  <2>3. CASE i < n /\ j < n
    BY <1>8, <2>1, <2>3
  <2>4. CASE i < n /\ ~ (j < n)
    <3>1. i = j + 1
      BY <1>8, <2>1, <2>4
    <3> QED
      BY <1>3, <2>2, <2>4, <3>1
  <2>5. CASE ~ (i < n) /\ j < n
    <3>1. i + 1 = j
      BY <1>8, <2>1, <2>5
    <3> QED
      BY <1>3, <2>2, <2>5, <3>1
  <2>6. CASE ~ (i < n) /\ ~ (j < n)
    <3>1. i + 1 = j + 1
      BY <1>8, <2>1, <2>6
    <3> QED
      BY <2>2, <3>1
  <2> QED
    BY <2>3, <2>4, <2>5, <2>6
<1> QED
  BY <1>2, <1>7, <1>9 DEF ClientTypes, HandlersInv, WireInv, HeardInv, EventInv

LEMMA ClientInitially == ClientInit => ClientInv
<1> SUFFICES ASSUME ClientInit PROVE ClientInv
  OBVIOUS
<1> USE DEF ClientInit
<1>1. ClientTypes
  BY EmptySeq DEF ClientTypes
<1>2. Len(wire) = 0 /\ Len(handlers) = 0 /\ Len(todo) = 0 /\ phase # "dispatch"
  BY EmptySeq
<1>3. HandlersInv
  BY <1>2 DEF HandlersInv, NoRepeats
<1>4. WireInv /\ HeardInv /\ EventInv
  BY <1>2 DEF WireInv, HeardInv, EventInv
<1> QED
  BY <1>1, <1>3, <1>4 DEF ClientInv

LEMMA ClientInductive == ClientInv /\ [ClientNext]_(clientVars) => ClientInv'
<1> SUFFICES ASSUME ClientInv, [ClientNext]_(clientVars) PROVE ClientInv'
  OBVIOUS
<1> USE DEF serverVars, clientLoop
<1>1. CASE \E e \in Entities, there \in BOOLEAN : Changed(e, there)
  BY <1>1, ChangedKeeps
<1>2. CASE \E to \in {"up", "starting", "down"} : ServerMoves(to)
  <2>1. Drops
    BY <1>2 DEF ServerMoves, Drops
  <2> QED
    BY <2>1, DropsKeep
<1>3. CASE \E how \in {"closed", "broken"} : SocketEnds(how)
  <2>1. PICK n \in 0..Len(wire) : wire' = SubSeq(wire, 1, n)
    BY <1>3 DEF SocketEnds
  <2>2. Part(wire', wire)
    BY <2>1, PartOfSubSeq DEF ClientInv, ClientTypes
  <2>3. Drops
    BY <1>3, <2>2 DEF SocketEnds, Drops
  <2> QED
    BY <2>3, DropsKeep
<1>4. CASE Loop
  <2>1. CASE Connect
    <3>1. Part(<<>>, wire)
      BY NoPart
    <3>2. Drops
      BY <2>1, <3>1 DEF Connect, Sleep, Drops
    <3> QED
      BY <3>2, DropsKeep
  <2>2. CASE Lost \/ Authenticate \/ Subscribe \/ Replied
             \/ Closed \/ Wake
    <3>1. Drops
      BY <2>2 DEF Lost, Authenticate, Subscribe, Replied,
                  Closed, Wake, Sleep, Drops
    <3> QED
      BY <3>1, DropsKeep
  <2>3. CASE Consume
    BY <2>3, ConsumeKeeps
  <2>4. CASE Call
    BY <2>4, CallKeeps
  <2> QED
    BY <1>4, <2>1, <2>2, <2>3, <2>4 DEF Loop
<1>5. CASE Stop
  <2>1. Part(<<>>, wire)
    BY NoPart
  <2>2. Drops
    BY <1>5, <2>1 DEF Stop, Drops
  <2> QED
    BY <2>2, DropsKeep
<1>6. CASE \E h \in Handlers : OnStateChange(h) \/ RemoveHandler(h)
  BY <1>6, OnStateChangeKeeps, RemoveHandlerKeeps
<1>7. CASE \/ \E of \in Entities \cup {All} : Ask(of)
           \/ Answer \/ Resume \/ UNCHANGED clientVars
  <2>1. Drops
    BY <1>7 DEF Ask, Answer, Resume, clientVars, Drops
  <2> QED
    BY <2>1, DropsKeep
<1> QED
  BY <1>1, <1>2, <1>3, <1>4, <1>5, <1>6, <1>7 DEF ClientNext

\* A handler that is called for a change has not heard of it, nor of a later one,
\* whatever connections were lost and handlers came and went.
THEOREM HandlersHearInOrder == ClientSpec => DeliveriesAreInOrder
<1>1. ClientInv /\ [ClientNext]_(clientVars) =>
        [phase = "dispatch" /\ todo' = Tail(todo) /\ phase' # "ended" =>
           event.state > heard[Head(todo)][event.of]]_(clientVars)
  <2> SUFFICES ASSUME ClientInv, phase = "dispatch"
               PROVE  event.state > heard[Head(todo)][event.of]
    OBVIOUS
  <2>1. todo \in Seq(Handlers) /\ todo # <<>> /\ event \in NewStates
    BY DEF ClientInv, ClientTypes, HandlersInv
  <2>2. Head(todo) = todo[1] /\ 1 \in 1..Len(todo) /\ Head(todo) \in Handlers
    <3>1. Len(todo) \in Nat \ {0}
      BY <2>1, EmptySeq, LenProperties
    <3>2. Head(todo) = todo[1] /\ Head(todo) \in Handlers
      BY <2>1, HeadTailProperties
    <3> QED
      BY <3>1, <3>2
  <2>3. heard[Head(todo)][event.of] < event.state
    BY <2>1, <2>2 DEF ClientInv, EventInv, NewStates
  <2>4. heard[Head(todo)][event.of] \in Nat /\ event.state \in Nat
    BY <2>1, <2>2 DEF ClientInv, ClientTypes, NewStates
  <2> QED
    BY <2>3, <2>4
<1> QED
  BY ClientInitially, ClientInductive, <1>1, PTL
     DEF ClientSpec, DeliveriesAreInOrder

=============================================================================
