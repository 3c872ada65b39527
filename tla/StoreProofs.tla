---------------------------- MODULE StoreProofs ----------------------------
(***************************************************************************)
(* Proofs about what the program writes down: the actions taken and those  *)
(* recommended (ActionRuntime), the guidance of the home's people          *)
(* (Guidance), the alerts (AlertPath) and the faces (Identity).            *)
(***************************************************************************)
EXTENDS ActionRuntime, Guidance, AlertPath, Identity, FiniteSetTheorems, SequenceTheorems, TLAPS

----------------------------------------------------------------------------
(* The inductive invariant of ActionRuntime.                               *)

Rows == [rec : Recs, status : {"ok", "failed", "gated", "pending", "rejected"}]

\* No row speaks of a recommendation that was not made; a row of a refusal, and
\* nothing else, makes one neither passed nor executed.
LogInv ==
  /\ log \in Seq(Rows)
  /\ \A i \in DOMAIN log : call[log[i].rec] # "new"

\* The incidents behind an action are those of the recommendations that passed.
Behind(a) == {Incident[d] : d \in {d \in Passed : Action[d] = a}}

SeenInv ==
  /\ IsFiniteSet(Passed)
  /\ \A a \in Actions : seen[a] \subseteq Behind(a)

IInv == TypeOK /\ RevertsAreOnRecord /\ RecordsAreLive /\ LogInv /\ SeenInv /\ IncidentsAgree

----------------------------------------------------------------------------
(* The perception lane.                                                    *)

LEMMA PerceptionTypes ==
  ASSUME TypeOK, NEW r \in Requests,
         \/ Execute(r) \/ ServeApply(r) \/ ApplyFails(r) \/ Coalesce(r)
         \/ Reverting(r) \/ ServeRevert(r)
  PROVE  TypeOK'
  <1> USE DEF TypeOK, InFlight, protective
  <1>0. Key[r] \in Keys /\ NoRequest \notin Requests /\ On[r] \in BOOLEAN
    BY ActionRuntimeAssumption DEF Keys, Range
  <1>1. CASE Execute(r)
    BY <1>1 DEF Execute
  <1>2. CASE ServeApply(r)
    BY <1>0, <1>2 DEF ServeApply
  <1>3. CASE ApplyFails(r)
    BY <1>3 DEF ApplyFails
  <1>4. CASE Coalesce(r)
    BY <1>0, <1>4 DEF Coalesce, Cancelled
  <1>5. CASE Reverting(r)
    BY <1>0, <1>5 DEF Reverting, Wake, RevertEnds, Cleanup
  <1>6. CASE ServeRevert(r)
    BY <1>0, <1>6 DEF ServeRevert
  <1>7. QED
    BY <1>1, <1>2, <1>3, <1>4, <1>5, <1>6

LEMMA PerceptionStep ==
  ASSUME TypeOK, RevertsAreOnRecord, RecordsAreLive, [Next]_vars
  PROVE  RevertsAreOnRecord' /\ RecordsAreLive'
  <1> USE DEF TypeOK, InFlight, RevertsAreOnRecord, RecordsAreLive
  <1>0. NoRequest \notin Requests /\ \A r \in Requests : Key[r] \in Keys
    BY ActionRuntimeAssumption DEF Keys, Range
  <1>1. ASSUME NEW r \in Requests, Execute(r) \/ ServeApply(r) \/ ApplyFails(r)
        PROVE  RevertsAreOnRecord' /\ RecordsAreLive'
    BY <1>0, <1>1 DEF Execute, ServeApply, ApplyFails
  <1>2. ASSUME NEW r \in Requests, Coalesce(r)
        PROVE  RevertsAreOnRecord' /\ RecordsAreLive'
    <2>1. /\ \A k \in Keys : pending'[k] = IF k = Key[r] THEN r ELSE pending[k]
          /\ \A q \in Requests : revert'[q] =
               IF q = r THEN "asleep"
               ELSE IF q = pending[Key[r]] THEN Cancelled(revert[q]) ELSE revert[q]
      BY <1>0, <1>2 DEF Coalesce
    <2>2. \A q \in Requests : Cancelled(revert[q]) # "asleep"
      BY DEF Cancelled
    <2>3. RevertsAreOnRecord'
      BY <1>0, <2>1, <2>2
    <2>4. RecordsAreLive'
      BY <1>0, <2>1
    <2>5. QED
      BY <2>3, <2>4
  <1>3. ASSUME NEW r \in Requests, Wake(r)
        PROVE  RevertsAreOnRecord' /\ RecordsAreLive'
    BY <1>0, <1>3 DEF Wake
  <1>4. ASSUME NEW r \in Requests, RevertEnds(r)
        PROVE  RevertsAreOnRecord' /\ RecordsAreLive'
    BY <1>0, <1>4 DEF RevertEnds, Cleanup
  <1>5. ASSUME NEW r \in Requests, ServeRevert(r)
        PROVE  RevertsAreOnRecord' /\ RecordsAreLive'
    BY <1>0, <1>5 DEF ServeRevert
  <1>6. CASE Restart
    BY <1>0, <1>6 DEF Restart
  <1>7. ASSUME UNCHANGED <<revert, pending>>
        PROVE  RevertsAreOnRecord' /\ RecordsAreLive'
    BY <1>7
  <1>8. QED
    BY <1>1, <1>2, <1>3, <1>4, <1>5, <1>6, <1>7
      DEF Next, vars, perception, Reverting, Recommend, CallEnds, EditWhitelist

----------------------------------------------------------------------------
(* The protective lane.                                                    *)

\* A row at the end of the log.
LEMMA Logged ==
  ASSUME log \in Seq(Rows), NEW c \in Recs,
         NEW status \in {"ok", "failed", "gated", "pending", "rejected"},
         log' = Append(log, Row(c, status))
  PROVE  /\ log' \in Seq(Rows)
         /\ \A i \in DOMAIN log' : i \in DOMAIN log \/ i = Len(log) + 1
         /\ Len(log) + 1 \in DOMAIN log'
         /\ log'[Len(log) + 1] = Row(c, status)
         /\ \A i \in DOMAIN log : i \in DOMAIN log' /\ log'[i] = log[i]
  <1>1. Row(c, status) \in Rows
    BY DEF Row, Rows
  <1>2. /\ Len(log) \in Nat /\ DOMAIN log = 1..Len(log)
        /\ log' \in Seq(Rows) /\ DOMAIN log' = 1..(Len(log) + 1)
        /\ log'[Len(log) + 1] = Row(c, status)
        /\ \A i \in 1..Len(log) : log'[i] = log[i]
    BY <1>1, AppendProperties, LenProperties
  <1>3. QED
    BY <1>2

LEMMA LogIsTyped == LogInv => DOMAIN log = 1..Len(log) /\ \A i \in DOMAIN log : log[i] \in Rows
  <1> SUFFICES ASSUME LogInv PROVE DOMAIN log = 1..Len(log) /\ \A i \in DOMAIN log : log[i] \in Rows
    OBVIOUS
  <1>1. log \in Seq(Rows) /\ DOMAIN log = 1..Len(log)
    BY LenProperties DEF LogInv
  <1>2. QED
    BY <1>1, ElementOfSeq

LEMMA LoggedInv ==
  ASSUME LogInv, NEW c \in Recs,
         NEW status \in {"ok", "failed", "gated", "pending", "rejected"},
         log' = Append(log, Row(c, status)), call'[c] # "new",
         \A d \in Recs : call[d] # "new" => call'[d] # "new"
  PROVE  LogInv'
  <1>1. log \in Seq(Rows) /\ \A i \in DOMAIN log : log[i].rec \in Recs
    BY LogIsTyped DEF LogInv, Rows
  <1>2. log' \in Seq(Rows)
    BY <1>1, Logged
  <1>3. ASSUME NEW i \in DOMAIN log' PROVE call'[log'[i].rec] # "new"
    <2>1. CASE i \in DOMAIN log
      <3>1. log'[i] = log[i]
        BY <1>1, <2>1, Logged
      <3>2. QED
        BY <1>1, <2>1, <3>1 DEF LogInv
    <2>2. CASE i = Len(log) + 1
      <3>1. log'[i] = Row(c, status)
        BY <1>1, <2>2, Logged
      <3>2. QED
        BY <3>1 DEF Row
    <2>3. QED
      BY <1>1, <2>1, <2>2, Logged
  <1>4. QED
    BY <1>2, <1>3 DEF LogInv

LEMMA ProtectiveTypes ==
  ASSUME TypeOK, LogInv, NEW c \in Recs, Recommend(c) \/ CallEnds(c)
  PROVE  TypeOK' /\ LogInv'
  <1>1. Action[c] \in Actions /\ Incident[c] \in Range(Incident)
    BY ActionRuntimeAssumption DEF Actions, Range
  <1>2. CASE Recommend(c)
    <2>1. seen' \in [Actions -> SUBSET Range(Incident)]
      BY <1>1, <1>2 DEF Recommend, TypeOK
    <2>2. call' \in [Recs -> {"new", "sent", "over", "lost"}]
          /\ \A d \in Recs : call'[d] # "new" <=> (call[d] # "new" \/ d = c)
      BY <1>2 DEF Recommend, TypeOK
    <2>3. CASE log' = log
      BY <1>2, <2>1, <2>2, <2>3 DEF Recommend, perception, TypeOK, LogInv, Rows
    <2>4. CASE log' # log
      <3>1. PICK status \in {"ok", "failed", "gated", "pending", "rejected"} :
              log' = Append(log, Row(c, status))
        BY <1>2, <2>4 DEF Recommend, Gate
      <3>2. LogInv'
        BY <2>2, <3>1, LoggedInv
      <3>3. \A i \in DOMAIN log' : log'[i] \in Rows
        BY <3>2 DEF LogInv
      <3>4. QED
        BY <1>2, <2>1, <2>2, <3>2, <3>3 DEF Recommend, perception, TypeOK, Rows
    <2>5. QED
      BY <2>3, <2>4
  <1>3. CASE CallEnds(c)
    <2>1. PICK status \in {"ok", "failed"} : log' = Append(log, Row(c, status))
      BY <1>3 DEF CallEnds
    <2>2. call' \in [Recs -> {"new", "sent", "over", "lost"}]
          /\ \A d \in Recs : call'[d] # "new" <=> call[d] # "new"
      BY <1>3 DEF CallEnds, TypeOK
    <2>3. LogInv'
      BY <1>3, <2>1, <2>2, LoggedInv DEF CallEnds
    <2>4. \A i \in DOMAIN log' : log'[i] \in Rows
      BY <2>3 DEF LogInv
    <2>5. QED
      BY <1>3, <2>2, <2>3, <2>4 DEF CallEnds, perception, TypeOK, Rows
  <1>4. QED
    BY <1>2, <1>3

----------------------------------------------------------------------------
(* Who passed, and who was executed.                                       *)

HasRow(c, statuses) == \E i \in DOMAIN log : log[i].rec = c /\ log[i].status \in statuses
Waits(c)  == HasRow(c, {"pending"})
Counts(c) == HasRow(c, {"pending", "ok", "failed"})

LEMMA PassedAndExecuted ==
  ASSUME LogInv, LogInv', NEW c \in Recs
  PROVE  /\ c \in Passed <=> call[c] \in {"sent", "lost"} \/ Counts(c)
         /\ c \in Executed <=> c \in Passed /\ ~ Waits(c)
         /\ c \in Passed' <=> call'[c] \in {"sent", "lost"} \/ Counts(c)'
         /\ c \in Executed' <=> c \in Passed' /\ ~ Waits(c)'
  <1>1. \A i \in DOMAIN log : log[i] \in Rows
    BY LogIsTyped
  <1>2. \A i \in DOMAIN log' : log'[i] \in Rows
    <2>1. log' \in Seq(Rows) /\ DOMAIN log' = 1..Len(log')
      BY LenProperties DEF LogInv
    <2>2. QED
      BY <2>1, ElementOfSeq
  <1>3. /\ \A i \in DOMAIN log : log[i] = Row(c, "pending") <=> log[i].rec = c /\ log[i].status = "pending"
        /\ \A i \in DOMAIN log' : log'[i] = Row(c, "pending") <=> log'[i].rec = c /\ log'[i].status = "pending"
    BY <1>1, <1>2 DEF Row, Rows
  <1>4. /\ c \in Passed <=> call[c] \in {"sent", "lost"} \/ Counts(c)
        /\ c \in Passed' <=> call'[c] \in {"sent", "lost"} \/ Counts(c)'
    BY DEF Passed, Counts, HasRow
  <1>5. /\ c \in Executed <=> c \in Passed /\ ~ Waits(c)
        /\ c \in Executed' <=> c \in Passed' /\ ~ Waits(c)'
    BY <1>3 DEF Executed, Waits, HasRow
  <1>6. QED
    BY <1>4, <1>5

\* A step of c's own call leaves everybody else's rows alone.
LEMMA RowsAfter ==
  ASSUME LogInv, NEW c \in Recs,
         NEW status \in {"ok", "failed", "gated", "pending", "rejected"},
         log' = Append(log, Row(c, status))
  PROVE  \A d \in Recs : /\ Waits(d)' <=> Waits(d) \/ (d = c /\ status = "pending")
                         /\ Counts(d)' <=> Counts(d) \/ (d = c /\ status \in {"pending", "ok", "failed"})
  <1>1. log \in Seq(Rows)
    BY DEF LogInv
  <1> TAKE d \in Recs
  <1>2. /\ \A i \in DOMAIN log' : i \in DOMAIN log \/ i = Len(log) + 1
        /\ Len(log) + 1 \in DOMAIN log'
        /\ log'[Len(log) + 1].rec = c /\ log'[Len(log) + 1].status = status
        /\ \A i \in DOMAIN log : i \in DOMAIN log' /\ log'[i] = log[i]
    BY <1>1, Logged DEF Row
  <1>3. QED
    BY <1>2 DEF Waits, Counts, HasRow

\* Nothing but the step of a recommendation changes what passed: a restart only
\* takes the answer of a call.
LEMMA PassedStep ==
  ASSUME TypeOK, LogInv, LogInv', NEW c \in Recs, Recommend(c) \/ CallEnds(c)
  PROVE  /\ \A d \in Recs \ {c} : /\ d \in Passed' <=> d \in Passed
                                  /\ d \in Executed' <=> d \in Executed
         /\ c \in Passed => c \in Passed'
         /\ CallEnds(c) => c \in Passed /\ (c \in Executed' => c \in Executed)
         /\ Recommend(c) /\ c \in Executed' => Gate(c) = "ok" /\ Enough(c)
         /\ Recommend(c) /\ Gate(c) = "ok" => c \in Passed'
  <1>1. \A d \in Recs \ {c} : call'[d] = call[d]
    BY DEF Recommend, CallEnds, TypeOK
  <1>2. ASSUME NEW d \in Recs \ {c}, Waits(d)' <=> Waits(d), Counts(d)' <=> Counts(d)
        PROVE  (d \in Passed' <=> d \in Passed) /\ (d \in Executed' <=> d \in Executed)
    BY <1>1, <1>2, PassedAndExecuted
  <1>3. CASE Recommend(c) /\ Gate(c) = "ok" /\ Enough(c)
    <2>1. log' = log /\ call'[c] = "sent" /\ call[c] = "new"
      BY <1>3 DEF Recommend, TypeOK
    <2>2. \A d \in Recs \ {c} : (Waits(d)' <=> Waits(d)) /\ (Counts(d)' <=> Counts(d))
      BY <2>1 DEF Waits, Counts, HasRow
    <2>3. c \in Passed'
      BY <2>1, PassedAndExecuted
    <2>4. ~ CallEnds(c)
      BY <2>1 DEF CallEnds
    <2>5. QED
      BY <1>2, <1>3, <2>2, <2>3, <2>4
  <1>4. CASE Recommend(c) /\ ~ (Gate(c) = "ok" /\ Enough(c))
    <2> DEFINE status == IF Gate(c) = "ok" THEN "pending" ELSE Gate(c)
    <2>1. log' = Append(log, Row(c, status)) /\ call'[c] = "over" /\ call[c] = "new"
      BY <1>4 DEF Recommend, TypeOK
    <2>2. \/ Gate(c) = "ok" /\ status = "pending"
          \/ Gate(c) # "ok" /\ status \in {"gated", "rejected"}
      BY DEF Gate
    <2> HIDE DEF status
    <2>3. status \in {"ok", "failed", "gated", "pending", "rejected"}
      BY <2>2
    <2>4. /\ \A d \in Recs \ {c} : (Waits(d)' <=> Waits(d)) /\ (Counts(d)' <=> Counts(d))
          /\ Waits(c)' <=> Waits(c) \/ status = "pending"
          /\ Counts(c)' <=> Counts(c) \/ status \in {"pending", "ok", "failed"}
      BY <2>1, <2>3, RowsAfter
    <2>5. c \notin Passed
      <3>1. ~ Counts(c)
        BY <2>1 DEF Counts, HasRow, LogInv
      <3>2. QED
        BY <2>1, <3>1, PassedAndExecuted
    <2>6. c \notin Executed' /\ (Gate(c) = "ok" => c \in Passed')
      <3>1. CASE Gate(c) = "ok"
        <4>1. Waits(c)' /\ Counts(c)'
          BY <2>2, <2>4, <3>1
        <4>2. QED
          BY <4>1, PassedAndExecuted
      <3>2. CASE Gate(c) # "ok"
        <4>1. ~ Counts(c)'
          <5>1. ~ Counts(c)
            BY <2>5, PassedAndExecuted
          <5>2. QED
            BY <2>2, <2>4, <3>2, <5>1, Zenon
        <4>2. c \notin Passed'
          BY <2>1, <4>1, PassedAndExecuted
        <4>3. QED
          BY <3>2, <4>2, PassedAndExecuted
      <3>3. QED
        BY <3>1, <3>2
    <2>7. ~ CallEnds(c)
      BY <2>1 DEF CallEnds
    <2>8. QED
      BY <1>2, <2>4, <2>5, <2>6, <2>7
  <1>5. CASE CallEnds(c)
    <2>1. PICK status \in {"ok", "failed"} : log' = Append(log, Row(c, status))
      BY <1>5 DEF CallEnds
    <2>2. call[c] = "sent" /\ call'[c] = "over"
      BY <1>5 DEF CallEnds, TypeOK
    <2>3. \A d \in Recs : (Waits(d)' <=> Waits(d)) /\ (Counts(d)' <=> Counts(d) \/ d = c)
      BY <2>1, RowsAfter
    <2>4. c \in Passed /\ c \in Passed' /\ (c \in Executed' => c \in Executed)
      BY <2>2, <2>3, PassedAndExecuted
    <2>5. ~ Recommend(c)
      BY <2>2 DEF Recommend
    <2>6. QED
      BY <1>2, <2>3, <2>4, <2>5
  <1>6. QED
    BY <1>3, <1>4, <1>5

\* Only finitely many have passed, so their incidents can be counted.
LEMMA BehindGrows ==
  ASSUME Passed \subseteq Passed', IsFiniteSet(Passed'), NEW a
  PROVE  /\ Behind(a) \subseteq Behind(a)' /\ IsFiniteSet(Behind(a)')
         /\ Cardinality(Behind(a)) \in Nat /\ Cardinality(Behind(a)') \in Nat
         /\ Cardinality(Behind(a)) <= Cardinality(Behind(a)')
  <1>1. Behind(a) \subseteq Behind(a)'
    BY DEF Behind
  <1>2. IsFiniteSet(Behind(a)')
    <2> DEFINE D == {d \in Passed' : Action[d] = a}
               f == [d \in D |-> Incident[d]]
    <2>1. IsFiniteSet(D)
      BY FS_Subset
    <2>2. f \in Surjection(D, Behind(a)')
      BY DEF Surjection, Behind
    <2>3. QED
      BY <2>1, <2>2, FS_Surjection DEF ExistsSurjection
  <1>3. QED
    BY <1>1, <1>2, FS_Subset, FS_CardinalityType

LEMMA TypeStep == IInv /\ [Next]_vars => TypeOK' /\ LogInv'
  <1> SUFFICES ASSUME IInv, [Next]_vars PROVE TypeOK' /\ LogInv'
    OBVIOUS
  <1>0. TypeOK /\ LogInv
    BY DEF IInv
  <1>1. ASSUME NEW r \in Requests,
               \/ Execute(r) \/ ServeApply(r) \/ ApplyFails(r) \/ Coalesce(r)
               \/ Reverting(r) \/ ServeRevert(r)
        PROVE  TypeOK' /\ LogInv'
    <2>1. UNCHANGED <<log, call>>
      BY <1>1 DEF Execute, ServeApply, ApplyFails, Coalesce, Reverting, Wake, RevertEnds,
                  ServeRevert, protective
    <2>2. QED
      BY <1>0, <1>1, <2>1, PerceptionTypes DEF LogInv
  <1>2. ASSUME NEW c \in Recs, Recommend(c) \/ CallEnds(c) PROVE TypeOK' /\ LogInv'
    BY <1>0, <1>2, ProtectiveTypes
  <1>3. ASSUME NEW x \in Keys \cup Actions, EditWhitelist(x) PROVE TypeOK' /\ LogInv'
    BY <1>0, <1>3 DEF EditWhitelist, perception, protective, TypeOK, LogInv
  <1>4. CASE Restart
    <2>1. LogInv'
      <3>1. \A i \in DOMAIN log : log[i].rec \in Recs
        BY <1>0, LogIsTyped DEF Rows
      <3>2. \A c \in Recs : call[c] # "new" => call'[c] # "new"
        BY <1>4 DEF Restart
      <3>3. log' = log
        BY <1>4 DEF Restart
      <3>4. QED
        BY <1>0, <3>1, <3>2, <3>3 DEF LogInv
    <2>2. TypeOK'
      BY <1>0, <1>4 DEF Restart, TypeOK, InFlight
    <2>3. QED
      BY <2>1, <2>2
  <1>5. CASE UNCHANGED vars
    BY <1>0, <1>5 DEF vars, perception, protective, TypeOK, LogInv
  <1>6. QED
    BY <1>1, <1>2, <1>3, <1>4, <1>5 DEF Next

\* Who has passed stays so, and one more execution is one that was agreed on.
LEMMA ProtectiveStep == IInv /\ [Next]_vars => SeenInv' /\ IncidentsAgree'
  <1> SUFFICES ASSUME IInv, [Next]_vars PROVE SeenInv' /\ IncidentsAgree'
    OBVIOUS
  <1>0. TypeOK /\ LogInv /\ SeenInv /\ IncidentsAgree /\ TypeOK' /\ LogInv'
    BY TypeStep DEF IInv
  <1> USE DEF SeenInv
  <1>1. Passed \subseteq Recs /\ Executed \subseteq Passed /\ Executed' \subseteq Passed'
        /\ Passed' \subseteq Recs
    BY DEF Passed, Executed
  \* A step that executes nobody anew.
  <1>2. ASSUME Passed \subseteq Passed', IsFiniteSet(Passed'), Executed' \subseteq Executed
        PROVE  IncidentsAgree'
    <2>1. ASSUME NEW c \in Executed'
          PROVE  Cardinality(Behind(Action[c])') >= Required[Action[c]]
      <3>1. c \in Executed /\ Required[Action[c]] \in Nat
        BY <1>1, <1>2, <2>1, ActionRuntimeAssumption DEF Actions, Range
      <3>2. Cardinality(Behind(Action[c])) >= Required[Action[c]]
        BY <1>0, <3>1 DEF IncidentsAgree, Behind
      <3>3. QED
        BY <1>2, <3>1, <3>2, BehindGrows
    <2>2. QED
      BY <2>1 DEF IncidentsAgree, Behind
  \* A step that changes nothing that passed.
  <1>3. ASSUME Passed' = Passed, Executed' = Executed, \A a \in Actions : seen'[a] \subseteq seen[a]
        PROVE  SeenInv' /\ IncidentsAgree'
    <2>1. \A a \in Actions : Behind(a)' = Behind(a)
      BY <1>3 DEF Behind
    <2>2. QED
      BY <1>0, <1>2, <1>3, <2>1
  <1>4. ASSUME NEW c \in Recs, Recommend(c) PROVE SeenInv' /\ IncidentsAgree'
    <2>1. /\ \A d \in Recs \ {c} : /\ d \in Passed' <=> d \in Passed
                                   /\ d \in Executed' <=> d \in Executed
          /\ c \in Passed => c \in Passed'
          /\ c \in Executed' => Gate(c) = "ok" /\ Enough(c)
          /\ Gate(c) = "ok" => c \in Passed'
      BY <1>0, <1>4, PassedStep
    <2>2. Passed \subseteq Passed' /\ Passed' \subseteq Passed \cup {c}
      BY <1>1, <2>1
    <2>3. IsFiniteSet(Passed')
      BY <1>0, <2>2, FS_AddElement, FS_Subset
    <2>4. Action[c] \in Actions /\ Required[Action[c]] \in Nat /\ seen \in [Actions -> SUBSET Range(Incident)]
      BY <1>0, ActionRuntimeAssumption DEF Actions, Range, TypeOK
    <2>5. SeenInv'
      <3>1. ASSUME NEW a \in Actions PROVE seen'[a] \subseteq Behind(a)'
        <4>1. seen[a] \subseteq Behind(a)'
          BY <1>0, <2>2, <2>3, BehindGrows
        <4>2. CASE seen'[a] = seen[a]
          BY <4>1, <4>2
        <4>3. CASE seen'[a] # seen[a]
          <5>1. Gate(c) = "ok" /\ a = Action[c] /\ seen'[a] = seen[a] \cup {Incident[c]}
            BY <1>4, <2>4, <4>3 DEF Recommend
          <5>2. Incident[c] \in Behind(a)'
            BY <2>1, <5>1 DEF Behind
          <5>3. QED
            BY <4>1, <5>1, <5>2
        <4>4. QED
          BY <4>2, <4>3
      <3>2. QED
        BY <2>3, <3>1
    <2>6. IncidentsAgree'
      <3>1. ASSUME NEW d \in Executed'
            PROVE  Cardinality(Behind(Action[d])') >= Required[Action[d]]
        <4>1. CASE d # c
          <5>1. d \in Executed /\ d \in Recs /\ Required[Action[d]] \in Nat
            BY <1>1, <2>1, <3>1, <4>1, ActionRuntimeAssumption DEF Actions, Range
          <5>2. Cardinality(Behind(Action[d])) >= Required[Action[d]]
            BY <1>0, <5>1 DEF IncidentsAgree, Behind
          <5>3. QED
            BY <2>2, <2>3, <5>1, <5>2, BehindGrows
        <4>2. CASE d = c
          <5>1. Gate(c) = "ok" /\ Cardinality(seen[Action[c]] \cup {Incident[c]}) >= Required[Action[c]]
            BY <2>1, <3>1, <4>2 DEF Enough
          <5>2. seen[Action[c]] \cup {Incident[c]} \subseteq Behind(Action[c])'
            <6>1. seen[Action[c]] \subseteq Behind(Action[c])'
              BY <1>0, <2>2, <2>3, <2>4, BehindGrows
            <6>2. Incident[c] \in Behind(Action[c])'
              BY <2>1, <5>1 DEF Behind
            <6>3. QED
              BY <6>1, <6>2
          <5>3. IsFiniteSet(Behind(Action[c])') /\ Cardinality(Behind(Action[c])') \in Nat
            BY <2>2, <2>3, BehindGrows
          <5>4. /\ Cardinality(seen[Action[c]] \cup {Incident[c]}) \in Nat
                /\ Cardinality(seen[Action[c]] \cup {Incident[c]}) <= Cardinality(Behind(Action[c])')
            BY <5>2, <5>3, FS_Subset, FS_CardinalityType
          <5>5. QED
            BY <2>4, <4>2, <5>1, <5>3, <5>4
        <4>3. QED
          BY <4>1, <4>2
      <3>2. QED
        BY <3>1 DEF IncidentsAgree, Behind
    <2>7. QED
      BY <2>5, <2>6
  <1>5. ASSUME NEW c \in Recs, CallEnds(c) PROVE SeenInv' /\ IncidentsAgree'
    <2>1. Passed' = Passed /\ Executed' \subseteq Executed /\ seen' = seen
      <3>1. /\ \A d \in Recs \ {c} : /\ d \in Passed' <=> d \in Passed
                                     /\ d \in Executed' <=> d \in Executed
            /\ c \in Passed => c \in Passed'
            /\ c \in Passed /\ (c \in Executed' => c \in Executed)
        BY <1>0, <1>5, PassedStep
      <3>2. seen' = seen
        BY <1>5 DEF CallEnds
      <3>3. QED
        BY <1>1, <3>1, <3>2
    <2>2. \A a : Behind(a)' = Behind(a)
      BY <2>1 DEF Behind
    <2>3. QED
      BY <1>0, <1>2, <2>1, <2>2
  <1>6. CASE Restart
    <2>1. log' = log /\ \A c \in Recs : call'[c] \in {"sent", "lost"} <=> call[c] \in {"sent", "lost"}
      BY <1>0, <1>6 DEF Restart, TypeOK
    <2>2. Passed' = Passed
      BY <2>1 DEF Passed
    <2>3. Executed' = Executed
      BY <2>1, <2>2 DEF Executed
    <2>4. \A a \in Actions : seen'[a] \subseteq seen[a]
      BY <1>6 DEF Restart
    <2>5. QED
      BY <1>3, <2>2, <2>3, <2>4
  <1>7. ASSUME UNCHANGED <<call, log, seen>> PROVE SeenInv' /\ IncidentsAgree'
    <2>1. Passed' = Passed
      BY <1>7 DEF Passed
    <2>2. Executed' = Executed
      BY <1>7, <2>1 DEF Executed
    <2>3. QED
      BY <1>3, <1>7, <2>1, <2>2
  <1>8. QED
    BY <1>4, <1>5, <1>6, <1>7
      DEF Next, vars, protective, Execute, ServeApply, ApplyFails, Coalesce, Reverting, Wake,
          RevertEnds, ServeRevert, EditWhitelist

----------------------------------------------------------------------------
(* The theorems about ActionRuntime.                                       *)

LEMMA Initially == Init => IInv
  <1> SUFFICES ASSUME Init PROVE IInv
    OBVIOUS
  <1>1. TypeOK /\ LogInv
    BY DEF Init, TypeOK, LogInv, InFlight
  <1>2. RevertsAreOnRecord /\ RecordsAreLive
    BY DEF Init, RevertsAreOnRecord, RecordsAreLive
  <1>3. Passed = {} /\ Executed = {}
    BY DEF Init, Passed, Executed
  <1>4. SeenInv /\ IncidentsAgree
    BY <1>3, FS_EmptySet DEF Init, SeenInv, IncidentsAgree
  <1>5. QED
    BY <1>1, <1>2, <1>4 DEF IInv

LEMMA Inductive == Spec => []IInv
  <1>1. IInv /\ [Next]_vars => IInv'
    BY TypeStep, PerceptionStep, ProtectiveStep DEF IInv
  <1>2. QED
    BY Initially, <1>1, PTL DEF Spec

\* For any requests, targets and orders of the answers: a revert that is still
\* to come is the one on record for its target.
THEOREM OneRevertPerTarget == Spec => []RevertsAreOnRecord
  <1>1. IInv => RevertsAreOnRecord
    BY DEF IInv
  <1>2. QED
    BY Inductive, <1>1, PTL

\* What is on record is going to be reverted: no record outlives its task.
THEOREM NoRecordIsStale == Spec => []RecordsAreLive
  <1>1. IInv => RecordsAreLive
    BY DEF IInv
  <1>2. QED
    BY Inductive, <1>1, PTL

\* For any required count, whitelist and order of calls: a persistent action is
\* executed only when as many incidents as its entry requires recommended it.
THEOREM AgreedOn == Spec => []IncidentsAgree
  <1>1. IInv => IncidentsAgree
    BY DEF IInv
  <1>2. QED
    BY Inductive, <1>1, PTL


----------------------------------------------------------------------------
(* The inductive invariant of Guidance.                                    *)

GuidanceIds ==
  {NoId, Prefs} \cup {Area(a) : a \in Areas}
    \cup [fam : {"rule"}, name : Names, n : Nat] \cup [fam : {"policy"}, n : Nat]

Proposal ==
  {p \in [class : Classes, scope : Names \cup Areas \cup {"any"}, refines : GuidanceIds] :
     p.scope \in Scopes(p.class)}

TurnRow == [sess : Nat, role : {"user", "system"}, prop : Proposal \cup {NoProp},
            answers : Nat, committed : GuidanceIds]

Entry == [class : {"rule", "preference", "transient_intent", "dismissal_policy",
                  "situational_context", "access_profile", "area_posture"},
          by : Nat, gone : BOOLEAN, enabled : BOOLEAN]
Audit == [turn : Nat, says : Nat, refs : Seq(Nat)]

SessionRow == [user : Users, open : BOOLEAN, idle : BOOLEAN]
Suspended == [turn : Nat, sess : Nat, left : Int, retried : BOOLEAN]

GuideTypes ==
  /\ sessions \in Seq(SessionRow)
  /\ turns \in Seq(TurnRow)
  /\ request \in [Tabs -> Suspended \cup {Free}]
  /\ DOMAIN guidance \subseteq GuidanceIds /\ guidance \in [DOMAIN guidance -> Entry]
  /\ DOMAIN prov \subseteq GuidanceIds /\ prov \in [DOMAIN prov -> Audit]
  /\ DOMAIN graph \subseteq GuidanceIds
  /\ commits \in Nat /\ pageEdits \in Nat

\* Every generated id bears the number of a commit or an edit already made.
FreshInv == \A id \in DOMAIN guidance : Generated(id) => id.n <= commits + pageEdits

GuideInv == GuideTypes /\ FreshInv /\ AuditIsTrue

----------------------------------------------------------------------------
(* The conversation.                                                       *)

\* A nonempty set of numbers of rows has a latest one, and it is Latest.
LEMMA LeastIsOne ==
  ASSUME NEW S \in SUBSET Nat, S # {}
  PROVE  \E x \in S : \A y \in S : x <= y
  <1> DEFINE R == {ss \in Nat \X Nat : ss[1] < ss[2]}
  <1>1. IsWellFoundedOn(R, Nat)
    BY NatLessThanWellFounded DEF OpToRel
  <1> HIDE DEF R
  <1>2. PICK x \in S : \A y \in S : <<y, x>> \notin R
    BY <1>1, WFMin
  <1>3. ASSUME NEW y \in S PROVE x <= y
    <2>1. x \in Nat /\ y \in Nat
      OBVIOUS
    <2>2. ~ (y < x)
      BY <1>2, <2>1 DEF R
    <2>3. QED
      BY <2>1, <2>2
  <1>4. QED
    BY <1>3

LEMMA LatestIsOne ==
  ASSUME NEW n \in Nat, NEW S \in SUBSET (1..n), S # {}
  PROVE  Latest(S) \in S
  <1> DEFINE M == {n - s : s \in S}
  <1>0. \A s \in S : n - s \in Nat /\ s \in Nat
    OBVIOUS
  <1>1. M \subseteq Nat /\ M # {}
    BY <1>0
  <1>2. PICK m \in M : \A k \in M : m <= k
    BY <1>1, LeastIsOne
  <1>3. PICK s \in S : m = n - s
    BY <1>2
  <1>4. ASSUME NEW t \in S PROVE t <= s
    <2>1. m <= n - t
      BY <1>2
    <2>2. QED
      BY <1>0, <1>3, <2>1
  <1>5. QED
    BY <1>3, <1>4 DEF Latest

\* A step of a conversation adds at most one row to the transcript, which is not a
\* marker, and touches no store.
Talks ==
  \/ \E q \in Tabs : LlmReturns(q) \/ \E u \in Users : Turn(q, u)
  \/ \E u \in Users : ShowDrawer(u)
  \/ \E s \in DOMAIN sessions : GoesIdle(s)

Spoken ==
  /\ GuideTypes'
  /\ UNCHANGED <<prov, guidance, graph, commits, pageEdits>>
  /\ \/ UNCHANGED turns
     \/ \E x \in TurnRow : x.committed = NoId /\ turns' = Append(turns, x)

LEMMA RowsStay ==
  ASSUME NEW ss \in Seq(SessionRow), NEW s \in DOMAIN ss
  PROVE  LET closed == [ss EXCEPT ![s].open = FALSE]
             touched == Touched(ss, s)
             idle == [ss EXCEPT ![s].idle = TRUE]
         IN  /\ closed \in Seq(SessionRow) /\ Len(closed) = Len(ss)
             /\ touched \in Seq(SessionRow)
             /\ idle \in Seq(SessionRow)
  <1>1. /\ [ss[s] EXCEPT !.open = FALSE] \in SessionRow
        /\ [ss[s] EXCEPT !.idle = FALSE] \in SessionRow
        /\ [ss[s] EXCEPT !.idle = TRUE] \in SessionRow
    <2>1. ss[s] \in SessionRow
      OBVIOUS
    <2>2. \A z \in SessionRow : /\ [z EXCEPT !.open = FALSE] \in SessionRow
                                /\ [z EXCEPT !.idle = FALSE] \in SessionRow
                                /\ [z EXCEPT !.idle = TRUE] \in SessionRow
      BY DEF SessionRow
    <2>3. QED
      BY <2>1, <2>2
  <1>2. QED
    BY <1>1 DEF Touched

LEMMA SessionIsTyped ==
  ASSUME GuideTypes, NEW u \in Users
  PROVE  /\ Session(u).after \in Seq(SessionRow)
         /\ Session(u).id \in DOMAIN Session(u).after
         /\ Session(u).id \in Nat
  <1>0. sessions \in Seq(SessionRow) /\ DOMAIN sessions = 1..Len(sessions) /\ Len(sessions) \in Nat
    BY DEF GuideTypes
  <1>1. Unclosed(u) \subseteq 1..Len(sessions)
    BY <1>0 DEF Unclosed
  <1>2. Unclosed(u) # {} => Latest(Unclosed(u)) \in DOMAIN sessions
    BY <1>0, <1>1, LatestIsOne
  <1>3. CASE Unclosed(u) # {} /\ ~sessions[Latest(Unclosed(u))].idle
    BY <1>0, <1>2, <1>3 DEF Session
  <1>4. CASE ~(Unclosed(u) # {} /\ ~sessions[Latest(Unclosed(u))].idle)
    <2> DEFINE closed == IF Unclosed(u) = {} THEN sessions
                         ELSE [sessions EXCEPT ![Latest(Unclosed(u))].open = FALSE]
               new == [user |-> u, open |-> TRUE, idle |-> FALSE]
    <2>1. closed \in Seq(SessionRow) /\ Len(closed) = Len(sessions)
      BY <1>0, <1>2, RowsStay
    <2>2. new \in SessionRow
      BY DEF SessionRow
    <2> HIDE DEF closed, new
    <2>3. Append(closed, new) \in Seq(SessionRow) /\ Len(Append(closed, new)) = Len(sessions) + 1
      BY <1>0, <2>1, <2>2
    <2>4. Session(u) = [after |-> Append(closed, new), id |-> Len(sessions) + 1]
      BY <1>4 DEF Session, Reopen, closed, new
    <2>5. QED
      BY <1>0, <2>3, <2>4
  <1>5. QED
    BY <1>3, <1>4

LEMMA Conversation ==
  ASSUME GuideTypes, Talks
  PROVE  Spoken
  <1> USE DEF GuideTypes, Spoken
  <1>0. Calls \in Int
    BY GuidanceAssumption DEF Calls
  <1>a. NoId \in GuidanceIds
    BY DEF GuidanceIds
  <1>b. ASSUME NEW z \in Suspended
        PROVE  /\ [z EXCEPT !.left = @ - 1] \in Suspended
               /\ [z EXCEPT !.left = @ - 1, !.retried = TRUE] \in Suspended
    <2>1. z.left - 1 \in Int
      BY DEF Suspended
    <2>2. [z EXCEPT !.left = @ - 1] \in Suspended
      BY <2>1 DEF Suspended
    <2>3. [z EXCEPT !.left = @ - 1, !.retried = TRUE] \in Suspended
      BY <2>1 DEF Suspended
    <2>4. QED
      BY <2>2, <2>3
  <1>1. ASSUME NEW q \in Tabs, NEW u \in Users, Turn(q, u) PROVE Spoken
    <2> DEFINE after == Session(u).after
               id == Session(u).id
               x == Says(id)
    <2>1. after \in Seq(SessionRow) /\ id \in DOMAIN after /\ id \in Nat
      BY SessionIsTyped DEF after, id
    <2>2. sessions' = Touched(after, id) /\ turns' = Append(turns, x)
          /\ request' = [request EXCEPT ![q] =
               [turn |-> Len(turns) + 1, sess |-> id, left |-> Calls, retried |-> FALSE]]
          /\ UNCHANGED <<prov, guidance, graph, commits, pageEdits>>
      BY <1>1 DEF Turn, guidanceStores
    <2> HIDE DEF after, id
    <2>3. sessions' \in Seq(SessionRow)
      BY <2>1, <2>2, RowsStay
    <2>4. x \in TurnRow /\ x.committed = NoId
      BY <1>a, <2>1 DEF Says, TurnRow
    <2>5. request' \in [Tabs -> Suspended \cup {Free}]
      BY <1>0, <2>1, <2>2 DEF Suspended
    <2>6. turns' \in Seq(TurnRow)
      BY <2>2, <2>4
    <2>7. QED
      BY <2>2, <2>3, <2>4, <2>5, <2>6
  <1>2. ASSUME NEW q \in Tabs, LlmReturns(q) PROVE Spoken
    <2>0. request[q] # Free /\ request[q] \in Suspended
      BY <1>2 DEF LlmReturns, AsksTools, AnswersBadly, CallFails, Answers, Busy
    <2>1. ASSUME NEW p \in Proposal, Reply(q, p)
          PROVE  /\ GuideTypes'
                 /\ UNCHANGED <<prov, guidance, graph, commits, pageEdits>>
                 /\ \E x \in TurnRow : x.committed = NoId /\ turns' = Append(turns, x)
      <3> DEFINE x == Proposes(request[q], p)
      <3>1. x \in TurnRow /\ x.committed = NoId
        BY <1>a, <2>0 DEF Proposes, TurnRow, Suspended
      <3>2. turns' = Append(turns, x) /\ turns' \in Seq(TurnRow)
        BY <2>1, <3>1 DEF Reply
      <3>3. sessions' \in Seq(SessionRow)
        <4>1. sessions' = Touched(sessions, request[q].sess)
          BY <2>1 DEF Reply
        <4>2. CASE request[q].sess \in DOMAIN sessions
          BY <4>1, <4>2, RowsStay
        <4>3. CASE request[q].sess \notin DOMAIN sessions
          <5>1. sessions' = [i \in DOMAIN sessions |-> sessions[i]]
            BY <4>1, <4>3 DEF Touched
          <5>2. QED
            BY <5>1
        <4>4. QED
          BY <4>2, <4>3
      <3>4. request' \in [Tabs -> Suspended \cup {Free}]
        BY <2>1 DEF Reply
      <3>5. UNCHANGED <<prov, guidance, graph, commits, pageEdits>>
        BY <2>1 DEF Reply, guidanceStores
      <3>6. QED
        BY <3>1, <3>2, <3>3, <3>4, <3>5
    <2>2. ASSUME NEW r \in Suspended,
                 request' = [request EXCEPT ![q] = r],
                 UNCHANGED <<sessions, turns, guidanceStores, rt, commits, pageEdits>>
          PROVE  GuideTypes' /\ UNCHANGED <<turns, prov, guidance, graph, commits, pageEdits>>
      <3>1. UNCHANGED <<sessions, turns, prov, guidance, graph, commits, pageEdits>>
        BY <2>2 DEF guidanceStores
      <3>2. request' \in [Tabs -> Suspended \cup {Free}]
        BY <2>2
      <3>3. QED
        BY <3>1, <3>2
    <2>3. ASSUME FallBack(q)
          PROVE  \E p \in Proposal : Reply(q, p)
      <3>1. PICK p \in HeuristicProposals : WellScoped(p) /\ Reply(q, p)
        BY <2>3 DEF FallBack
      <3>2. p \in Proposal
        BY <1>a, <3>1 DEF HeuristicProposals, WellScoped, Proposal
      <3>3. QED
        BY <3>1, <3>2
    <2>4. ASSUME NEW r \in Suspended, NextCall(q, r)
          PROVE  \/ \E p \in Proposal : Reply(q, p)
                 \/ /\ request' = [request EXCEPT ![q] = r]
                    /\ UNCHANGED <<sessions, turns, guidanceStores, rt, commits, pageEdits>>
      BY <2>3, <2>4 DEF NextCall
    <2>5. CASE AsksTools(q)
      <3> DEFINE r == [request[q] EXCEPT !.left = @ - 1]
      <3>1. r \in Suspended
        BY <2>0, <1>b
      <3>2. NextCall(q, r)
        BY <2>5 DEF AsksTools
      <3> HIDE DEF r
      <3>3. QED
        BY <2>1, <2>2, <2>4, <3>1, <3>2
    <2>6. CASE AnswersBadly(q)
      <3> DEFINE r == [request[q] EXCEPT !.left = @ - 1, !.retried = TRUE]
      <3>1. r \in Suspended
        BY <2>0, <1>b
      <3>2. FallBack(q) \/ NextCall(q, r)
        BY <2>6 DEF AnswersBadly
      <3> HIDE DEF r
      <3>3. QED
        BY <2>1, <2>2, <2>3, <2>4, <3>1, <3>2
    <2>7. CASE CallFails(q)
      BY <2>1, <2>3, <2>7 DEF CallFails
    <2>8. CASE Answers(q)
      <3>1. PICK p \in LlmProposals(request[q].sess) : WellScoped(p) /\ Reply(q, p)
        BY <2>8 DEF Answers
      <3>2. Shown(request[q].sess) \subseteq GuidanceIds
        <4>1. \A i \in DOMAIN turns : turns[i].committed \in GuidanceIds
          <5>1. \A i \in DOMAIN turns : turns[i] \in TurnRow
            OBVIOUS
          <5>2. QED
            BY <5>1 DEF TurnRow
        <4>2. QED
          BY <4>1 DEF Shown, TurnsOf, Markers
      <3>3. PICK c \in Classes, z \in UNION {Scopes(d) : d \in Classes},
                 g \in Shown(request[q].sess) \cup {NoId} :
               p = [class |-> c, scope |-> z, refines |-> g]
        BY <3>1 DEF LlmProposals
      <3>4. z \in Names \cup Areas \cup {"any"}
        BY <3>3 DEF Scopes
      <3>5. p \in Proposal
        BY <1>a, <3>1, <3>2, <3>3, <3>4 DEF WellScoped, Proposal
      <3>6. QED
        BY <2>1, <3>1, <3>5
    <2>9. QED
      BY <1>2, <2>5, <2>6, <2>7, <2>8 DEF LlmReturns
  <1>3. ASSUME NEW u \in Users, ShowDrawer(u) PROVE Spoken
    BY <1>3, SessionIsTyped DEF ShowDrawer, guidanceStores
  <1>4. ASSUME NEW s \in DOMAIN sessions, GoesIdle(s) PROVE Spoken
    BY <1>4, RowsStay DEF GoesIdle, guidanceStores
  <1>5. QED
    BY <1>1, <1>2, <1>3, <1>4 DEF Talks

----------------------------------------------------------------------------
(* Confirmations and edits.                                                *)

\* A slug that is given to a new rule is no entry's.
LEMMA SlugIsNew ==
  ASSUME GuideTypes, FreshInv, NEW name \in Names
  PROVE  LET id == SlugFor(name, Fresh)
         IN  /\ id \in GuidanceIds /\ id \notin DOMAIN guidance
             /\ id.fam = "rule" /\ id.n <= commits + pageEdits + 1
  <1> DEFINE plain == [fam |-> "rule", name |-> name, n |-> 0]
             fresh == [fam |-> "rule", name |-> name, n |-> commits + pageEdits + 1]
  <1>1. commits \in Nat /\ pageEdits \in Nat
    BY DEF GuideTypes
  <1>2. plain \in GuidanceIds /\ fresh \in GuidanceIds
    BY <1>1 DEF GuidanceIds
  <1>3. [plain EXCEPT !.n = commits + pageEdits + 1] = fresh
    OBVIOUS
  <1>4. SlugFor(name, Fresh) = IF plain \in DOMAIN guidance THEN fresh ELSE plain
    BY <1>3 DEF SlugFor, Fresh
  <1>5. fresh \notin DOMAIN guidance
    BY <1>1 DEF FreshInv, Generated
  <1>6. QED
    BY <1>1, <1>2, <1>4, <1>5

LEMMA NewIdIsNew ==
  ASSUME GuideTypes, FreshInv, NEW p \in Proposal, p.class # "access_profile"
  PROVE  LET id == NewId(p)
         IN  /\ id \in GuidanceIds
             /\ id.fam = Family(p.class)
             /\ Generated(id) => id \notin DOMAIN guidance /\ id.n <= commits + pageEdits + 1
  <1>1. commits \in Nat /\ pageEdits \in Nat
    BY DEF GuideTypes
  <1>2. p.scope \in Scopes(p.class)
    BY DEF Proposal
  <1>3. p.class \in {"rule", "preference", "area_posture"} \cup PolicyClasses
    BY GuidanceAssumption DEF Proposal, GuideTypes, PolicyClasses
  <1>4. CASE p.class = "rule"
    <2>1. p.scope \in Names
      BY <1>2, <1>4 DEF Scopes
    <2>2. NewId(p) = SlugFor(p.scope, Fresh)
      BY <1>4 DEF NewId, PolicyClasses
    <2>3. Family(p.class) = "rule"
      BY <1>4 DEF Family, PolicyClasses
    <2>4. QED
      BY <2>1, <2>2, <2>3, SlugIsNew
  <1>5. CASE p.class = "preference"
    BY <1>5 DEF NewId, PolicyClasses, Prefs, Family, Generated, GuidanceIds
  <1>6. CASE p.class = "area_posture"
    <2>1. p.scope \in Areas
      BY <1>2, <1>6 DEF Scopes
    <2>2. QED
      BY <1>6, <2>1 DEF NewId, PolicyClasses, Area, Family, Generated, GuidanceIds
  <1>7. CASE p.class \in PolicyClasses
    <2> DEFINE fresh == [fam |-> "policy", n |-> commits + pageEdits + 1]
    <2>1. NewId(p) = fresh
      BY <1>7 DEF NewId, PolicyClasses, Fresh
    <2>2. fresh \in GuidanceIds /\ fresh \notin DOMAIN guidance
      BY <1>1 DEF GuidanceIds, FreshInv, Generated
    <2>3. Family(p.class) = "policy"
      BY <1>7 DEF Family
    <2>4. QED
      BY <1>1, <2>1, <2>2, <2>3
  <1>8. QED
    BY <1>3, <1>4, <1>5, <1>6, <1>7

\* What a step may do to the entries and to their provenance.
StaysGone(id) == guidance[id].gone => guidance'[id].gone
Grows(id) == prov'[id].turn = prov[id].turn /\ IsPrefix(prov[id].refs, prov'[id].refs)

GuidanceRowsStep ==
  /\ DOMAIN guidance \subseteq DOMAIN guidance'
  /\ DOMAIN guidance' \subseteq GuidanceIds /\ guidance' \in [DOMAIN guidance' -> Entry]
  /\ \A id \in DOMAIN guidance : StaysGone(id)
  /\ \A id \in DOMAIN guidance' \ DOMAIN guidance :
       Generated(id) => id.n <= commits + pageEdits + 1

\* The entry a confirmation makes, or changes.
LEMMA CreatedStep ==
  ASSUME GuideTypes, FreshInv, NEW p \in Proposal, p.class # "access_profile", NEW t \in Nat,
         guidance' = Created(NewId(p), p, t)
  PROVE  GuidanceRowsStep /\ (Generated(NewId(p)) => NewId(p) \in DOMAIN guidance')
  <1> DEFINE id == NewId(p)
             new == [class |-> p.class, by |-> t, gone |-> FALSE, enabled |-> TRUE]
  <1>1. id \in GuidanceIds /\ (Generated(id) => id \notin DOMAIN guidance /\ id.n <= commits + pageEdits + 1)
    BY NewIdIsNew
  <1>2. /\ DOMAIN guidance \subseteq GuidanceIds /\ guidance \in [DOMAIN guidance -> Entry]
        /\ commits \in Nat /\ pageEdits \in Nat
    BY DEF GuideTypes
  <1>3. new \in Entry
    BY GuidanceAssumption DEF Proposal, Entry, GuideTypes
  <1>4. \/ guidance' = guidance /\ id.fam = "area_posture"
        \/ id \in DOMAIN guidance /\ ~Generated(id) /\ guidance' = [guidance EXCEPT ![id].by = t]
        \/ /\ id \notin DOMAIN guidance
           /\ guidance' = [x \in DOMAIN guidance \cup {id} |-> IF x = id THEN new ELSE guidance[x]]
    BY <1>1 DEF Created, Set
  <1> HIDE DEF id, new
  <1>5. CASE guidance' = guidance /\ id.fam = "area_posture"
    BY <1>2, <1>5 DEF GuidanceRowsStep, StaysGone, Generated, id
  <1>6. CASE id \in DOMAIN guidance /\ ~Generated(id) /\ guidance' = [guidance EXCEPT ![id].by = t]
    <2>1. guidance[id] \in Entry /\ [guidance[id] EXCEPT !.by = t] \in Entry
          /\ [guidance[id] EXCEPT !.by = t].gone = guidance[id].gone
      BY <1>2, <1>6 DEF Entry
    <2>2. DOMAIN guidance' = DOMAIN guidance /\ \A x \in DOMAIN guidance :
            guidance'[x] = IF x = id THEN [guidance[id] EXCEPT !.by = t] ELSE guidance[x]
      BY <1>2, <1>6
    <2>3. guidance' \in [DOMAIN guidance' -> Entry]
      BY <1>2, <1>6, <2>1
    <2>4. QED
      BY <1>2, <1>6, <2>1, <2>2, <2>3 DEF GuidanceRowsStep, StaysGone, id
  <1>7. CASE /\ id \notin DOMAIN guidance
             /\ guidance' = [x \in DOMAIN guidance \cup {id} |-> IF x = id THEN new ELSE guidance[x]]
    BY <1>1, <1>2, <1>3, <1>7 DEF GuidanceRowsStep, StaysGone, id
  <1>8. QED
    BY <1>4, <1>5, <1>6, <1>7

LEMMA UpdatedStep ==
  ASSUME GuideTypes, NEW p, NEW t \in Nat, NEW id, guidance' = Updated(id, p, t)
  PROVE  GuidanceRowsStep /\ DOMAIN guidance' = DOMAIN guidance
  <1> DEFINE at == IF id.fam = "area_posture" THEN Area(p.scope) ELSE id
  <1>1. /\ DOMAIN guidance \subseteq GuidanceIds /\ guidance \in [DOMAIN guidance -> Entry]
        /\ commits \in Nat /\ pageEdits \in Nat
    BY DEF GuideTypes
  <1>2. guidance' = IF at \in DOMAIN guidance THEN [guidance EXCEPT ![at].by = t] ELSE guidance
    BY DEF Updated
  <1> HIDE DEF at
  <1>3. CASE at \in DOMAIN guidance
    <2>1. guidance[at] \in Entry /\ [guidance[at] EXCEPT !.by = t] \in Entry
          /\ [guidance[at] EXCEPT !.by = t].gone = guidance[at].gone
      BY <1>1, <1>3 DEF Entry
    <2>2. DOMAIN guidance' = DOMAIN guidance /\ \A x \in DOMAIN guidance :
            guidance'[x] = IF x = at THEN [guidance[at] EXCEPT !.by = t] ELSE guidance[x]
      BY <1>1, <1>2, <1>3
    <2>3. guidance' \in [DOMAIN guidance' -> Entry]
      BY <1>1, <1>2, <1>3, <2>1
    <2>4. QED
      BY <1>1, <1>3, <2>1, <2>2, <2>3 DEF GuidanceRowsStep, StaysGone
  <1>4. CASE at \notin DOMAIN guidance
    BY <1>1, <1>2, <1>4 DEF GuidanceRowsStep, StaysGone
  <1>5. QED
    BY <1>3, <1>4

\* The audit trail of a confirmation: nothing of a generated id is forgotten.
AuditStep ==
  /\ DOMAIN prov \subseteq DOMAIN prov'
  /\ DOMAIN prov' \subseteq GuidanceIds /\ prov' \in [DOMAIN prov' -> Audit]
  /\ \A id \in DOMAIN prov : Generated(id) => Grows(id)

LEMMA GrowsByStanding ==
  ASSUME GuideTypes, NEW id \in DOMAIN prov, prov'[id] = prov[id]
  PROVE  Grows(id)
  <1>1. prov[id] \in Audit
    BY DEF GuideTypes
  <1>2. prov[id].refs \in Seq(Nat)
    BY <1>1 DEF Audit
  <1>3. QED
    BY <1>2 DEF Grows, IsPrefix

LEMMA RecordedStep ==
  ASSUME GuideTypes, NEW id \in GuidanceIds, NEW t \in DOMAIN turns,
         Generated(id) => id \notin DOMAIN prov,
         prov' = Recorded(id, t)
  PROVE  AuditStep /\ DOMAIN prov' = DOMAIN prov \cup {id}
  <1> DEFINE new == [turn |-> t, says |-> Utterance(t), refs |-> <<>>]
             before == {i \in TurnsOf(turns[t].sess) \cap UserTurns : i < t}
  <1>0. DOMAIN turns = 1..Len(turns) /\ Len(turns) \in Nat
    BY DEF GuideTypes
  <1>1. before \in SUBSET (1..Len(turns))
    BY <1>0 DEF TurnsOf
  <1>2. Utterance(t) = IF before = {} THEN 0 ELSE Latest(before)
    BY DEF Utterance
  <1>3. Utterance(t) \in Nat
    <2> HIDE DEF before
    <2>1. CASE before = {}
      BY <1>2, <2>1
    <2>2. CASE before # {}
      <3>1. Latest(before) \in before
        BY <1>0, <1>1, <2>2, LatestIsOne
      <3>2. QED
        <4>1. Utterance(t) \in 1..Len(turns)
          BY <1>1, <1>2, <2>2, <3>1
        <4>2. QED
          BY <1>0, <4>1
    <2>3. QED
      BY <2>1, <2>2
  <1>4. new \in Audit
    BY <1>0, <1>3 DEF Audit
  <1> HIDE DEF new
  <1>5. prov' = [x \in DOMAIN prov \cup {id} |-> IF x = id THEN new ELSE prov[x]]
    BY DEF Recorded, Set, new
  <1>6. DOMAIN prov \subseteq GuidanceIds /\ prov \in [DOMAIN prov -> Audit]
    BY DEF GuideTypes
  <1>7. DOMAIN prov' = DOMAIN prov \cup {id} /\ prov' \in [DOMAIN prov' -> Audit]
    BY <1>4, <1>5, <1>6
  <1>8. \A x \in DOMAIN prov : Generated(x) => Grows(x)
    BY <1>5, GrowsByStanding
  <1>9. QED
    BY <1>6, <1>7, <1>8 DEF AuditStep

LEMMA RefinedStep ==
  ASSUME GuideTypes, NEW id \in DOMAIN prov, NEW t \in Nat, prov' = Refined(id, t)
  PROVE  AuditStep /\ DOMAIN prov' = DOMAIN prov
  <1>1. DOMAIN prov \subseteq GuidanceIds /\ prov \in [DOMAIN prov -> Audit] /\ prov[id] \in Audit
    BY DEF GuideTypes
  <1>2. prov[id].refs \in Seq(Nat) /\ prov[id].turn \in Nat /\ prov[id].says \in Nat
    BY <1>1 DEF Audit
  <1>3. CASE t \in Range(prov[id].refs)
    BY <1>1, <1>3, GrowsByStanding DEF Refined, AuditStep
  <1>4. CASE t \notin Range(prov[id].refs)
    <2> DEFINE longer == Append(prov[id].refs, t)
    <2>1. longer \in Seq(Nat) /\ IsPrefix(prov[id].refs, longer)
      BY <1>2 DEF IsPrefix
    <2>2. [prov[id] EXCEPT !.refs = longer] \in Audit
          /\ [prov[id] EXCEPT !.refs = longer].turn = prov[id].turn
          /\ [prov[id] EXCEPT !.refs = longer].refs = longer
      BY <1>1, <2>1 DEF Audit
    <2>3. DOMAIN prov' = DOMAIN prov /\ \A x \in DOMAIN prov :
            prov'[x] = IF x = id THEN [prov[id] EXCEPT !.refs = longer] ELSE prov[x]
      BY <1>1, <1>4 DEF Refined
    <2>4. prov' \in [DOMAIN prov' -> Audit]
      <3>1. prov' = [prov EXCEPT ![id] = [prov[id] EXCEPT !.refs = longer]]
        BY <1>1, <1>4 DEF Refined
      <3>2. QED
        BY <1>1, <2>2, <3>1
    <2> HIDE DEF longer
    <2>5. Grows(id)
      BY <2>1, <2>2, <2>3 DEF Grows
    <2>6. \A x \in DOMAIN prov : Grows(x)
      BY <2>3, <2>5, GrowsByStanding
    <2>7. QED
      BY <1>1, <2>3, <2>4, <2>6 DEF AuditStep
  <1>5. QED
    BY <1>3, <1>4

\* What every step does to the stores, and to what the audit trail claims.
StoresStep ==
  /\ GuidanceRowsStep /\ AuditStep
  /\ \A id \in DOMAIN prov' \ DOMAIN prov : Generated(id) => id \in DOMAIN guidance'
  /\ DOMAIN graph' \subseteq DOMAIN graph \cup DOMAIN guidance'
  /\ commits' + pageEdits' >= commits + pageEdits
  /\ (guidance' # guidance => commits' + pageEdits' >= commits + pageEdits + 1)
  /\ \/ turns' = turns
     \/ \E x \in TurnRow : /\ x.committed = NoId \/ x.committed \in DOMAIN prov'
                           /\ turns' = Append(turns, x)

LEMMA Standing ==
  ASSUME GuideTypes
  PROVE  /\ guidance' = guidance => GuidanceRowsStep
         /\ prov' = prov => AuditStep
  <1>1. guidance' = guidance => GuidanceRowsStep
    BY DEF GuideTypes, GuidanceRowsStep, StaysGone
  <1>2. prov' = prov => AuditStep
    BY GrowsByStanding DEF GuideTypes, AuditStep
  <1>3. QED
    BY <1>1, <1>2

LEMMA Confirmation ==
  ASSUME GuideInv, NEW t \in Proposals, NEW k \in 1..3, Confirm(t, k)
  PROVE  GuideTypes' /\ StoresStep
  <1> DEFINE p == turns[t].prop
             id == IF Refines(p) THEN p.refines ELSE NewId(p)
             mark == Marks(turns[t].sess, id)
  <1>0. GuideTypes /\ FreshInv /\ AuditIsTrue
    BY DEF GuideInv
  <1>1. t \in DOMAIN turns /\ t \in Nat /\ turns \in Seq(TurnRow)
    BY <1>0 DEF Proposals, GuideTypes
  <1>2. turns[t] \in TurnRow
    BY <1>1
  <1>3. p \in Proposal /\ turns[t].sess \in Nat
    BY <1>2 DEF TurnRow, Proposals
  <1>4. /\ p.class # "access_profile"
        /\ IF Refines(p) THEN Refine(id, p, t, k) ELSE Create(id, p, t, k)
        /\ IF k = 3
           THEN /\ turns' = Append(turns, mark)
                /\ sessions' = Touched(sessions, turns[t].sess)
           ELSE UNCHANGED <<turns, sessions>>
        /\ commits' = commits + 1
        /\ UNCHANGED <<request, ruleCache, pageEdits>>
    BY DEF Confirm
  <1>5. DOMAIN guidance \subseteq GuidanceIds /\ DOMAIN graph \subseteq GuidanceIds
        /\ DOMAIN prov \subseteq GuidanceIds /\ commits \in Nat /\ pageEdits \in Nat
    BY <1>0 DEF GuideTypes
  <1>6. /\ GuidanceRowsStep /\ AuditStep
        /\ \A x \in DOMAIN prov' \ DOMAIN prov : Generated(x) => x \in DOMAIN guidance'
        /\ DOMAIN graph' \subseteq DOMAIN graph \cup DOMAIN guidance'
        /\ id \in GuidanceIds /\ (k = 3 => id \in DOMAIN prov')
    <2>1. CASE Refines(p)
      <3>1. id \in DOMAIN prov
        BY <2>1 DEF Refines
      <3>2. guidance' = Updated(id, p, t) /\ (prov' = Refined(id, t) \/ prov' = prov) /\ graph' = graph
        BY <1>4, <2>1 DEF Refine
      <3>3. GuidanceRowsStep
        BY <1>0, <1>1, <3>2, UpdatedStep
      <3>4. AuditStep /\ DOMAIN prov' = DOMAIN prov
        BY <1>0, <1>1, <3>1, <3>2, RefinedStep, Standing
      <3>5. QED
        BY <1>5, <3>1, <3>2, <3>3, <3>4
    <2>2. CASE ~Refines(p)
      <3>1. id = NewId(p)
        BY <2>2
      <3>2. /\ id \in GuidanceIds
            /\ Generated(id) => id \notin DOMAIN guidance
        BY <1>0, <1>3, <1>4, <3>1, NewIdIsNew
      <3>3. Generated(id) => id \notin DOMAIN prov
        BY <1>0, <3>2 DEF AuditIsTrue
      <3>4. /\ guidance' = Created(id, p, t)
            /\ prov' = IF k >= 2 THEN Recorded(id, t) ELSE prov
            /\ graph' \in {graph, IF k >= 2 /\ id.fam = "policy" THEN Set(graph, id, t) ELSE graph}
        BY <1>4, <2>2 DEF Create
      <3> HIDE DEF id, p
      <3>5. GuidanceRowsStep /\ (Generated(id) => id \in DOMAIN guidance')
        BY <1>0, <1>1, <1>3, <1>4, <3>1, <3>4, CreatedStep
      <3>6. CASE k >= 2
        <4>1. prov' = Recorded(id, t)
          BY <3>4, <3>6
        <4>2. AuditStep /\ DOMAIN prov' = DOMAIN prov \cup {id}
          BY <1>0, <1>1, <3>2, <3>3, <4>1, RecordedStep
        <4>3. graph' = graph \/ (id.fam = "policy" /\ graph' = [x \in DOMAIN graph \cup {id} |-> IF x = id THEN t ELSE graph[x]])
          BY <3>4 DEF Set
        <4>4. DOMAIN graph' \subseteq DOMAIN graph \cup DOMAIN guidance'
          BY <3>5, <4>3 DEF Generated
        <4>5. QED
          BY <3>2, <3>5, <4>2, <4>4
      <3>7. CASE ~(k >= 2)
        <4>1. prov' = prov /\ graph' = graph /\ k # 3
          BY <3>4, <3>7
        <4>2. QED
          BY <1>0, <3>2, <3>5, <4>1, Standing
      <3>8. QED
        BY <3>6, <3>7
    <2>3. QED
      BY <2>1, <2>2
  <1>7. mark \in TurnRow /\ mark.committed = id
    BY <1>3, <1>6 DEF Marks, TurnRow
  <1> HIDE DEF id, p, mark
  <1>8. /\ turns' \in Seq(TurnRow)
        /\ \/ turns' = turns
           \/ \E x \in TurnRow : x.committed \in DOMAIN prov' /\ turns' = Append(turns, x)
    <2>1. CASE k = 3
      BY <1>1, <1>4, <1>6, <1>7, <2>1
    <2>2. CASE k # 3
      BY <1>1, <1>4, <2>2
    <2>3. QED
      BY <2>1, <2>2
  <1>9. sessions' \in Seq(SessionRow)
    <2>0. sessions \in Seq(SessionRow)
      BY <1>0 DEF GuideTypes
    <2>1. CASE k = 3 /\ turns[t].sess \in DOMAIN sessions
      BY <1>4, <2>0, <2>1, RowsStay
    <2>2. CASE k = 3 /\ turns[t].sess \notin DOMAIN sessions
      <3>1. sessions' = [i \in DOMAIN sessions |-> sessions[i]]
        BY <1>4, <2>0, <2>2 DEF Touched
      <3>2. QED
        BY <2>0, <3>1
    <2>3. CASE k # 3
      BY <1>4, <2>0, <2>3
    <2>4. QED
      BY <2>1, <2>2, <2>3
  <1>10. DOMAIN graph' \subseteq GuidanceIds /\ commits' \in Nat /\ pageEdits' = pageEdits /\ request' = request
    BY <1>4, <1>5, <1>6 DEF GuidanceRowsStep
  <1>11. GuideTypes'
    BY <1>0, <1>6, <1>8, <1>9, <1>10 DEF GuideTypes, GuidanceRowsStep, AuditStep
  <1>12. StoresStep
    BY <1>4, <1>5, <1>6, <1>8, <1>10 DEF StoresStep
  <1>13. QED
    BY <1>11, <1>12

\* The pages change an entry, or write a new rule.
LEMMA Editing ==
  ASSUME GuideInv,
         \/ \E id \in DOMAIN guidance : Withdraw(id) \/ \E on \in BOOLEAN : Enable(id, on)
         \/ \E name \in Names : SaveRule(name)
         \/ SavePreferences
  PROVE  GuideTypes' /\ StoresStep
  <1>0. GuideTypes /\ FreshInv
    BY DEF GuideInv
  <1>1. /\ DOMAIN guidance \subseteq GuidanceIds /\ guidance \in [DOMAIN guidance -> Entry]
        /\ DOMAIN graph \subseteq GuidanceIds /\ commits \in Nat /\ pageEdits \in Nat
    BY <1>0 DEF GuideTypes
  <1>2. /\ pageEdits' = pageEdits + 1
        /\ UNCHANGED <<sessions, turns, prov, graph, request, commits>>
    BY DEF Withdraw, Enable, Edit, SaveRule, SavePreferences
  <1>3. GuidanceRowsStep
    <2>1. ASSUME NEW id \in DOMAIN guidance, NEW row \in Entry, guidance[id].gone => row.gone,
                 guidance' = [guidance EXCEPT ![id] = row]
          PROVE  GuidanceRowsStep
      <3>1. DOMAIN guidance' = DOMAIN guidance /\ guidance' \in [DOMAIN guidance' -> Entry]
        BY <1>1, <2>1
      <3>2. \A x \in DOMAIN guidance : guidance'[x] = IF x = id THEN row ELSE guidance[x]
        BY <1>1, <2>1
      <3>3. QED
        BY <1>1, <2>1, <3>1, <3>2 DEF GuidanceRowsStep, StaysGone
    <2>2. ASSUME NEW row \in Entry
          PROVE  /\ [row EXCEPT !.gone = TRUE] \in Entry /\ [row EXCEPT !.gone = TRUE].gone
                 /\ \A on \in BOOLEAN : /\ [row EXCEPT !.enabled = on] \in Entry
                                        /\ [row EXCEPT !.enabled = on].gone = row.gone
                 /\ [row EXCEPT !.by = 0] \in Entry /\ [row EXCEPT !.by = 0].gone = row.gone
      BY DEF Entry
    <2>3. ASSUME NEW id \in DOMAIN guidance, Withdraw(id)
          PROVE  GuidanceRowsStep
      <3>1. guidance' = [guidance EXCEPT ![id] = [guidance[id] EXCEPT !.gone = TRUE]]
        BY <2>3 DEF Withdraw, Edit
      <3>2. guidance[id] \in Entry
        BY <1>1
      <3>3. QED
        BY <2>1, <2>2, <3>1, <3>2
    <2>4. ASSUME NEW id \in DOMAIN guidance, NEW on \in BOOLEAN, Enable(id, on)
          PROVE  GuidanceRowsStep
      <3>1. guidance' = [guidance EXCEPT ![id] = [guidance[id] EXCEPT !.enabled = on]]
        BY <2>4 DEF Enable, Edit
      <3>2. guidance[id] \in Entry
        BY <1>1
      <3>3. QED
        BY <2>1, <2>2, <3>1, <3>2
    <2>5. ASSUME NEW name \in Names, SaveRule(name)
          PROVE  GuidanceRowsStep
      <3> DEFINE id == SlugFor(name, Fresh)
                 row == [class |-> "rule", by |-> 0, gone |-> FALSE, enabled |-> TRUE]
      <3>1. guidance' = [x \in DOMAIN guidance \cup {id} |-> IF x = id THEN row ELSE guidance[x]]
        BY <2>5 DEF SaveRule, Set
      <3>2. id \in GuidanceIds /\ id \notin DOMAIN guidance /\ id.n <= commits + pageEdits + 1
        BY <1>0, SlugIsNew
      <3>3. row \in Entry
        BY DEF Entry
      <3> HIDE DEF id, row
      <3>4. QED
        BY <1>1, <3>1, <3>2, <3>3 DEF GuidanceRowsStep, StaysGone
    <2>6. ASSUME SavePreferences
          PROVE  GuidanceRowsStep
      <3>1. guidance' = [guidance EXCEPT ![Prefs].by = 0]
        BY <2>6 DEF SavePreferences
      <3>2. CASE Prefs \in DOMAIN guidance
        <4>1. guidance' = [guidance EXCEPT ![Prefs] = [guidance[Prefs] EXCEPT !.by = 0]]
          BY <3>1
        <4>2. guidance[Prefs] \in Entry
          BY <1>1, <3>2
        <4>3. QED
          BY <2>1, <2>2, <3>2, <4>1, <4>2
      <3>3. CASE Prefs \notin DOMAIN guidance
        <4>1. guidance' = guidance
          BY <1>1, <3>1, <3>3
        <4>2. QED
          BY <1>0, <4>1, Standing
      <3>4. QED
        BY <3>2, <3>3
    <2>7. QED
      BY <2>3, <2>4, <2>5, <2>6
  <1>4. AuditStep
    BY <1>0, <1>2, Standing
  <1>5. GuideTypes'
    BY <1>0, <1>1, <1>2, <1>3, <1>4 DEF GuideTypes, GuidanceRowsStep, AuditStep
  <1>6. StoresStep
    BY <1>1, <1>2, <1>3, <1>4 DEF StoresStep
  <1>7. QED
    BY <1>5, <1>6

LEMMA GuidanceStep == GuideInv /\ [GuidanceNext]_guidanceVars => GuideTypes' /\ StoresStep
  <1> SUFFICES ASSUME GuideInv, [GuidanceNext]_guidanceVars PROVE GuideTypes' /\ StoresStep
    OBVIOUS
  <1>0. GuideTypes
    BY DEF GuideInv
  <1>1. commits \in Nat /\ pageEdits \in Nat
    BY <1>0 DEF GuideTypes
  <1>2. ASSUME GuideTypes', UNCHANGED <<prov, guidance, graph, commits, pageEdits>>,
               \/ UNCHANGED turns
               \/ \E x \in TurnRow : x.committed = NoId /\ turns' = Append(turns, x)
        PROVE  StoresStep
    BY <1>0, <1>1, <1>2, Standing DEF StoresStep
  <1>3. CASE Talks
    BY <1>0, <1>2, <1>3, Conversation DEF Spoken
  <1>4. CASE \E t \in Proposals, k \in 1..3 : Confirm(t, k)
    BY <1>4, Confirmation
  <1>5. CASE \/ \E id \in DOMAIN guidance : Withdraw(id) \/ \E on \in BOOLEAN : Enable(id, on)
             \/ \E name \in Names : SaveRule(name)
             \/ SavePreferences
    BY <1>5, Editing
  <1>6. CASE ReadRules
    BY <1>0, <1>2, <1>6 DEF ReadRules, guidanceStores, GuideTypes
  <1>7. CASE AgentRestarts
    BY <1>0, <1>2, <1>7 DEF AgentRestarts, guidanceStores, GuideTypes
  <1>8. CASE UNCHANGED guidanceVars
    BY <1>0, <1>2, <1>8 DEF guidanceVars, guidanceStores, rt, GuideTypes
  <1>9. QED
    BY <1>3, <1>4, <1>5, <1>6, <1>7, <1>8 DEF GuidanceNext, Talks

LEMMA StillAtMost ==
  ASSUME NEW x \in Nat, NEW a \in Nat, NEW b \in Nat, NEW c \in Nat, NEW d \in Nat
  PROVE  /\ x <= a + b /\ c + d >= a + b => x <= c + d
         /\ x <= a + b + 1 /\ c + d >= a + b + 1 => x <= c + d
  OBVIOUS

\* The rest of the invariant follows from what a step does to the stores.
LEMMA GuideInvStep == GuideInv /\ [GuidanceNext]_guidanceVars => GuideInv'
  <1> SUFFICES ASSUME GuideInv, [GuidanceNext]_guidanceVars PROVE GuideInv'
    OBVIOUS
  <1>1. GuideTypes /\ GuideTypes' /\ StoresStep /\ FreshInv /\ AuditIsTrue
    BY GuidanceStep DEF GuideInv
  <1>2. commits \in Nat /\ pageEdits \in Nat /\ commits' \in Nat /\ pageEdits' \in Nat
    BY <1>1 DEF GuideTypes
  <1>3. FreshInv'
    <2>1. ASSUME NEW id \in DOMAIN guidance', Generated(id)
          PROVE  id.n <= commits' + pageEdits'
      <3>1. id \in GuidanceIds /\ id.n \in Nat
        <4>1. id \in GuidanceIds
          BY <1>1 DEF StoresStep, GuidanceRowsStep
        <4>2. QED
          BY <2>1, <4>1 DEF GuidanceIds, Generated, NoId, Prefs, Area
      <3>2. CASE id \in DOMAIN guidance
        <4>1. id.n <= commits + pageEdits
          BY <1>1, <2>1, <3>2 DEF FreshInv
        <4>2. commits' + pageEdits' >= commits + pageEdits
          BY <1>1 DEF StoresStep
        <4>3. QED
          BY <1>2, <3>1, <4>1, <4>2, StillAtMost
      <3>3. CASE id \notin DOMAIN guidance
        <4>1. guidance' # guidance /\ id.n <= commits + pageEdits + 1
          BY <1>1, <2>1, <3>3 DEF StoresStep, GuidanceRowsStep
        <4>2. commits' + pageEdits' >= commits + pageEdits + 1
          BY <1>1, <4>1 DEF StoresStep
        <4>3. QED
          BY <1>2, <3>1, <4>1, <4>2, StillAtMost
      <3>4. QED
        BY <3>2, <3>3
    <2>2. QED
      BY <2>1 DEF FreshInv, Generated
  <1>4. AuditIsTrue'
    <2>1. DOMAIN prov \subseteq DOMAIN prov' /\ DOMAIN guidance \subseteq DOMAIN guidance'
      BY <1>1 DEF StoresStep, GuidanceRowsStep, AuditStep
    <2>2. ASSUME NEW i \in DOMAIN turns', turns'[i].committed # NoId
          PROVE  turns'[i].committed \in DOMAIN prov'
      <3>0. turns \in Seq(TurnRow)
        BY <1>1 DEF GuideTypes
      <3>1. CASE turns' = turns
        BY <1>1, <2>1, <2>2, <3>1 DEF AuditIsTrue, Markers
      <3>2. CASE \E x \in TurnRow : /\ x.committed = NoId \/ x.committed \in DOMAIN prov'
                                    /\ turns' = Append(turns, x)
        <4>1. PICK x \in TurnRow : /\ x.committed = NoId \/ x.committed \in DOMAIN prov'
                                   /\ turns' = Append(turns, x)
          BY <3>2
        <4>2. CASE i \in DOMAIN turns
          <5>1. turns'[i] = turns[i]
            BY <3>0, <4>1, <4>2
          <5>2. QED
            BY <1>1, <2>1, <2>2, <4>2, <5>1 DEF AuditIsTrue, Markers
        <4>3. CASE i \notin DOMAIN turns
          <5>1. turns'[i] = x
            BY <3>0, <4>1, <4>3
          <5>2. QED
            BY <2>2, <4>1, <5>1
        <4>4. QED
          BY <4>2, <4>3
      <3>3. QED
        BY <1>1, <3>1, <3>2 DEF StoresStep
    <2>3. ASSUME NEW id \in DOMAIN prov', Generated(id)
          PROVE  id \in DOMAIN guidance'
      BY <1>1, <2>1, <2>3 DEF StoresStep, AuditIsTrue
    <2>4. DOMAIN graph' \subseteq DOMAIN guidance'
      BY <1>1, <2>1 DEF StoresStep, AuditIsTrue
    <2>5. QED
      BY <2>2, <2>3, <2>4 DEF AuditIsTrue, Markers, Generated
  <1>5. QED
    BY <1>1, <1>3, <1>4 DEF GuideInv

LEMMA GuideInitially == GuidanceInit => GuideInv
  <1> SUFFICES ASSUME GuidanceInit PROVE GuideInv
    OBVIOUS
  <1> DEFINE ids == {Prefs} \cup {Area(a) : a \in KnownAreas}
  <1>1. guidance = [id \in ids |-> [class |-> id.fam, by |-> 0, gone |-> FALSE, enabled |-> TRUE]]
    BY DEF GuidanceInit
  <1>2. ids \subseteq GuidanceIds
    BY GuidanceAssumption DEF GuidanceIds
  <1>3. \A id \in ids : id.fam \in {"preference", "area_posture"}
    BY DEF Prefs, Area
  <1> HIDE DEF ids
  <1>4. \A id \in ids : [class |-> id.fam, by |-> 0, gone |-> FALSE, enabled |-> TRUE] \in Entry
    BY <1>3 DEF Entry
  <1>5. DOMAIN guidance = ids /\ guidance \in [ids -> Entry]
    BY <1>1, <1>4
  <1>6. sessions = <<>> /\ turns = <<>> /\ prov = <<>> /\ graph = <<>>
        /\ request = [q \in Tabs |-> Free] /\ commits = 0 /\ pageEdits = 0
    BY DEF GuidanceInit
  <1>7. GuideTypes
    BY <1>2, <1>5, <1>6 DEF GuideTypes
  <1>8. FreshInv
    BY <1>3, <1>5 DEF FreshInv, Generated
  <1>9. AuditIsTrue
    BY <1>6 DEF AuditIsTrue, Markers
  <1>10. QED
    BY <1>7, <1>8, <1>9 DEF GuideInv

LEMMA GuideInductive == GuidanceSpec => []GuideInv
  BY GuideInitially, GuideInvStep, PTL DEF GuidanceSpec

\* For any users, tabs, proposals, classes and names, whatever write of a
\* confirmation is the last one: a marker in the transcript has its provenance,
\* the provenance of a rule or policy its entry, a node of the graph its policy.
THEOREM AuditHolds == GuidanceSpec => []AuditIsTrue
  <1>1. GuideInv => AuditIsTrue
    BY DEF GuideInv
  <1>2. QED
    BY GuideInductive, <1>1, PTL

\* No later confirmation takes over the provenance of a rule or policy: its history
\* only grows, for any sequence of confirmations, edits, refinements and restarts.
THEOREM HistoryGrows == GuidanceSpec => HistoryIsKept
  <1>1. GuideInv /\ [GuidanceNext]_guidanceVars =>
          [\A id \in DOMAIN prov : Generated(id) =>
             /\ prov'[id].turn = prov[id].turn
             /\ IsPrefix(prov[id].refs, prov'[id].refs)]_guidanceVars
    BY GuidanceStep DEF StoresStep, AuditStep, Grows
  <1>2. QED
    BY GuideInductive, <1>1, PTL DEF GuidanceSpec, HistoryIsKept

\* What was deleted or revoked stays so: ids that were given once are never given
\* again, and a refinement changes no more than values.
THEOREM WithdrawnForGood == GuidanceSpec => WithdrawnStaysSo
  <1>1. GuideInv /\ [GuidanceNext]_guidanceVars =>
          [\A id \in DOMAIN guidance : guidance[id].gone => guidance'[id].gone]_guidanceVars
    BY GuidanceStep DEF StoresStep, GuidanceRowsStep, StaysGone
  <1>2. QED
    BY GuideInductive, <1>1, PTL DEF GuidanceSpec, WithdrawnStaysSo

----------------------------------------------------------------------------
(* The inductive invariant of AlertPath.                                   *)

RingEntry == [id : Ids, triage : {"none", "alerted", "dismissed"},
              feedback : {"none", "dismissed", "fp", "correct"}]

PathTypes ==
  /\ ring \in Seq(RingEntry) /\ saved \in Seq(RingEntry)
  /\ events \in [Ids -> Meta \cup {None}]
  /\ gate \in [Ids -> {"none", "window", "open", "notify", "rules", "direct", "over", "lost"}]
  /\ verdict \in [Ids -> {"none", "alerted", "dismissed", "failed"}]
  /\ sending \in [Ids -> ServiceLists \cup {None}]
  /\ calls \in [Ids -> [Services -> Nat]]
  /\ services \in ServiceLists

\* Where the evaluation of an alert is says what has happened to it so far.
GateInv ==
  \A a \in Ids :
    /\ gate[a] = "none" => events[a] = None
    /\ gate[a] \in {"none", "window", "direct"} => verdict[a] = "none" /\ sending[a] = None
    /\ gate[a] = "open" => verdict[a] = "failed" /\ sending[a] # None
    /\ gate[a] = "notify" => verdict[a] = "alerted" /\ sending[a] # None
    /\ sending[a] = None => \A s \in Services : calls[a][s] = 0

Tells(l, v) ==
  \A i \in DOMAIN l :
    /\ l[i].triage = "dismissed" => v[l[i].id] = "dismissed"
    /\ l[i].triage = "alerted" => v[l[i].id] \in {"alerted", "failed"}

MetaTells == \A a \in Ids : events[a] # None => events[a].triage \in {"none", verdict[a]}

\* Both the ring and its file, from which a restart takes it, tell the decisions.
StoresInv == Tells(ring, verdict) /\ Tells(saved, verdict) /\ MetaTells

PathInv == PathTypes /\ GateInv /\ StoresInv /\ SentOnce /\ FailsOpen

----------------------------------------------------------------------------
(* What a step does to the stores.                                         *)

\* l says of each alert what m says, or nothing, or of the alert a that it is s.
Carries(l, m, a, s) ==
  /\ l \in Seq(RingEntry)
  /\ \A i \in DOMAIN l : \/ l[i].triage = "none"
                         \/ l[i].id = a /\ l[i].triage = s
                         \/ \E j \in DOMAIN m : l[i].id = m[j].id /\ l[i].triage = m[j].triage

LogStep(a, s) ==
  /\ Carries(ring', ring, a, s)
  /\ Carries(saved', ring, a, s) \/ saved' = saved

LEMMA SaveCarries ==
  ASSUME NEW a, NEW s, NEW l, NEW F, Carries(l, ring, a, s), Save(l, F)
  PROVE  LogStep(a, s)
  BY DEF Save, LogStep

LEMMA SameCarries ==
  ASSUME PathTypes, NEW a, NEW s, UNCHANGED <<ring, saved>>
  PROVE  LogStep(a, s)
  BY DEF LogStep, Carries, PathTypes

LEMMA TriageCarries ==
  ASSUME PathTypes, NEW a, NEW s \in {"alerted", "dismissed"}, NEW F, SetTriage(a, s, F)
  PROVE  LogStep(a, s)
  <1> DEFINE new == Triaged(a, s)
  <1>1. \A z \in RingEntry : /\ [z EXCEPT !.triage = s] \in RingEntry
                             /\ [z EXCEPT !.triage = s].triage = s
                             /\ [z EXCEPT !.triage = s].id = z.id
    BY DEF RingEntry
  <1>2. new = [i \in DOMAIN ring |-> IF ring[i].id = a THEN [ring[i] EXCEPT !.triage = s] ELSE ring[i]]
    BY DEF Triaged
  <1>3. ring \in Seq(RingEntry) /\ DOMAIN ring = 1..Len(ring) /\ Len(ring) \in Nat
    BY DEF PathTypes
  <1>4. \A i \in DOMAIN ring : ring[i] \in RingEntry
    BY <1>3
  <1> HIDE DEF new
  <1>5. \A i \in DOMAIN ring : new[i] \in RingEntry
    BY <1>1, <1>2, <1>4
  <1>6. new \in Seq(RingEntry)
    BY <1>2, <1>3, <1>5
  <1>7. Carries(new, ring, a, s)
    BY <1>1, <1>2, <1>4, <1>6 DEF Carries
  <1>8. CASE InLog(a)
    <2>1. Save(new, F)
      BY <1>8 DEF SetTriage, new
    <2>2. QED
      BY <1>7, <2>1, SaveCarries
  <1>9. CASE ~InLog(a)
    BY <1>9, SameCarries DEF SetTriage
  <1>10. QED
    BY <1>8, <1>9

LEMMA AnswerCarries ==
  ASSUME PathTypes, NEW a, NEW text \in {"dismissed", "fp", "correct"}, NEW F, Answer(a, text, F)
  PROVE  LogStep(a, "none")
  <1> DEFINE new == [i \in DOMAIN ring |->
                       IF ring[i].id = a THEN [ring[i] EXCEPT !.feedback = text] ELSE ring[i]]
  <1>1. \A z \in RingEntry : /\ [z EXCEPT !.feedback = text] \in RingEntry
                             /\ [z EXCEPT !.feedback = text].triage = z.triage
                             /\ [z EXCEPT !.feedback = text].id = z.id
    BY DEF RingEntry
  <1>3. ring \in Seq(RingEntry) /\ DOMAIN ring = 1..Len(ring) /\ Len(ring) \in Nat
    BY DEF PathTypes
  <1>4. \A i \in DOMAIN ring : ring[i] \in RingEntry
    BY <1>3
  <1>5. \A i \in DOMAIN ring : /\ new[i] \in RingEntry
                               /\ new[i].id = ring[i].id /\ new[i].triage = ring[i].triage
    BY <1>1, <1>4
  <1>6. new \in Seq(RingEntry) /\ DOMAIN new = DOMAIN ring
    BY <1>3, <1>5
  <1>8. CASE InLog(a)
    <2>1. Save(new, F)
      BY <1>8 DEF Answer
    <2> HIDE DEF new
    <2>2. Carries(new, ring, a, "none")
      BY <1>5, <1>6 DEF Carries
    <2>3. QED
      BY <2>2, <2>1, SaveCarries
  <1>9. CASE ~InLog(a)
    BY <1>9, SameCarries DEF Answer
  <1>10. QED
    BY <1>8, <1>9

LEMMA RecordCarries ==
  ASSUME PathTypes, NEW a \in Ids, NEW F,
         Save(Trimmed(Append(ring, [id |-> a, triage |-> "none", feedback |-> "none"])), F)
  PROVE  LogStep(a, "none")
  <1> DEFINE e == [id |-> a, triage |-> "none", feedback |-> "none"]
             long == Append(ring, e)
             new == Trimmed(long)
  <1>1. e \in RingEntry /\ e.triage = "none"
    BY DEF RingEntry
  <1>2. ring \in Seq(RingEntry) /\ DOMAIN ring = 1..Len(ring) /\ Len(ring) \in Nat
    BY DEF PathTypes
  <1> HIDE DEF e
  <1>3. long \in Seq(RingEntry) /\ Len(long) = Len(ring) + 1 /\ long[Len(ring) + 1] = e
        /\ \A i \in 1..Len(ring) : long[i] = ring[i]
    BY <1>1, <1>2
  <1>4. Carries(long, ring, a, "none")
    BY <1>1, <1>2, <1>3 DEF Carries
  <1> HIDE DEF long
  <1>5. MaxEntries \in Nat \ {0}
    BY AlertPathAssumption DEF PathTypes
  <1>6. ASSUME Len(long) > MaxEntries PROVE Carries(new, ring, a, "none")
    <2> DEFINE k == Len(long) - MaxEntries
    <2>0. Len(long) \in Nat
      BY <1>2, <1>3
    <2>1. new = SubSeq(long, k + 1, Len(long)) /\ k \in Nat /\ k + 1 \in 1..Len(long) /\ Len(long) \in Nat
      <3>1. new = SubSeq(long, k + 1, Len(long))
        BY <1>6 DEF Trimmed
      <3>2. QED
        BY <1>5, <1>6, <2>0, <3>1
    <2> HIDE DEF k, new
    <2>2. new \in Seq(RingEntry) /\ DOMAIN new = 1..(Len(long) - k)
          /\ \A i \in 1..(Len(long) - k) : new[i] = long[k + i]
      BY <2>1, <1>3
    <2>3. \A i \in DOMAIN new : k + i \in DOMAIN long /\ new[i] = long[k + i]
      BY <2>1, <2>2, <1>3
    <2>4. QED
      BY <1>4, <2>2, <2>3 DEF Carries
  <1>7. ASSUME ~(Len(long) > MaxEntries) PROVE Carries(new, ring, a, "none")
    BY <1>4, <1>7 DEF Trimmed
  <1>8. Carries(new, ring, a, "none")
    BY <1>6, <1>7
  <1>9. QED
    BY <1>8, SaveCarries DEF new, long, e

LEMMA CarriesTells ==
  ASSUME NEW l, NEW m, NEW a, NEW s, NEW v, NEW w, Carries(l, m, a, s), m \in Seq(RingEntry), Tells(m, v),
         \A b \in Ids : v[b] # "none" => w[b] = v[b],
         s = "dismissed" => w[a] = "dismissed", s = "alerted" => w[a] \in {"alerted", "failed"}
  PROVE  Tells(l, w)
  <1>1. \A j \in DOMAIN m : m[j] \in RingEntry
    OBVIOUS
  <1>2. \A j \in DOMAIN m : m[j].id \in Ids
    BY <1>1 DEF RingEntry
  <1>3. QED
    BY <1>2 DEF Carries, Tells

----------------------------------------------------------------------------
(* What a step does to an alert.                                           *)

\* A decision is not taken back, and the metadata of an event is merged.
MetaStep ==
  \A b \in Ids :
    /\ events[b] # None => /\ events'[b] # None
                           /\ events[b].enriched => events'[b].enriched
                           /\ events[b].dismissed => events'[b].dismissed
                           /\ events[b].triage # "none" => events'[b].triage = events[b].triage
    /\ events'[b] # None => events'[b].triage \in {"none", verdict'[b]}
    /\ verdict[b] # "none" => verdict'[b] = verdict[b]

CallStep(a) ==
  /\ sending' = [b \in Ids |-> IF b = a THEN services ELSE sending[b]]
  /\ services # None
  /\ calls' \in [Ids -> [Services -> Nat]]
  /\ \A b \in Ids \ {a} : calls'[b] = calls[b]
  /\ \A s \in Services : calls'[a][s] = calls[a][s] + Occurrences(s, services)
  /\ \A s \in Services : Occurrences(s, services) \in Nat

LEMMA TimesCounts ==
  ASSUME NEW l \in ServiceLists, NEW s
  PROVE  Occurrences(s, l) \in Nat
  <1>1. l \in Seq(Range(l))
    BY AlertPathAssumption
  <1>2. DOMAIN l = 1..Len(l) /\ Len(l) \in Nat
    BY <1>1, LenProperties
  <1>3. IsFiniteSet(DOMAIN l)
    BY <1>2, FS_Interval
  <1>4. IsFiniteSet({i \in DOMAIN l : l[i] = s})
    BY <1>3, FS_Subset
  <1>5. QED
    BY <1>4, FS_CardinalityType DEF Occurrences

LEMMA CallCalls ==
  ASSUME PathTypes, NEW a \in Ids, Call(a)
  PROVE  CallStep(a)
  <1> USE DEF PathTypes
  <1>1. sending' = [b \in Ids |-> IF b = a THEN services ELSE sending[b]]
    BY DEF Call
  <1>2. services # None
    BY AlertPathAssumption
  <1> DEFINE more == [s \in Services |-> calls[a][s] + Occurrences(s, services)]
  <1>3. \A s \in Services : calls[a][s] \in Nat /\ Occurrences(s, services) \in Nat
    BY TimesCounts
  <1>4. more \in [Services -> Nat] /\ \A s \in Services : more[s] = calls[a][s] + Occurrences(s, services)
    BY <1>3
  <1>5. calls' = [calls EXCEPT ![a] = more]
    BY DEF Call
  <1> HIDE DEF more
  <1>6. calls' \in [Ids -> [Services -> Nat]]
    BY <1>4, <1>5
  <1>7. calls'[a] = more /\ \A b \in Ids \ {a} : calls'[b] = calls[b]
    BY <1>5
  <1>8. QED
    BY <1>1, <1>2, <1>3, <1>4, <1>6, <1>7 DEF CallStep

\* What is written into meta.json is a member of Meta that says no less.
LEMMA MetaMerge ==
  ASSUME PathTypes, NEW a \in Ids, NEW F, NEW m, events[a] # None => m \in Meta,
         Rewrite(a, m, F)
  PROVE  /\ events' \in [Ids -> Meta \cup {None}]
         /\ \A b \in Ids : events'[b] = events[b] \/ (b = a /\ events[a] # None /\ events'[b] = m)
  <1>1. CASE events[a] # None /\ "event" \notin F
    <2>1. m \in Meta /\ events' = [events EXCEPT ![a] = m] /\ events \in [Ids -> Meta \cup {None}]
      BY <1>1 DEF PathTypes, Rewrite
    <2>2. \A b \in Ids : events'[b] = IF b = a THEN m ELSE events[b]
      BY <2>1
    <2>3. events' \in [Ids -> Meta \cup {None}]
      BY <2>1
    <2>4. QED
      BY <1>1, <2>2, <2>3
  <1>2. CASE ~(events[a] # None /\ "event" \notin F)
    BY <1>2 DEF PathTypes, Rewrite
  <1>3. QED
    BY <1>1, <1>2

LEMMA MetaFields ==
  \A m \in Meta :
           /\ m # None
           /\ [m EXCEPT !.enriched = TRUE] \in Meta /\ [m EXCEPT !.dismissed = TRUE] \in Meta
           /\ [m EXCEPT !.enriched = TRUE].triage = m.triage /\ [m EXCEPT !.enriched = TRUE].enriched
           /\ [m EXCEPT !.enriched = TRUE].dismissed = m.dismissed
           /\ [m EXCEPT !.dismissed = TRUE].triage = m.triage /\ [m EXCEPT !.dismissed = TRUE].dismissed
           /\ [m EXCEPT !.dismissed = TRUE].enriched = m.enriched
  <1>1. \A m \in Meta : m # None
    BY AlertPathAssumption
  <1>2. QED
    BY <1>1 DEF Meta

LEMMA MetaTriage ==
  ASSUME NEW s \in {"alerted", "dismissed"}
  PROVE  \A m \in Meta :
           /\ [m EXCEPT !.triage = s] \in Meta /\ [m EXCEPT !.triage = s].triage = s
           /\ [m EXCEPT !.triage = s].enriched = m.enriched
           /\ [m EXCEPT !.triage = s].dismissed = m.dismissed
  BY DEF Meta

LEMMA LogTells ==
  ASSUME PathTypes, StoresInv, NEW a, NEW s, LogStep(a, s),
         \A b \in Ids : verdict[b] # "none" => verdict'[b] = verdict[b],
         s = "dismissed" => verdict'[a] = "dismissed", s = "alerted" => verdict'[a] \in {"alerted", "failed"}
  PROVE  /\ ring' \in Seq(RingEntry) /\ saved' \in Seq(RingEntry)
         /\ Tells(ring', verdict') /\ Tells(saved', verdict')
  <1>1. ring \in Seq(RingEntry) /\ saved \in Seq(RingEntry) /\ Tells(ring, verdict) /\ Tells(saved, verdict)
    BY DEF PathTypes, StoresInv
  <1>2. Carries(ring', ring, a, s) /\ (Carries(saved', ring, a, s) \/ saved' = saved)
    BY DEF LogStep
  <1>3. ASSUME NEW l, Carries(l, ring, a, s) PROVE l \in Seq(RingEntry) /\ Tells(l, verdict')
    <2>1. l \in Seq(RingEntry)
      BY <1>3 DEF Carries
    <2>2. Tells(l, verdict')
      BY <1>1, <1>3, CarriesTells
    <2>3. QED
      BY <2>1, <2>2
  <1>4. CASE Carries(saved', ring, a, s)
    BY <1>2, <1>3, <1>4
  <1>5. CASE saved' = saved
    <2>1. \A i \in DOMAIN saved : saved[i] \in RingEntry
      BY <1>1
    <2>2. Tells(saved, verdict')
      BY <1>1, <2>1 DEF Tells, RingEntry
    <2>3. QED
      BY <1>1, <1>2, <1>3, <1>5, <2>2
  <1>6. QED
    BY <1>2, <1>4, <1>5

\* All that the invariant says after a step, and what the step did to the metadata.
PathStep ==
  /\ PathTypes' /\ GateInv' /\ SentOnce' /\ FailsOpen'
  /\ MetaStep
  /\ Tells(ring', verdict') /\ Tells(saved', verdict')

LEMMA MetaSame ==
  ASSUME PathTypes, StoresInv, UNCHANGED events, \A b \in Ids : verdict[b] # "none" => verdict'[b] = verdict[b]
  PROVE  MetaStep
  BY DEF MetaStep, StoresInv, MetaTells, PathTypes, Meta

\* The steps that change no store and no decision.
LEMMA IdleStep ==
  ASSUME PathInv, UNCHANGED <<ring, saved, events, verdict, gate, sending, calls>>, services' \in ServiceLists
  PROVE  PathStep
  <1> USE DEF PathInv
  <1>1. MetaStep
    BY MetaSame
  <1>2. Tells(ring', verdict') /\ Tells(saved', verdict')
    BY DEF StoresInv
  <1>3. PathTypes'
    BY DEF PathTypes
  <1>4. GateInv'
    BY DEF GateInv
  <1>5. SentOnce' /\ FailsOpen'
    BY DEF SentOnce, FailsOpen
  <1>6. QED
    BY <1>1, <1>2, <1>3, <1>4, <1>5 DEF PathStep

\* The enricher and the user: the stores change, the evaluation does not.
LEMMA NoteStep ==
  ASSUME PathInv, NEW a \in Ids, LogStep(a, "none"), UNCHANGED <<gate, verdict, sending, calls, services>>,
         events' \in [Ids -> Meta \cup {None}],
         \A b \in Ids : \/ events'[b] = events[b]
                             \/ /\ events[b] # None /\ events'[b] # None
                                /\ events'[b].triage = events[b].triage
                                /\ events[b].enriched => events'[b].enriched
                                /\ events[b].dismissed => events'[b].dismissed
  PROVE  PathStep
  <1> USE DEF PathInv
  <1>1. MetaStep
    BY DEF MetaStep, StoresInv, MetaTells
  <1>2. /\ Tells(ring', verdict') /\ Tells(saved', verdict')
        /\ ring' \in Seq(RingEntry) /\ saved' \in Seq(RingEntry)
    BY LogTells
  <1>3. PathTypes'
    BY <1>2 DEF PathTypes
  <1>4. GateInv'
    BY DEF GateInv
  <1>5. SentOnce' /\ FailsOpen'
    BY DEF SentOnce, FailsOpen
  <1>6. QED
    BY <1>1, <1>2, <1>3, <1>4, <1>5 DEF PathStep

LEMMA EnricherStep ==
  ASSUME PathInv, NEW a \in Ids,
         (\E w \in Windows \cup {None} : EnrichWindow(a, w)) \/ EnrichImage(a)
  PROVE  PathStep
  <1>1. PathTypes
    BY DEF PathInv, PathTypes
  <1>2. ASSUME NEW image, Enrich(a, image) PROVE PathStep
    <2> DEFINE m == Enriched(events[a])
    <2>1. PICK F \in SUBSET {"event"} : Rewrite(a, m, F)
      BY <1>2 DEF Enrich
    <2>2. events[a] # None => events[a] \in Meta
      BY <1>1 DEF PathTypes
    <2>3. events[a] # None => /\ m \in Meta
                              /\ m # None
                              /\ m.triage = events[a].triage
                              /\ m.enriched
                              /\ m.dismissed = events[a].dismissed
      BY <1>1, <2>2, MetaFields DEF Enriched
    <2> HIDE DEF m
    <2>4. LogStep(a, "none")
      BY <1>1, <1>2, SameCarries DEF Enrich
    <2>5. /\ events' \in [Ids -> Meta \cup {None}]
          /\ \A b \in Ids : events'[b] = events[b] \/ (b = a /\ events[a] # None /\ events'[b] = m)
      BY <1>1, <2>1, <2>3, MetaMerge
    <2>6. UNCHANGED <<gate, verdict, sending, calls, services>>
      BY <1>2 DEF Enrich, notices
    <2>7. QED
      BY <2>3, <2>4, <2>5, <2>6, NoteStep
  <1>3. CASE EnrichImage(a)
    BY <1>2, <1>3 DEF EnrichImage
  <1>4. ASSUME NEW w, EnrichWindow(a, w) PROVE PathStep
    <2>1. CASE Enrich(a, FALSE)
      BY <1>2, <2>1
    <2>2. CASE UNCHANGED <<wired, alertStores, gate, verdict, notices, audit, bounds>>
      <3>1. UNCHANGED <<ring, saved, events, verdict, gate, sending, calls, services>>
        BY <2>2 DEF alertStores, notices
      <3>2. QED
        BY <1>1, <3>1, IdleStep DEF PathTypes
    <2>3. QED
      BY <1>4, <2>1, <2>2 DEF EnrichWindow
  <1>5. QED
    BY <1>3, <1>4

LEMMA UserStep ==
  ASSUME PathInv, NEW a \in Ids, Dismiss(a) \/ Feedback(a) \/ Acknowledge(a)
  PROVE  PathStep
  <1>1. PathTypes
    BY DEF PathInv, PathTypes
  <1>2. UNCHANGED <<gate, verdict, sending, calls, services>>
    BY DEF Dismiss, Feedback, Acknowledge, notices
  <1>3. CASE Dismiss(a)
    <2> DEFINE m == [events[a] EXCEPT !.dismissed = TRUE]
    <2>1. PICK F \in SUBSET {"log", "event"} : Rewrite(a, m, F) /\ Answer(a, "dismissed", F)
      BY <1>3 DEF Dismiss
    <2>2. events[a] # None => events[a] \in Meta
      BY <1>1 DEF PathTypes
    <2>3. events[a] # None => /\ m \in Meta /\ m # None
                              /\ m.triage = events[a].triage /\ m.enriched = events[a].enriched /\ m.dismissed
      BY <1>1, <2>2, MetaFields
    <2> HIDE DEF m
    <2>4. /\ events' \in [Ids -> Meta \cup {None}]
          /\ \A b \in Ids : events'[b] = events[b] \/ (b = a /\ events[a] # None /\ events'[b] = m)
      BY <1>1, <2>1, <2>3, MetaMerge
    <2>5. LogStep(a, "none")
      BY <1>1, <2>1, AnswerCarries
    <2>6. QED
      BY <1>2, <2>3, <2>4, <2>5, NoteStep
  <1>4. CASE Feedback(a) \/ Acknowledge(a)
    <2>1. events' = events
      BY <1>4 DEF Feedback, Acknowledge
    <2>2. CASE Acknowledge(a)
      <3>1. PICK F \in SUBSET {"log"} : Answer(a, "correct", F)
        BY <2>2 DEF Acknowledge
      <3>2. QED
        BY <1>1, <1>2, <2>1, <3>1, AnswerCarries, NoteStep DEF PathTypes
    <2>3. CASE Feedback(a)
      <3>1. PICK F \in SUBSET {"log", "event"} :
              IF Kept(a, F) THEN Answer(a, "fp", F) ELSE UNCHANGED <<ring, saved>>
        BY <2>3 DEF Feedback
      <3>2. LogStep(a, "none")
        BY <1>1, <3>1, AnswerCarries, SameCarries
      <3>3. QED
        BY <1>1, <1>2, <2>1, <3>2, NoteStep DEF PathTypes
    <2>4. QED
      BY <1>4, <2>2, <2>3
  <1>5. QED
    BY <1>3, <1>4

----------------------------------------------------------------------------
(* The evaluation of an alert.                                             *)

\* One alert moves on to g with the decision v; what the invariant says of it then is
\* what is left to show.
LEMMA MovesOn ==
  ASSUME PathInv, NEW a \in Ids,
         NEW g \in {"window", "open", "notify", "rules", "direct", "over", "lost"},
         NEW v \in {"none", "alerted", "dismissed", "failed"},
         gate' = [gate EXCEPT ![a] = g], verdict' = [verdict EXCEPT ![a] = v],
         (CallStep(a) /\ sending[a] = None) \/ UNCHANGED <<sending, calls>>,
         UNCHANGED services,
         events' \in [Ids -> Meta \cup {None}], \A b \in Ids \ {a} : events'[b] = events[b],
         ring' \in Seq(RingEntry), saved' \in Seq(RingEntry),
         g \in {"window", "direct"} => v = "none" /\ sending'[a] = None,
         g = "open" => v = "failed" /\ sending'[a] # None,
         g = "notify" => v = "alerted" /\ sending'[a] # None,
         g \in {"rules", "over"} /\ v \in {"alerted", "failed"} => sending'[a] # None,
         v = "dismissed" => sending'[a] = None
  PROVE  PathTypes' /\ GateInv' /\ SentOnce' /\ FailsOpen'
  <1> USE DEF PathInv
  <1>1. /\ \A b \in Ids : gate'[b] = IF b = a THEN g ELSE gate[b]
        /\ \A b \in Ids : verdict'[b] = IF b = a THEN v ELSE verdict[b]
    BY DEF PathTypes
  <1>2. CASE CallStep(a) /\ sending[a] = None
    <2>1. /\ sending' \in [Ids -> ServiceLists \cup {None}] /\ sending'[a] # None
          /\ \A b \in Ids \ {a} : sending'[b] = sending[b]
      BY <1>2 DEF CallStep, PathTypes
    <2>2. \A s \in Services : calls'[a][s] = Occurrences(s, sending'[a])
      <3>1. sending'[a] = services
        BY <1>2 DEF CallStep
      <3>2. \A s \in Services : calls[a][s] = 0 /\ calls'[a][s] = calls[a][s] + Occurrences(s, services)
                                 /\ Occurrences(s, services) \in Nat
        BY <1>2 DEF CallStep, GateInv
      <3>3. QED
        BY <3>1, <3>2
    <2>3. /\ calls' \in [Ids -> [Services -> Nat]]
          /\ \A b \in Ids \ {a} : calls'[b] = calls[b]
      BY <1>2 DEF CallStep
    <2>4. PathTypes'
      BY <2>1, <2>3 DEF PathTypes
    <2>5. GateInv'
      <3> SUFFICES ASSUME NEW b \in Ids
                   PROVE  /\ gate'[b] = "none" => events'[b] = None
                          /\ gate'[b] \in {"none", "window", "direct"} => verdict'[b] = "none" /\ sending'[b] = None
                          /\ gate'[b] = "open" => verdict'[b] = "failed" /\ sending'[b] # None
                          /\ gate'[b] = "notify" => verdict'[b] = "alerted" /\ sending'[b] # None
                          /\ sending'[b] = None => \A s \in Services : calls'[b][s] = 0
        BY DEF GateInv
      <3>1. CASE b = a
        BY <1>1, <2>1, <3>1
      <3>2. CASE b # a
        <4>1. /\ gate'[b] = gate[b] /\ verdict'[b] = verdict[b] /\ sending'[b] = sending[b]
              /\ calls'[b] = calls[b] /\ events'[b] = events[b]
          BY <1>1, <2>1, <2>3, <3>2
        <4>2. QED
          BY <4>1 DEF GateInv
      <3>3. QED
        BY <3>1, <3>2
    <2>6. FailsOpen'
      BY <1>1, <2>1 DEF FailsOpen
    <2>7. SentOnce'
      <3> SUFFICES ASSUME NEW b \in Ids, NEW s \in Services
                   PROVE  calls'[b][s] = IF sending'[b] = None THEN 0 ELSE Occurrences(s, sending'[b])
        BY DEF SentOnce
      <3>1. CASE b = a
        BY <2>1, <2>2, <3>1
      <3>2. CASE b # a
        BY <2>1, <2>3, <3>2 DEF SentOnce
      <3>3. QED
        BY <3>1, <3>2
    <2>8. QED
      BY <2>4, <2>5, <2>6, <2>7
  <1>3. CASE UNCHANGED <<sending, calls>>
    <2>4. PathTypes'
      BY <1>3 DEF PathTypes
    <2>5. GateInv'
      BY <1>1, <1>3 DEF GateInv
    <2>6. FailsOpen'
      BY <1>1, <1>3 DEF FailsOpen
    <2>7. SentOnce'
      BY <1>3 DEF SentOnce
    <2>8. QED
      BY <2>4, <2>5, <2>6, <2>7
  <1>4. QED
    BY <1>2, <1>3

LEMMA CallSends ==
  ASSUME PathTypes, NEW a \in Ids, Call(a)
  PROVE  CallStep(a) /\ sending'[a] # None
  BY CallCalls DEF CallStep

LEMMA RecordStep ==
  ASSUME PathInv, NEW a \in Ids, Record(a)
  PROVE  PathStep
  <1>0. PathTypes /\ GateInv /\ StoresInv
    BY DEF PathInv
  <1>1. events[a] = None /\ verdict[a] = "none" /\ sending[a] = None
    BY <1>0 DEF Record, GateInv
  <1> DEFINE m == [triage |-> "none", enriched |-> FALSE, dismissed |-> FALSE]
             g == Task(a)
  <1>2. PICK F \in SUBSET {"log", "event"} :
          /\ Save(Trimmed(Append(ring, [id |-> a, triage |-> "none", feedback |-> "none"])), F)
          /\ events' = IF "event" \in F THEN events ELSE [events EXCEPT ![a] = m]
    BY DEF Record
  <1>3. m \in Meta /\ m.triage = "none"
    BY DEF Meta
  <1> HIDE DEF m
  <1>4. /\ events' \in [Ids -> Meta \cup {None}]
        /\ \A b \in Ids : events'[b] = events[b] \/ (b = a /\ events'[b] = m)
    BY <1>0, <1>2, <1>3 DEF PathTypes
  <1>5. verdict' = verdict
    BY DEF Record
  <1>6. MetaStep
    BY <1>0, <1>1, <1>3, <1>4, <1>5 DEF MetaStep, StoresInv, MetaTells
  <1>7. LogStep(a, "none")
    BY <1>0, <1>2, RecordCarries
  <1>8. /\ ring' \in Seq(RingEntry) /\ saved' \in Seq(RingEntry)
        /\ Tells(ring', verdict') /\ Tells(saved', verdict')
    BY <1>0, <1>5, <1>7, LogTells
  <1>9. /\ gate' = [gate EXCEPT ![a] = g] /\ verdict' = [verdict EXCEPT ![a] = "none"]
        /\ UNCHANGED services
    BY <1>0, <1>1, <1>5 DEF Record, PathTypes
  <1>10. CASE a \in Tests /\ wired # "none" /\ services # <<>>
    <2>1. CallStep(a) /\ sending'[a] # None /\ g = "over"
      BY <1>0, <1>10, CallSends DEF Record, Task
    <2> HIDE DEF g
    <2>2. PathTypes' /\ GateInv' /\ SentOnce' /\ FailsOpen'
      BY <1>1, <1>4, <1>8, <1>9, <2>1, MovesOn
    <2>3. QED
      BY <1>6, <1>8, <2>2 DEF PathStep
  <1>11. CASE ~(a \in Tests /\ wired # "none" /\ services # <<>>)
    <2>1. UNCHANGED <<sending, calls>>
      BY <1>11 DEF Record
    <2>2. g \in {"over", "window", "direct"} /\ sending'[a] = None
      BY <1>1, <2>1 DEF Task
    <2> HIDE DEF g
    <2>3. PathTypes' /\ GateInv' /\ SentOnce' /\ FailsOpen'
      BY <1>1, <1>4, <1>8, <1>9, <2>1, <2>2, MovesOn
    <2>4. QED
      BY <1>6, <1>8, <2>3 DEF PathStep
  <1>12. QED
    BY <1>10, <1>11

LEMMA ReasonStep ==
  ASSUME PathInv, NEW a \in Ids, NEW w, Reason(a, w)
  PROVE  PathStep
  <1>0. PathTypes /\ GateInv /\ StoresInv
    BY DEF PathInv, PathTypes
  <1>1. verdict[a] = "none" /\ sending[a] = None
    BY <1>0 DEF Reason, GateInv
  <1> DEFINE s == IF Notifies(a, w) THEN "alerted" ELSE "dismissed"
             m == [events[a] EXCEPT !.triage = s]
  <1>2. verdict' = [verdict EXCEPT ![a] = s]
    BY DEF Reason
  <1>3. PICK F \in SUBSET {"log", "event"} : Rewrite(a, m, F) /\ SetTriage(a, s, F)
    BY DEF Reason
  <1>4. s \in {"alerted", "dismissed"}
    OBVIOUS
  <1>5. /\ IF Notifies(a, w) THEN Call(a) /\ gate' = [gate EXCEPT ![a] = "notify"]
           ELSE ToRules(a) /\ UNCHANGED <<sending, calls>>
        /\ UNCHANGED services
    BY DEF Reason
  <1>6. s = IF Notifies(a, w) THEN "alerted" ELSE "dismissed"
    OBVIOUS
  <1> HIDE DEF s
  <1>7. events[a] # None => /\ m \in Meta /\ m # None /\ m.triage = s /\ events[a].triage = "none"
                            /\ m.enriched = events[a].enriched /\ m.dismissed = events[a].dismissed
    <2>1. events[a] # None => events[a] \in Meta
      BY <1>0 DEF PathTypes
    <2>2. events[a] # None => events[a].triage = "none"
      BY <1>0, <1>1 DEF StoresInv, MetaTells
    <2>3. \A x \in Meta :
             /\ [x EXCEPT !.triage = s] \in Meta /\ [x EXCEPT !.triage = s].triage = s
             /\ [x EXCEPT !.triage = s].enriched = x.enriched /\ [x EXCEPT !.triage = s].dismissed = x.dismissed
      BY <1>4, MetaTriage
    <2>4. \A x \in Meta : [x EXCEPT !.triage = s] # None
      BY <1>0, <2>3, MetaFields
    <2>5. QED
      BY <2>1, <2>2, <2>3, <2>4
  <1> HIDE DEF m
  <1>8. /\ events' \in [Ids -> Meta \cup {None}]
        /\ \A b \in Ids : events'[b] = events[b] \/ (b = a /\ events[a] # None /\ events'[b] = m)
    BY <1>0, <1>3, <1>7, MetaMerge
  <1>9. \A b \in Ids : verdict'[b] = IF b = a THEN s ELSE verdict[b]
    BY <1>0, <1>2 DEF PathTypes
  <1>10. MetaStep
    BY <1>0, <1>1, <1>7, <1>8, <1>9 DEF MetaStep, StoresInv, MetaTells
  <1>11. LogStep(a, s)
    BY <1>0, <1>3, <1>4, TriageCarries
  <1>12. /\ ring' \in Seq(RingEntry) /\ saved' \in Seq(RingEntry)
         /\ Tells(ring', verdict') /\ Tells(saved', verdict')
    <2>1. \A b \in Ids : verdict[b] # "none" => verdict'[b] = verdict[b]
      BY <1>1, <1>9
    <2>2. verdict'[a] = s
      BY <1>9
    <2>3. QED
      BY <1>0, <1>4, <1>11, <2>1, <2>2, LogTells
  <1>13. \A b \in Ids \ {a} : events'[b] = events[b]
    BY <1>8
  <1>14. CASE Notifies(a, w)
    <2>1. CallStep(a) /\ sending'[a] # None /\ s = "alerted" /\ gate' = [gate EXCEPT ![a] = "notify"]
      BY <1>0, <1>5, <1>6, <1>14, CallSends
    <2>2. PathTypes' /\ GateInv' /\ SentOnce' /\ FailsOpen'
      BY <1>1, <1>2, <1>5, <1>8, <1>12, <1>13, <2>1, MovesOn
    <2>3. QED
      BY <1>10, <1>12, <2>2 DEF PathStep
  <1>15. CASE ~Notifies(a, w)
    <2>1. /\ s = "dismissed" /\ UNCHANGED <<sending, calls>>
          /\ \E g \in {"over", "rules"} : gate' = [gate EXCEPT ![a] = g]
      BY <1>5, <1>6, <1>15 DEF ToRules
    <2>2. PICK g \in {"over", "rules"} : gate' = [gate EXCEPT ![a] = g]
      BY <2>1
    <2>3. sending'[a] = None
      BY <1>1, <2>1
    <2>4. PathTypes' /\ GateInv' /\ SentOnce' /\ FailsOpen'
      BY <1>2, <1>5, <1>8, <1>12, <1>13, <2>1, <2>2, <2>3, MovesOn
    <2>5. QED
      BY <1>10, <1>12, <2>4 DEF PathStep
  <1>16. QED
    BY <1>14, <1>15

\* The steps of an evaluation that write no metadata.
LEMMA GateStepKeeps ==
  ASSUME PathInv, NEW a \in Ids,
         ReasonFails(a) \/ FailedOpen(a) \/ Notified(a) \/ NotifyDirectly(a) \/ Fired(a)
  PROVE  PathStep
  <1>0. PathTypes /\ GateInv /\ StoresInv
    BY DEF PathInv
  <1>1. UNCHANGED <<events, services>>
    BY DEF ReasonFails, FailedOpen, Notified, NotifyDirectly, Fired, alertStores, notices
  <1>2. /\ events' \in [Ids -> Meta \cup {None}] /\ \A b \in Ids \ {a} : events'[b] = events[b]
        /\ ring \in Seq(RingEntry) /\ saved \in Seq(RingEntry) /\ Tells(ring, verdict) /\ Tells(saved, verdict)
        /\ verdict[a] \in {"none", "alerted", "dismissed", "failed"} /\ verdict = [verdict EXCEPT ![a] = verdict[a]]
    BY <1>0, <1>1 DEF PathTypes, StoresInv
  <1>3. CASE ReasonFails(a)
    <2>1. /\ verdict[a] = "none" /\ sending[a] = None /\ verdict' = [verdict EXCEPT ![a] = "failed"]
          /\ gate' = [gate EXCEPT ![a] = "open"] /\ Call(a) /\ UNCHANGED <<ring, saved>>
      BY <1>0, <1>3 DEF ReasonFails, GateInv, alertStores
    <2>2. CallStep(a) /\ sending'[a] # None
      BY <1>0, <2>1, CallSends
    <2>3. PathTypes' /\ GateInv' /\ SentOnce' /\ FailsOpen'
      BY <1>1, <1>2, <2>1, <2>2, MovesOn
    <2>4. \A b \in Ids : verdict[b] # "none" => verdict'[b] = verdict[b]
      BY <1>0, <2>1 DEF PathTypes
    <2>5. LogStep(a, "none")
      BY <1>0, <2>1, SameCarries
    <2>6. QED
      BY <1>0, <1>1, <2>3, <2>4, <2>5, MetaSame, LogTells DEF PathStep
  <1>4. CASE FailedOpen(a)
    <2>1. /\ verdict[a] = "failed" /\ sending[a] # None /\ verdict' = verdict
          /\ gate' = [gate EXCEPT ![a] = "over"] /\ UNCHANGED <<sending, calls>>
          /\ \E F \in SUBSET {"log"} : SetTriage(a, "alerted", F)
      BY <1>0, <1>4 DEF FailedOpen, GateInv, notices
    <2>2. LogStep(a, "alerted")
      BY <1>0, <2>1, TriageCarries
    <2>3. /\ ring' \in Seq(RingEntry) /\ saved' \in Seq(RingEntry)
          /\ Tells(ring', verdict') /\ Tells(saved', verdict')
      BY <1>0, <2>1, <2>2, LogTells
    <2>4. verdict' = [verdict EXCEPT ![a] = "failed"] /\ sending'[a] # None
      BY <1>2, <2>1
    <2>5. PathTypes' /\ GateInv' /\ SentOnce' /\ FailsOpen'
      BY <1>1, <1>2, <2>1, <2>3, <2>4, MovesOn
    <2>6. QED
      BY <1>0, <1>1, <2>1, <2>3, <2>5, MetaSame DEF PathStep
  <1>5. CASE Notified(a) \/ Fired(a)
    <2>1. /\ UNCHANGED <<ring, saved, verdict, sending, calls>>
          /\ \E g \in {"rules", "over"} : gate' = [gate EXCEPT ![a] = g]
      BY <1>5 DEF Notified, Fired, ToRules, alertStores, notices
    <2>2. PICK g \in {"rules", "over"} : gate' = [gate EXCEPT ![a] = g]
      BY <2>1
    <2>3. gate[a] \in {"notify", "rules"}
      BY <1>5 DEF Notified, Fired
    <2>4. /\ verdict[a] \in {"alerted", "failed"} => sending[a] # None
          /\ verdict[a] = "dismissed" => sending[a] = None
      BY <1>0, <2>3 DEF GateInv, PathInv, FailsOpen
    <2>5. /\ verdict' = [verdict EXCEPT ![a] = verdict[a]] /\ sending'[a] = sending[a]
          /\ ring' \in Seq(RingEntry) /\ saved' \in Seq(RingEntry)
      BY <1>2, <2>1
    <2>6. PathTypes' /\ GateInv' /\ SentOnce' /\ FailsOpen'
      BY <1>1, <1>2, <2>1, <2>2, <2>4, <2>5, MovesOn
    <2>7. QED
      BY <1>0, <1>1, <1>2, <2>1, <2>6, MetaSame DEF PathStep
  <1>6. CASE NotifyDirectly(a)
    <2>1. /\ verdict[a] = "none" /\ sending[a] = None /\ verdict' = verdict
          /\ gate' = [gate EXCEPT ![a] = "over"] /\ Call(a) /\ UNCHANGED <<ring, saved>>
      BY <1>0, <1>6 DEF NotifyDirectly, GateInv, alertStores
    <2>2. CallStep(a) /\ sending'[a] # None
      BY <1>0, <2>1, CallSends
    <2>3. verdict' = [verdict EXCEPT ![a] = "none"] /\ ring' \in Seq(RingEntry) /\ saved' \in Seq(RingEntry)
      BY <1>2, <2>1
    <2>4. PathTypes' /\ GateInv' /\ SentOnce' /\ FailsOpen'
      BY <1>1, <1>2, <2>1, <2>2, <2>3, MovesOn
    <2>5. QED
      BY <1>0, <1>1, <1>2, <2>1, <2>4, MetaSame DEF PathStep
  <1>7. QED
    BY <1>3, <1>4, <1>5, <1>6

LEMMA RestartStep ==
  ASSUME PathInv, ProcessRestarts
  PROVE  PathStep
  <1> USE DEF PathInv
  <1>1. UNCHANGED <<saved, events, verdict, services, sending, calls>> /\ ring' = saved
    BY DEF ProcessRestarts
  <1>2. gate' = [a \in Ids |-> IF gate[a] \in {"none", "over"} THEN gate[a] ELSE "lost"]
    BY DEF ProcessRestarts
  <1>3. PathTypes'
    BY <1>1, <1>2 DEF PathTypes
  <1>4. GateInv'
    BY <1>1, <1>2 DEF GateInv
  <1>5. SentOnce' /\ FailsOpen'
    BY <1>1, <1>2 DEF SentOnce, FailsOpen
  <1>6. Tells(ring', verdict') /\ Tells(saved', verdict')
    BY <1>1 DEF StoresInv
  <1>7. QED
    BY <1>1, <1>3, <1>4, <1>5, <1>6, MetaSame DEF PathStep

LEMMA EveryPathStep ==
  ASSUME PathInv, [PathNext]_pathVars
  PROVE  PathStep
  <1>1. services \in ServiceLists
    BY DEF PathInv, PathTypes
  <1>2. CASE Wire \/ (\E a \in Ids : Hear(a)) \/ (\E t \in Tests : Report(t))
    <2>1. UNCHANGED <<ring, saved, events, verdict, gate, sending, calls, services>>
      BY <1>2 DEF Wire, Hear, Report, alertStores, notices
    <2>2. QED
      BY <1>1, <2>1, IdleStep
  <1>3. CASE \E l \in ServiceLists : SelectServices(l)
    <2>1. UNCHANGED <<ring, saved, events, verdict, gate, sending, calls>> /\ services' \in ServiceLists
      BY <1>3 DEF SelectServices, alertStores
    <2>2. QED
      BY <2>1, IdleStep
  <1>4. CASE UNCHANGED pathVars
    <2>1. UNCHANGED <<ring, saved, events, verdict, gate, sending, calls, services>>
      BY <1>4 DEF pathVars, alertStores, notices
    <2>2. QED
      BY <1>1, <2>1, IdleStep
  <1>5. ASSUME NEW a \in Ids, GateStep(a) PROVE PathStep
    BY <1>5, ReasonStep, GateStepKeeps DEF GateStep
  <1>6. ASSUME NEW a \in Ids,
               \/ Record(a) \/ EnrichImage(a) \/ Dismiss(a) \/ Feedback(a)
               \/ Acknowledge(a) \/ \E w \in Windows \cup {None} : EnrichWindow(a, w)
        PROVE  PathStep
    BY <1>6, RecordStep, EnricherStep, UserStep
  <1>7. CASE ProcessRestarts
    BY <1>7, RestartStep
  <1>8. QED
    BY <1>2, <1>3, <1>4, <1>5, <1>6, <1>7 DEF PathNext

----------------------------------------------------------------------------
(* The theorems of AlertPath.                                              *)

LEMMA PathStart ==
  ASSUME PathInit
  PROVE  PathInv
  <1> USE DEF PathInit
  <1>1. PathTypes
    BY AlertPathAssumption DEF PathTypes
  <1>2. GateInv /\ StoresInv
    BY DEF GateInv, StoresInv, Tells, MetaTells
  <1>3. SentOnce /\ FailsOpen
    BY DEF SentOnce, FailsOpen
  <1>4. QED
    BY <1>1, <1>2, <1>3 DEF PathInv

THEOREM PathInductive == PathSpec => []PathInv
  <1>1. PathInit => PathInv
    BY PathStart
  <1>2. PathInv /\ [PathNext]_pathVars => PathInv'
    <2> SUFFICES ASSUME PathInv, [PathNext]_pathVars PROVE PathInv'
      OBVIOUS
    <2>1. PathStep
      BY EveryPathStep
    <2>2. QED
      BY <2>1 DEF PathStep, MetaStep, StoresInv, MetaTells, PathInv
  <1>3. QED
    BY <1>1, <1>2, PTL DEF PathSpec

\* The ring of recent alerts and the event directories never tell different decisions
\* (TriageGate._evaluate, AlertLog, EventStore).
THEOREM StoresTellTheSame == PathSpec => []StoresAgree
  <1>1. PathInv => StoresAgree
    <2> SUFFICES ASSUME PathInv PROVE StoresAgree
      OBVIOUS
    <2>1. \A i \in DOMAIN ring : ring[i].id \in Ids
      <3>1. ring \in Seq(RingEntry)
        BY DEF PathInv, PathTypes
      <3>2. \A i \in DOMAIN ring : ring[i] \in RingEntry
        BY <3>1
      <3>3. QED
        BY <3>2 DEF RingEntry
    <2>2. QED
      BY <2>1 DEF StoresAgree, PathInv, StoresInv, Tells, MetaTells
  <1>2. QED
    BY <1>1, PathInductive, PTL

\* No writer of an event's metadata undoes what another wrote (EventStore's updates).
THEOREM MetadataIsMerged == PathSpec => MetaIsMerged
  <1>1. PathInv /\ [PathNext]_pathVars =>
          [\A a \in Ids : events[a] # None =>
             /\ events'[a] # None
             /\ events[a].enriched => events'[a].enriched
             /\ events[a].dismissed => events'[a].dismissed
             /\ events[a].triage # "none" => events'[a].triage = events[a].triage]_pathVars
    BY EveryPathStep DEF PathStep, MetaStep
  <1>2. QED
    BY <1>1, PathInductive, PTL DEF PathSpec, MetaIsMerged

\* An alert is sent at most once, and a reasoner that fails does not keep it from
\* being notified (AlertNotifier, TriageGate._evaluate, the test button).
THEOREM NotifiedOnce == PathSpec => [](SentOnce /\ FailsOpen)
  BY PathInductive, PTL DEF PathInv

----------------------------------------------------------------------------
(* What the operator's verdicts in Identity need: a row of the resolutions *)
(* has a subject and a verdict.  Whom a row names is of no account here.   *)

ResolutionRow(r) == r = [subject |-> r.subject, verdict |-> r.verdict]

IsTable(f) == f = [t \in Tracks |-> [m \in Modalities |-> f[t][m]]]

VerdictInv ==
  /\ IsTable(resolution)
  /\ \A t \in Tracks, m \in Modalities : ResolutionRow(resolution[t][m])

\* What becomes of the rows of a track: rows again, and the rejected ones rejected.
RowsKept(new, old, t) ==
  \A m \in Modalities : /\ ResolutionRow(new[t][m])
                        /\ old[t][m].verdict = "rejected" => new[t][m].verdict = "rejected"

LEMMA PersistKeeps ==
  ASSUME NEW r, NEW s, ResolutionRow(r)
  PROVE  ResolutionRow(Persist(r, s)) /\ (r.verdict = "rejected" => Persist(r, s).verdict = "rejected")
  BY DEF Persist, ResolutionRow

LEMMA SweepKeeps ==
  ASSUME NEW tracks, NEW old, \A t \in Tracks, m \in Modalities : ResolutionRow(old[t][m]), Sweep(tracks, old)
  PROVE  IsTable(resolution') /\ \A t \in Tracks : RowsKept(resolution', old, t)
  <1>1. PICK corpora : resolution' =
          [t \in Tracks |-> [m \in Modalities |->
            IF t \in tracks /\ Frames(t, m) > 0
            THEN Persist(old[t][m], Match(corpora[m], LookOf[t], Percent[m]))
            ELSE old[t][m]]]
    BY DEF Sweep
  <1>2. \A t \in Tracks, m \in Modalities :
          \/ resolution'[t][m] = old[t][m]
          \/ \E s : resolution'[t][m] = Persist(old[t][m], s)
    BY <1>1
  <1>3. IsTable(resolution')
    BY <1>1 DEF IsTable
  <1>4. QED
    BY <1>2, <1>3, PersistKeeps DEF RowsKept

\* What a request does to the resolutions.
HandleStep(r) ==
  /\ IsTable(resolution')
  /\ \A t \in Tracks, m \in Modalities : ResolutionRow(resolution'[t][m])
  /\ \A t \in Tracks : (r.op = "label" /\ r.track = t) \/ RowsKept(resolution', resolution, t)

LEMMA SameKeeps ==
  ASSUME VerdictInv, UNCHANGED resolution, NEW r
  PROVE  HandleStep(r)
  BY DEF VerdictInv, HandleStep, RowsKept

LEMMA LabelKeeps ==
  ASSUME VerdictInv, NEW r, r.op = "label", Label(r)
  PROVE  HandleStep(r)
  <1> DEFINE old == [resolution EXCEPT ![r.track] = [m \in Modalities |-> Unresolved]]
  <1>1. UNCHANGED resolution \/ Sweep(Tracks, old)
    BY DEF Label
  <1>2. CASE UNCHANGED resolution
    BY <1>2, SameKeeps
  <1>3. CASE Sweep(Tracks, old)
    <2>1. \A t \in Tracks, m \in Modalities :
            old[t][m] = IF t = r.track THEN Unresolved ELSE resolution[t][m]
      BY DEF VerdictInv, IsTable
    <2>2. \A t \in Tracks, m \in Modalities : ResolutionRow(old[t][m])
      BY <2>1 DEF VerdictInv, ResolutionRow, Unresolved
    <2> HIDE DEF old
    <2>3. IsTable(resolution') /\ \A t \in Tracks : RowsKept(resolution', old, t)
      BY <1>3, <2>2, SweepKeeps
    <2>4. QED
      BY <2>1, <2>3 DEF HandleStep, RowsKept
  <1>4. QED
    BY <1>1, <1>2, <1>3

Refused(row) == IF row = Unresolved THEN Unresolved ELSE [row EXCEPT !.verdict = "rejected"]

LEMMA RefusedIsRow ==
  ASSUME NEW row, ResolutionRow(row)
  PROVE  ResolutionRow(Refused(row)) /\ (row.verdict = "rejected" => Refused(row).verdict = "rejected")
  BY DEF ResolutionRow, Refused, Unresolved

LEMMA RejectKeeps ==
  ASSUME VerdictInv, NEW r, Reject(r)
  PROVE  HandleStep(r)
  <1>1. resolution' = [resolution EXCEPT ![r.track] = [m \in Modalities |-> Refused(@[m])]]
    BY DEF Reject, Refused
  <1>3. \A t \in Tracks, m \in Modalities :
          resolution'[t][m] = IF t = r.track THEN Refused(resolution[t][m]) ELSE resolution[t][m]
    BY <1>1 DEF VerdictInv, IsTable
  <1>4. IsTable(resolution')
    BY <1>1 DEF VerdictInv, IsTable
  <1>5. \A t \in Tracks, m \in Modalities : ResolutionRow(resolution[t][m])
    BY DEF VerdictInv
  <1>6. ASSUME NEW t \in Tracks, NEW m \in Modalities
        PROVE  /\ ResolutionRow(resolution'[t][m])
               /\ resolution[t][m].verdict = "rejected" => resolution'[t][m].verdict = "rejected"
    <2>1. ResolutionRow(resolution[t][m])
      BY <1>5
    <2>2. resolution'[t][m] = Refused(resolution[t][m]) \/ resolution'[t][m] = resolution[t][m]
      BY <1>3
    <2>3. CASE resolution'[t][m] = Refused(resolution[t][m])
      <3>1. /\ ResolutionRow(Refused(resolution[t][m]))
            /\ resolution[t][m].verdict = "rejected" => Refused(resolution[t][m]).verdict = "rejected"
        BY <2>1, RefusedIsRow
      <3>2. QED
        BY <2>3, <3>1 DEF ResolutionRow
    <2>4. CASE resolution'[t][m] = resolution[t][m]
      BY <2>1, <2>4 DEF ResolutionRow
    <2>5. QED
      BY <2>2, <2>3, <2>4
  <1>7. QED
    BY <1>4, <1>6 DEF HandleStep, RowsKept

LEMMA MergeKeeps ==
  ASSUME VerdictInv, NEW r, Merge(r)
  PROVE  HandleStep(r)
  <1> DEFINE old == Repointed(r.from, r.into)
  <1>1. UNCHANGED resolution \/ Sweep(Tracks, old)
    BY DEF Merge, store
  <1>2. CASE UNCHANGED resolution
    BY <1>2, SameKeeps
  <1>3. CASE Sweep(Tracks, old)
    <2>1. \A t \in Tracks, m \in Modalities :
            old[t][m] = IF resolution[t][m].subject = r.from
                        THEN [resolution[t][m] EXCEPT !.subject = r.into] ELSE resolution[t][m]
      BY DEF Repointed
    <2>2. \A row : ResolutionRow(row) => /\ ResolutionRow([row EXCEPT !.subject = r.into])
                                        /\ [row EXCEPT !.subject = r.into].verdict = row.verdict
      BY DEF ResolutionRow
    <2> HIDE DEF old
    <2>3. \A t \in Tracks, m \in Modalities :
            ResolutionRow(old[t][m]) /\ old[t][m].verdict = resolution[t][m].verdict
      BY <2>1, <2>2 DEF VerdictInv
    <2>4. IsTable(resolution') /\ \A t \in Tracks : RowsKept(resolution', old, t)
      BY <1>3, <2>3, SweepKeeps
    <2>5. QED
      BY <2>3, <2>4 DEF HandleStep, RowsKept
  <1>4. QED
    BY <1>1, <1>2, <1>3

LEMMA HandleKeeps ==
  ASSUME VerdictInv, NEW r, Handle(r)
  PROVE  HandleStep(r)
  <1>1. CASE r.op = "label" /\ Label(r)
    BY <1>1, LabelKeeps
  <1>2. CASE Resolve(r)
    <2>1. \E tracks : Sweep(tracks, resolution)
      BY <1>2 DEF Resolve
    <2>2. IsTable(resolution') /\ \A t \in Tracks : RowsKept(resolution', resolution, t)
      BY <2>1, SweepKeeps DEF VerdictInv
    <2>3. QED
      BY <2>2 DEF HandleStep, RowsKept
  <1>3. CASE Reject(r)
    BY <1>3, RejectKeeps
  <1>4. CASE Merge(r)
    BY <1>4, MergeKeeps
  <1>5. QED
    BY <1>1, <1>2, <1>3, <1>4 DEF Handle

LEMMA VerdictStep ==
  ASSUME VerdictInv, [IdentityNext]_identityVars
  PROVE  /\ VerdictInv'
         /\ \A t \in Tracks, m \in Modalities :
              resolution[t][m].verdict = "rejected" /\ ~Labelled(t) => resolution'[t][m].verdict = "rejected"
  <1> DEFINE Goal == /\ VerdictInv'
                     /\ \A t \in Tracks, m \in Modalities :
                          resolution[t][m].verdict = "rejected" /\ ~Labelled(t)
                            => resolution'[t][m].verdict = "rejected"
    <1>1. ASSUME NEW r, HandleStep(r), \A t \in Tracks : r.op = "label" /\ r.track = t => Labelled(t)
        PROVE  Goal
    BY <1>1 DEF VerdictInv, HandleStep, RowsKept
  <1>2. CASE Request
    <2>1. PICK r \in Forms : Handle(r) /\ last' = [form |-> r, stale |-> FALSE]
      BY <1>2 DEF Request
    <2>2. last' # Nil /\ last'.form = r
      <3>1. last' \in [form : Forms, stale : BOOLEAN]
        BY <2>1
      <3>2. QED
        BY <2>1, <3>1, IdentityAssumption
    <2>3. \A t \in Tracks : r.op = "label" /\ r.track = t => Labelled(t)
      BY <2>2 DEF Labelled
    <2>4. QED
      BY <1>1, <2>1, <2>3, HandleKeeps
  <1>3. CASE Retry
    <2>1. last # Nil /\ Handle(last.form)
      BY <1>3 DEF Retry
    <2>2. \A t \in Tracks : last.form.op = "label" /\ last.form.track = t => Labelled(t)
      BY <2>1 DEF Labelled
    <2>3. QED
      BY <1>1, <2>1, <2>2, HandleKeeps
  <1>4. CASE UNCHANGED resolution
    BY <1>4 DEF VerdictInv
  <1>5. [IdentityNext]_identityVars => Request \/ Retry \/ UNCHANGED resolution
    BY DEF IdentityNext, StoreEmbeddings, MarkEnriched, WorkerCrash, Enrolled,
           Deactivated, PreprocessorRestarts, identityVars, store
  <1>6. QED
    BY <1>2, <1>3, <1>4, <1>5

LEMMA VerdictStart ==
  ASSUME IdentityInit
  PROVE  VerdictInv
  BY DEF IdentityInit, VerdictInv, IsTable, ResolutionRow, Unresolved

\* A correction of the operator's stays: whatever is resolved, merged or repeated, a
\* rejected row is rejected until its track is labelled (identity_api, identity_store).
THEOREM RejectedStaysRejected == IdentitySpec => VerdictsAreKept
  <1>1. IdentityInit => VerdictInv
    BY VerdictStart
  <1>2. VerdictInv /\ [IdentityNext]_identityVars => VerdictInv'
    BY VerdictStep
  <1>3. VerdictInv /\ [IdentityNext]_identityVars =>
          [\A t \in Tracks, m \in Modalities :
             resolution[t][m].verdict = "rejected" /\ ~Labelled(t)
               => resolution'[t][m].verdict = "rejected"]_identityVars
    BY VerdictStep
  <1>4. QED
    BY <1>1, <1>2, <1>3, PTL DEF IdentitySpec, VerdictsAreKept

----------------------------------------------------------------------------
(* Vectors.                                                                *)

\* The units of a vector over a finite set are finitely many, and none only if it is
\* nowhere positive.
LEMMA UnitsAreFinite ==
  ASSUME NEW S, IsFiniteSet(S), NEW v \in [S -> Nat]
  PROVE  /\ IsFiniteSet(Units(v)) /\ Sum(v) \in Nat
         /\ Sum(v) = 0 => \A x \in S : v[x] = 0
  <1> DEFINE Of(x) == {x} \X (1..v[x])
             Parts == {Of(x) : x \in S}
  <1>1. IsFiniteSet(Parts)
    <2> DEFINE f == [x \in S |-> Of(x)]
    <2>1. f \in Surjection(S, Parts)
      BY DEF Surjection
    <2> HIDE DEF f, Parts
    <2>2. QED
      BY <2>1, FS_Surjection
  <1>2. ASSUME NEW x \in S PROVE IsFiniteSet(Of(x))
    <2>1. IsFiniteSet({x})
      BY FS_Singleton
    <2>2. v[x] \in Nat
      OBVIOUS
    <2>3. IsFiniteSet(1..v[x])
      BY <2>2, FS_Interval
    <2>4. QED
      BY <2>1, <2>3, FS_Product
  <1>3. \A P \in Parts : IsFiniteSet(P)
    BY <1>2
  <1>4. Units(v) = UNION Parts
    BY DEF Units
  <1>5. IsFiniteSet(Units(v))
    <2> HIDE DEF Parts
    <2>1. QED
      BY <1>1, <1>3, <1>4, FS_UNION
  <1>6. ASSUME NEW x \in S, v[x] # 0 PROVE <<x, 1>> \in Units(v)
    <2>1. 1 \in 1..v[x]
      BY <1>6
    <2>2. <<x, 1>> \in Of(x)
      BY <2>1
    <2>3. QED
      BY <1>4, <2>2
  <1>7. QED
    BY <1>5, <1>6, FS_CardinalityType, FS_EmptySet DEF Sum

LEMMA LowestKeeps ==
  ASSUME NEW v \in [Looks -> Nat]
  PROVE  /\ Lowest(v) \in [Looks -> Nat]
         /\ \A l \in Looks : v[l] > 0 => Lowest(v)[l] > 0
  <1> DEFINE n == Sum(v)
             D == {d \in 1..n : \A l \in Looks : v[l] % d = 0}
  <1>1. n \in Nat
    BY UnitsAreFinite, IdentityAssumption
  <1>2. CASE n = 0
    BY <1>2 DEF Lowest
  <1>3. CASE n # 0
    <2> DEFINE M == {n - d : d \in D}
    <2>1. 1 \in D
      <3>1. \A k \in Nat : k % 1 = 0
        OBVIOUS
      <3>2. 1 \in 1..n
        BY <1>1, <1>3
      <3>3. QED
        BY <3>1, <3>2
    <2>2. \A d \in D : d \in Nat /\ d > 0 /\ d <= n /\ n - d \in Nat
      BY <1>1
    <2>3. M \subseteq Nat /\ M # {}
      BY <2>1, <2>2
    <2>4. PICK k \in M : \A j \in M : k <= j
      BY <2>3, LeastIsOne
    <2>5. PICK d \in D : k = n - d
      BY <2>4
    <2>6. \A e \in D : d >= e
      <3> SUFFICES ASSUME NEW e \in D PROVE d >= e
        OBVIOUS
      <3>1. n - d <= n - e
        BY <2>4, <2>5
      <3>2. d \in Nat /\ e \in Nat /\ n \in Nat
        BY <1>1, <2>2
      <3>3. QED
        BY <3>1, <3>2
    <2> DEFINE g == Max(D)
    <2>7. g \in D
      BY <2>5, <2>6 DEF Max
    <2>8. g \in Nat /\ g > 0 /\ \A l \in Looks : v[l] % g = 0
      BY <2>2, <2>7
    <2>9. Lowest(v) = [l \in Looks |-> v[l] \div g]
      BY <1>3 DEF Lowest
    <2> HIDE DEF g, D, M
    <2>10. \A a, b \in Nat : b > 0 => a \div b \in Nat
      OBVIOUS
    <2>11. \A a, b \in Nat : b > 0 /\ a > 0 /\ a % b = 0 => a \div b > 0
      OBVIOUS
    <2>12. QED
      BY <2>8, <2>9, <2>10, <2>11
  <1>4. QED
    BY <1>2, <1>3

LEMMA Products ==
  /\ \A a, b \in Nat : a * b \in Nat
  /\ \A a, b \in Nat : a > 0 /\ b > 0 => a * b > 0
  /\ \A a, b, c \in Nat : a <= b => a * c <= b * c
  OBVIOUS

LEMMA PlusKeeps ==
  ASSUME NEW v \in [Looks -> Nat], NEW w \in [Looks -> Nat], NEW a \in Nat, NEW b \in Nat,
         v # Nowhere, a > 0
  PROVE  Plus(v, a, w, b) \in [Looks -> Nat] /\ Plus(v, a, w, b) # Nowhere
  <1> DEFINE u == [l \in Looks |-> v[l] * a + w[l] * b]
  <1>1. PICK l \in Looks : v[l] # 0
    BY DEF Nowhere
  <1>2. \A k \in Looks : v[k] * a \in Nat /\ w[k] * b \in Nat
    BY Products
  <1>3. v[l] * a > 0
    BY <1>1, Products
  <1>4. u \in [Looks -> Nat] /\ u[l] > 0
    BY <1>2, <1>3
  <1>5. Plus(v, a, w, b) = Lowest(u)
    BY DEF Plus
  <1> HIDE DEF u
  <1>6. Lowest(u) \in [Looks -> Nat] /\ Lowest(u)[l] > 0
    BY <1>4, LowestKeeps
  <1>7. QED
    BY <1>5, <1>6 DEF Nowhere

LEMMA PureIsSomewhere ==
  ASSUME NEW k \in Looks
  PROVE  Pure(k) \in [Looks -> Nat] /\ Pure(k) # Nowhere
  <1>1. Pure(k) \in [Looks -> Nat] /\ Pure(k)[k] = 1 /\ Nowhere[k] = 0
    BY DEF Pure, Nowhere
  <1>2. QED
    BY <1>1

\* Counting in one more track adds its frames, and what two counts are merged into is
\* no more than both.
LEMMA OneMoreSource ==
  ASSUME NEW v \in [Tracks -> Nat], NEW t \in Tracks, v[t] = 0, NEW k \in Nat
  PROVE  Sum([v EXCEPT ![t] = k]) <= Sum(v) + k
  <1> DEFINE u == [v EXCEPT ![t] = k]
             P == {t} \X (1..k)
  <1>1. IsFiniteSet(Units(v)) /\ IsFiniteSet(Units(u))
    BY UnitsAreFinite, IdentityAssumption
  <1>2. IsFiniteSet(P) /\ Cardinality(P) = k
    <2>1. IsFiniteSet({t}) /\ Cardinality({t}) = 1
      BY FS_Singleton
    <2>2. IsFiniteSet(1..k) /\ Cardinality(1..k) = k
      <3>1. 1 \in Int /\ k \in Int /\ (k - 1 + 1 = k) /\ (1 > k => k = 0)
        OBVIOUS
      <3>2. QED
        BY <3>1, FS_Interval
    <2>3. IsFiniteSet(P) /\ Cardinality(P) = Cardinality({t}) * Cardinality(1..k)
      <3> HIDE DEF u
      <3>1. QED
        BY <2>1, <2>2, FS_Product
    <2>4. 1 * k = k
      OBVIOUS
    <2>5. QED
      BY <2>1, <2>2, <2>3, <2>4
  <1>3. Units(u) \subseteq Units(v) \cup P
    BY DEF Units
  <1> HIDE DEF P, u
  <1>4. IsFiniteSet(Units(v) \cup P) /\ Cardinality(Units(v) \cup P) <= Cardinality(Units(v)) + Cardinality(P)
    <2>1. /\ IsFiniteSet(Units(v) \cup P) 
          /\ Cardinality(Units(v) \cup P)
               = Cardinality(Units(v)) + Cardinality(P) - Cardinality(Units(v) \cap P)
      BY <1>1, <1>2, FS_Union
    <2>2. Cardinality(Units(v) \cap P) \in Nat
      BY <1>1, FS_Intersection, FS_CardinalityType
    <2>3. Cardinality(Units(v)) \in Nat
      BY <1>1, FS_CardinalityType
    <2>4. QED
      BY <1>2, <2>1, <2>2, <2>3
  <1>5. Cardinality(Units(u)) <= Cardinality(Units(v) \cup P)
    BY <1>3, <1>4, FS_Subset
  <1>6. Cardinality(Units(u)) \in Nat /\ Cardinality(Units(v)) \in Nat /\ Cardinality(Units(v) \cup P) \in Nat
    BY <1>1, <1>4, FS_CardinalityType
  <1>7. QED
    BY <1>2, <1>4, <1>5, <1>6 DEF Sum, u

LEMMA SourcesMerged ==
  ASSUME NEW v \in [Tracks -> Nat], NEW w \in [Tracks -> Nat]
  PROVE  Sum([t \in Tracks |-> IF v[t] = 0 THEN w[t] ELSE v[t]]) <= Sum(v) + Sum(w)
  <1> DEFINE u == [t \in Tracks |-> IF v[t] = 0 THEN w[t] ELSE v[t]]
  <1>1. IsFiniteSet(Units(v)) /\ IsFiniteSet(Units(u)) /\ IsFiniteSet(Units(w))
    BY UnitsAreFinite, IdentityAssumption
  <1>2. Units(u) \subseteq Units(v) \cup Units(w)
    BY DEF Units
  <1> HIDE DEF u
  <1>3. /\ IsFiniteSet(Units(v) \cup Units(w))
        /\ Cardinality(Units(v) \cup Units(w)) <= Cardinality(Units(v)) + Cardinality(Units(w))
    <2>1. /\ IsFiniteSet(Units(v) \cup Units(w)) 
          /\ Cardinality(Units(v) \cup Units(w))
               = Cardinality(Units(v)) + Cardinality(Units(w)) - Cardinality(Units(v) \cap Units(w))
      BY <1>1, FS_Union
    <2>2. Cardinality(Units(v) \cap Units(w)) \in Nat
      BY <1>1, FS_Intersection, FS_CardinalityType
    <2>3. Cardinality(Units(v)) \in Nat /\ Cardinality(Units(w)) \in Nat
      BY <1>1, FS_CardinalityType
    <2>4. QED
      BY <2>1, <2>2, <2>3
  <1>4. Cardinality(Units(u)) <= Cardinality(Units(v) \cup Units(w))
    BY <1>2, <1>3, FS_Subset
  <1>5. /\ Cardinality(Units(u)) \in Nat /\ Cardinality(Units(v) \cup Units(w)) \in Nat
        /\ Cardinality(Units(v)) \in Nat /\ Cardinality(Units(w)) \in Nat
    BY <1>1, <1>3, FS_CardinalityType
  <1>6. QED
    BY <1>3, <1>4, <1>5 DEF Sum, u

----------------------------------------------------------------------------
(* Rows.                                                                   *)

LEMMA AppendedRow ==
  ASSUME NEW q \in Seq(Subjects), IsInjective(q), NEW s \in Subjects, s \notin ToSet(q)
  PROVE  /\ Append(q, s) \in Seq(Subjects) /\ IsInjective(Append(q, s))
         /\ ToSet(Append(q, s)) = ToSet(q) \cup {s}
  <1> DEFINE p == Append(q, s)
             n == Len(q)
  <1>1. n \in Nat /\ DOMAIN q = 1..n
    BY LenProperties
  <1>2. p \in Seq(Subjects) /\ DOMAIN p = 1..(n+1) /\ p[n+1] = s /\ \A i \in 1..n : p[i] = q[i]
    OBVIOUS
  <1> HIDE DEF p, n
  <1>3. \A i \in 1..(n+1) : i = n+1 \/ i \in 1..n
    BY <1>1
  <1>4. \A i \in 1..n : i \in 1..(n+1) /\ q[i] # s
    BY <1>1 DEF ToSet
  <1>5. n+1 \in 1..(n+1)
    BY <1>1
  <1>6. IsInjective(p)
    BY <1>1, <1>2, <1>3, <1>4 DEF IsInjective
  <1>7. ToSet(p) = ToSet(q) \cup {s}
    BY <1>1, <1>2, <1>3, <1>4, <1>5 DEF ToSet
  <1>8. QED
    BY <1>2, <1>6, <1>7 DEF p

LEMMA RemovedAt ==
  ASSUME NEW q \in Seq(Subjects), NEW k \in 1..Len(q)
  PROVE  /\ RemoveAt(q, k) \in Seq(Subjects) /\ Len(RemoveAt(q, k)) = Len(q) - 1
         /\ \A i \in 1..(Len(q) - 1) : RemoveAt(q, k)[i] = IF i < k THEN q[i] ELSE q[i+1]
  <1> DEFINE a == SubSeq(q, 1, k-1)
             b == SubSeq(q, k+1, Len(q))
             n == Len(q)
  <1>1. n \in Nat /\ k \in Nat /\ k >= 1 /\ k <= n
    BY LenProperties
  <1>2. \A i \in 1..n : q[i] \in Subjects
    OBVIOUS
  <1>3. \A i \in 1..(k-1) : i \in 1..n
    BY <1>1
  <1>4. \A i \in (k+1)..n : i \in 1..n
    BY <1>1
  <1>5. k-1 \in Int /\ k+1 \in Int /\ n \in Int /\ 1 \in Int
    BY <1>1
  <1>6. /\ a \in Seq(Subjects) /\ Len(a) = (IF 1 <= k-1 THEN k-1-1+1 ELSE 0)
        /\ \A i \in 1..(k-1-1+1) : a[i] = q[1+i-1]
    BY <1>2, <1>3, <1>5, SubSeqProperties
  <1>7. /\ b \in Seq(Subjects) /\ Len(b) = (IF k+1 <= n THEN n-(k+1)+1 ELSE 0)
        /\ \A i \in 1..(n-(k+1)+1) : b[i] = q[k+1+i-1]
    BY <1>2, <1>4, <1>5, SubSeqProperties
  <1> HIDE DEF a, b, n
  <1>8. Len(a) = k-1 /\ \A i \in 1..(k-1) : a[i] = q[i]
    <2>1. k-1-1+1 = k-1 /\ \A i \in 1..(k-1) : 1+i-1 = i
      BY <1>1
    <2>2. Len(a) = k-1
      BY <1>1, <1>6
    <2>3. QED
      BY <1>6, <2>1, <2>2
  <1>9. Len(b) = n-k /\ \A i \in 1..(n-k) : b[i] = q[k+i]
    <2>1. n-(k+1)+1 = n-k /\ \A i \in 1..(n-k) : k+1+i-1 = k+i
      BY <1>1
    <2>2. Len(b) = n-k
      BY <1>1, <1>7
    <2>3. QED
      BY <1>7, <2>1, <2>2
  <1>10. /\ a \o b \in Seq(Subjects) /\ Len(a \o b) = Len(a) + Len(b)
         /\ \A i \in 1..(Len(a) + Len(b)) : (a \o b)[i] = IF i <= Len(a) THEN a[i] ELSE b[i - Len(a)]
    BY <1>6, <1>7, ConcatProperties
  <1>11. Len(a) + Len(b) = n - 1
    BY <1>1, <1>8, <1>9
  <1>12. ASSUME NEW i \in 1..(n-1) PROVE (a \o b)[i] = IF i < k THEN q[i] ELSE q[i+1]
    <2>1. CASE i < k
      <3>1. i \in 1..(k-1) /\ i <= Len(a)
        BY <1>1, <1>8, <2>1
      <3>2. QED
        BY <1>8, <1>10, <1>11, <2>1, <3>1
    <2>2. CASE ~(i < k)
      <3>1. ~(i <= Len(a)) /\ i - Len(a) \in 1..(n-k) /\ k + (i - Len(a)) = i+1
        BY <1>1, <1>8, <2>2
      <3>2. QED
        BY <1>9, <1>10, <1>11, <2>2, <3>1
    <2>3. QED
      BY <2>1, <2>2
  <1>13. RemoveAt(q, k) = a \o b
    BY DEF RemoveAt, a, b
  <1>14. QED
    BY <1>10, <1>11, <1>12, <1>13 DEF n

LEMMA WithoutRow ==
  ASSUME NEW q \in Seq(Subjects), IsInjective(q), NEW s
  PROVE  /\ Without(s, q) \in Seq(Subjects) /\ IsInjective(Without(s, q))
         /\ ToSet(Without(s, q)) = ToSet(q) \ {s}
  <1>1. CASE s \notin ToSet(q)
    BY <1>1 DEF Without
  <1>2. CASE s \in ToSet(q)
    <2> DEFINE k == CHOOSE i \in DOMAIN q : q[i] = s
               p == RemoveAt(q, k)
               n == Len(q)
    <2>1. n \in Nat /\ DOMAIN q = 1..n
      BY LenProperties
    <2>2. k \in 1..n /\ q[k] = s
      BY <1>2, <2>1 DEF ToSet
    <2>3. Without(s, q) = p
      BY <1>2 DEF Without
    <2> HIDE DEF k
    <2>4. /\ p \in Seq(Subjects) /\ Len(p) = n - 1
          /\ \A i \in 1..(n - 1) : p[i] = IF i < k THEN q[i] ELSE q[i+1]
      BY <2>2, RemovedAt
    <2> HIDE DEF p, n
    <2>5. DOMAIN p = 1..(n-1)
      BY <2>4, LenProperties
    <2> DEFINE At(i) == IF i < k THEN i ELSE i+1
    <2>6. \A i \in 1..(n-1) : At(i) \in 1..n /\ At(i) # k /\ p[i] = q[At(i)]
      BY <2>1, <2>2, <2>4
    <2>7. \A i, j \in 1..(n-1) : At(i) = At(j) => i = j
      BY <2>1, <2>2
    <2>8. \A j \in 1..n : j # k => \E i \in 1..(n-1) : At(i) = j
      <3> SUFFICES ASSUME NEW j \in 1..n, j # k PROVE \E i \in 1..(n-1) : At(i) = j
        OBVIOUS
      <3>1. CASE j < k
        <4>1. j \in 1..(n-1) /\ At(j) = j
          BY <2>1, <2>2, <3>1
        <4>2. QED
          BY <4>1
      <3>2. CASE ~(j < k)
        <4>1. j-1 \in 1..(n-1) /\ At(j-1) = j
          BY <2>1, <2>2, <3>2
        <4>2. QED
          BY <4>1
      <3>3. QED
        BY <3>1, <3>2
    <2> HIDE DEF At
    <2>9. IsInjective(p)
      BY <2>1, <2>5, <2>6, <2>7 DEF IsInjective
    <2>10. ASSUME NEW x PROVE x \in ToSet(p) <=> x \in ToSet(q) /\ x # s
      <3>1. x \in ToSet(p) <=> \E i \in 1..(n-1) : x = q[At(i)]
        BY <2>5, <2>6 DEF ToSet
      <3>2. x \in ToSet(q) <=> \E j \in 1..n : x = q[j]
        BY <2>1 DEF ToSet
      <3>3. \A j \in 1..n : q[j] = s <=> j = k
        BY <2>1, <2>2 DEF IsInjective
      <3>4. QED
        BY <2>6, <2>8, <3>1, <3>2, <3>3
    <2>11. QED
      BY <2>3, <2>4, <2>9, <2>10
  <1>3. QED
    BY <1>1, <1>2

----------------------------------------------------------------------------
(* The inductive invariant of Identity.  A template's row is listed once   *)
(* and exactly while it counts a frame (RowsInv), which is exactly while   *)
(* it points somewhere (TemplatesInv) and while a track is on record as    *)
(* its source (SourcesInv); a row of the resolutions names a subject with  *)
(* such a template (NamesInv); what is cached is the template of now or    *)
(* the memory service's (CachedInv); and a request that may be repeated    *)
(* left the store as it would leave it again (RetryInv, further down).     *)

Vectors == [Looks -> Nat]
TemplateRows == [n : Nat, dir : Vectors]
ResolutionRows == [subject : Subjects \cup {Nil}, verdict : {"none", "auto", "rejected"}]
Resolutions == [Tracks -> [Modalities -> ResolutionRows]]

TableTypes ==
  /\ subjects \in [Subjects -> [known : BOOLEAN, active : BOOLEAN, kind : Kinds]]
  /\ template \in [Subjects -> [Modalities -> TemplateRows]]
  /\ rows \in [Modalities -> Seq(Subjects)]
  /\ provenance \in [Subjects -> [Modalities -> [Tracks -> Nat]]]
  /\ copies \in [Events -> Nat]

RowsInv ==
  \A m \in Modalities :
    /\ IsInjective(rows[m])
    /\ \A s \in Subjects : (s \in ToSet(rows[m])) = (template[s][m].n > 0)

TemplatesInv ==
  \A s \in Subjects, m \in Modalities :
    /\ (template[s][m].n = 0) = (template[s][m].dir = Nowhere)
    /\ template[s][m].n > 0 => subjects[s].known

SourcesInv ==
  \A s \in Subjects, m \in Modalities :
    /\ (template[s][m].n > 0) <=> (\E t \in Tracks : provenance[s][m][t] > 0)
    /\ \A t \in Tracks : provenance[s][m][t] <= Frames(t, m)
    /\ template[s][m].n >= Sum(provenance[s][m])

TablesInv == TableTypes /\ RowsInv /\ TemplatesInv /\ SourcesInv

\* A row names a subject for a reason.
Evidence(row, t, m) ==
  row.subject # Nil =>
    template[row.subject][m].n > 0 /\ Frames(t, m) > 0 /\ subjects[row.subject].known

NamesInv ==
  /\ resolution \in Resolutions
  /\ \A t \in Tracks, m \in Modalities : Evidence(resolution[t][m], t, m)

CachedInv ==
  /\ cache \in [Subjects -> [Modalities -> Vectors]]
  /\ LiveCacheIsCurrent

StoreInv == TablesInv /\ NamesInv /\ CachedInv

LEMMA EvidenceOfNames ==
  ASSUME StoreInv
  PROVE  EveryNameHasEvidence
  <1>1. ASSUME NEW s \in Subjects, NEW m \in Modalities
        PROVE  LET sources == {t \in Tracks : provenance[s][m][t] > 0} IN
               /\ (template[s][m].n > 0) = (sources # {})
               /\ \A t \in sources : Frames(t, m) >= provenance[s][m][t]
               /\ template[s][m].n >= Sum(provenance[s][m])
    <2>1. /\ (template[s][m].n > 0) <=> (\E t \in Tracks : provenance[s][m][t] > 0)
          /\ \A t \in Tracks : provenance[s][m][t] <= Frames(t, m)
          /\ template[s][m].n >= Sum(provenance[s][m])
      BY DEF StoreInv, TablesInv, SourcesInv
    <2>2. \A t \in Tracks : Frames(t, m) >= provenance[s][m][t]
      BY <2>1
    <2>3. QED
      BY <2>1, <2>2
  <1>2. \A t \in Tracks, m \in Modalities :
          LET s == resolution[t][m].subject IN
          s # Nil => template[s][m].n > 0 /\ Frames(t, m) > 0 /\ subjects[s].known
    BY DEF StoreInv, NamesInv, Evidence
  <1>3. QED
    BY <1>1, <1>2 DEF EveryNameHasEvidence

LEMMA FormFields ==
  ASSUME NEW r \in Forms
  PROVE  /\ r.op = "label" => /\ r.subject \in Subjects /\ r.track \in Tracks
                              /\ r.modalities \subseteq Modalities /\ r.kind \in Kinds
         /\ r.op = "reject" => r.track \in Tracks
         /\ r.op = "merge" => r.from \in Subjects /\ r.into \in Subjects
         /\ r.op \in {"label", "resolve", "reject", "merge"}
  BY DEF Forms

LEMMA FramesAreCounted ==
  ASSUME copies \in [Events -> Nat], NEW t \in Tracks, NEW m
  PROVE  Frames(t, m) \in Nat
  <1>1. copies[EventOf[t]] \in Nat /\ FramesOf[t] \in Nat
    BY IdentityAssumption
  <1>2. QED
    BY <1>1, Products DEF Frames

LEMMA StrengthenedGrows ==
  ASSUME NEW old \in TemplateRows, (old.n = 0) = (old.dir = Nowhere),
         copies \in [Events -> Nat], NEW t \in Tracks, NEW m, Frames(t, m) > 0
  PROVE  /\ Strengthened(old, t, m) \in TemplateRows
         /\ Strengthened(old, t, m).n = old.n + Frames(t, m) /\ Strengthened(old, t, m).n > 0
         /\ Strengthened(old, t, m).dir # Nowhere
  <1> DEFINE new == Strengthened(old, t, m)
             k == Frames(t, m)
             look == Pure(LookOf[t])
  <1>1. k \in Nat
    BY FramesAreCounted
  <1>2. old.n \in Nat /\ old.dir \in Vectors
    BY DEF TemplateRows
  <1>3. look \in Vectors /\ look # Nowhere
    BY IdentityAssumption, PureIsSomewhere DEF Vectors
  <1>4. new = [n |-> old.n + k,
               dir |-> IF old.n = 0 THEN look ELSE Plus(old.dir, old.n, look, k * Sum(old.dir))]
    BY DEF Strengthened
  <1>5. ASSUME old.n # 0
        PROVE  Plus(old.dir, old.n, look, k * Sum(old.dir)) \in Vectors
               /\ Plus(old.dir, old.n, look, k * Sum(old.dir)) # Nowhere
    <2>1. Sum(old.dir) \in Nat
      BY <1>2, UnitsAreFinite, IdentityAssumption DEF Vectors
    <2>2. k * Sum(old.dir) \in Nat
      BY <1>1, <2>1, Products
    <2>3. old.n > 0 /\ old.dir # Nowhere
      BY <1>2, <1>5
    <2> HIDE DEF k, look
    <2>4. \A v, w \in Vectors : \A a, b \in Nat :
            v # Nowhere /\ a > 0 => Plus(v, a, w, b) \in Vectors /\ Plus(v, a, w, b) # Nowhere
      BY PlusKeeps DEF Vectors
    <2>5. QED
      BY <1>2, <1>3, <2>2, <2>3, <2>4
  <1> HIDE DEF k, look, new
  <1>6. new.dir \in Vectors /\ new.dir # Nowhere
    BY <1>3, <1>4, <1>5
  <1>7. old.n + k \in Nat /\ old.n + k > 0
    BY <1>1, <1>2 DEF k
  <1>8. new \in TemplateRows /\ new.n = old.n + k
    BY <1>4, <1>6, <1>7 DEF TemplateRows
  <1>9. QED
    BY <1>6, <1>7, <1>8 DEF new, k

\* What a label writes besides the resolutions and the cache.
LabelWritten(r) ==
  /\ TablesInv'
  /\ \A s \in Subjects : subjects[s].known => subjects'[s].known
  /\ \A s \in Subjects, m \in Modalities :
       /\ template[s][m].n > 0 => template'[s][m].n > 0
       /\ s # r.subject \/ template'[s][m].n = 0 => template'[s][m] = template[s][m]
  /\ subjects'[r.subject] = [known |-> TRUE, active |-> TRUE, kind |-> r.kind]
  /\ \A m \in r.modalities : Frames(r.track, m) > 0 => provenance'[r.subject][m][r.track] > 0
  /\ (\A m \in r.modalities : ~(Frames(r.track, m) > 0)) => template' = template

LEMMA LabelWrites ==
  ASSUME TablesInv, UNCHANGED copies, NEW r \in Forms, r.op = "label", Label(r)
  PROVE  LabelWritten(r)
  <1> DEFINE s == r.subject
             t == r.track
             new == {m \in {m \in r.modalities : Frames(t, m) > 0} : Enrols(s, t, m)}
  <1>1. TableTypes /\ RowsInv /\ TemplatesInv /\ SourcesInv
    BY DEF TablesInv
  <1>2. s \in Subjects /\ t \in Tracks /\ r.modalities \subseteq Modalities /\ r.kind \in Kinds
    BY FormFields
  <1>3. /\ subjects' = [subjects EXCEPT ![s] = [known |-> TRUE, active |-> TRUE, kind |-> r.kind]]
        /\ rows' = AddRows(s, new)
        /\ template' = [template EXCEPT ![s] = [m \in Modalities |->
                           IF m \in new THEN Strengthened(@[m], t, m) ELSE @[m]]]
        /\ provenance' = [provenance EXCEPT ![s] = [m \in Modalities |->
                           IF m \in new THEN [@[m] EXCEPT ![t] = Frames(t, m)] ELSE @[m]]]
    BY DEF Label
  <1>4. \A m : Frames(t, m) \in Nat /\ \A x \in Tracks : Frames(x, m) \in Nat
    BY <1>1, <1>2, FramesAreCounted DEF TableTypes
  <1>5. \A m \in r.modalities : m \in new <=> Frames(t, m) > 0 /\ provenance[s][m][t] = 0
    BY <1>2 DEF Enrols
  <1>6. \A m \in new : m \in r.modalities /\ m \in Modalities
    BY <1>2
  <1> HIDE DEF new
  <1>7. \A m \in new : /\ template'[s][m] = Strengthened(template[s][m], t, m)
                       /\ provenance'[s][m] = [provenance[s][m] EXCEPT ![t] = Frames(t, m)]
    BY <1>1, <1>2, <1>3, <1>6 DEF TableTypes
  <1>8. \A x \in Subjects, m \in Modalities : x # s \/ m \notin new =>
           template'[x][m] = template[x][m] /\ provenance'[x][m] = provenance[x][m]
    BY <1>1, <1>2, <1>3 DEF TableTypes
  <1>9. \A m \in Modalities :
          rows'[m] = IF m \in new /\ template[s][m].n = 0 THEN Append(rows[m], s) ELSE rows[m]
    BY <1>3 DEF AddRows
  <1>10. \A x \in Subjects : subjects'[x] = IF x = s THEN [known |-> TRUE, active |-> TRUE, kind |-> r.kind]
                                                   ELSE subjects[x]
    BY <1>1, <1>2, <1>3 DEF TableTypes
  <1>11. subjects' \in [Subjects -> [known : BOOLEAN, active : BOOLEAN, kind : Kinds]]
    <2>1. [known |-> TRUE, active |-> TRUE, kind |-> r.kind] \in [known : BOOLEAN, active : BOOLEAN, kind : Kinds]
      BY <1>2
    <2>2. QED
      BY <1>1, <1>2, <1>3, <2>1 DEF TableTypes
  <1>12. ASSUME NEW m \in new
         PROVE  LET old == template[s][m] IN
                /\ Strengthened(old, t, m) \in TemplateRows
                /\ Strengthened(old, t, m).n = old.n + Frames(t, m) /\ Strengthened(old, t, m).n > 0
                /\ Strengthened(old, t, m).dir # Nowhere
    <2>1. template[s][m] \in TemplateRows
      BY <1>1, <1>2, <1>6 DEF TableTypes
    <2>2. (template[s][m].n = 0) = (template[s][m].dir = Nowhere)
      BY <1>1, <1>2, <1>6 DEF TemplatesInv
    <2>3. Frames(t, m) > 0
      BY <1>5, <1>6
    <2>4. QED
      BY <1>1, <1>2, <2>1, <2>2, <2>3, StrengthenedGrows DEF TableTypes
  <1>13. /\ template' \in [Subjects -> [Modalities -> TemplateRows]]
         /\ provenance' \in [Subjects -> [Modalities -> [Tracks -> Nat]]]
    <2>1. \A m \in Modalities : m \in new => Strengthened(template[s][m], t, m) \in TemplateRows
      BY <1>12
    <2>2. \A m \in Modalities : template[s][m] \in TemplateRows /\ provenance[s][m] \in [Tracks -> Nat]
      BY <1>1, <1>2 DEF TableTypes
    <2>3. [m \in Modalities |-> IF m \in new THEN Strengthened(template[s][m], t, m) ELSE template[s][m]]
            \in [Modalities -> TemplateRows]
      BY <2>1, <2>2
    <2>4. [m \in Modalities |-> IF m \in new THEN [provenance[s][m] EXCEPT ![t] = Frames(t, m)]
                                             ELSE provenance[s][m]] \in [Modalities -> [Tracks -> Nat]]
      BY <1>2, <1>4, <2>2
    <2>5. QED
      BY <1>1, <1>2, <1>3, <2>3, <2>4 DEF TableTypes
  <1>14. \A x \in Subjects, m \in Modalities : template[x][m].n \in Nat /\ template'[x][m].n \in Nat
    BY <1>1, <1>13 DEF TableTypes, TemplateRows
  <1>15. \A m \in new : template'[s][m].n > 0 /\ template'[s][m].dir # Nowhere
    BY <1>7, <1>12
  <1>16. rows' \in [Modalities -> Seq(Subjects)] /\ RowsInv'
    <2>1. rows' = [m \in Modalities |-> rows'[m]]
      BY <1>3 DEF AddRows
    <2>2. ASSUME NEW m \in Modalities
          PROVE  /\ rows'[m] \in Seq(Subjects) /\ IsInjective(rows'[m])
                 /\ \A x \in Subjects : (x \in ToSet(rows'[m])) = (template'[x][m].n > 0)
      <3>1. /\ rows[m] \in Seq(Subjects) /\ IsInjective(rows[m])
            /\ \A x \in Subjects : (x \in ToSet(rows[m])) = (template[x][m].n > 0)
        BY <1>1 DEF TableTypes, RowsInv
      <3>2. CASE m \in new /\ template[s][m].n = 0
        <4>1. s \notin ToSet(rows[m])
          BY <1>2, <3>1, <3>2
        <4>2. /\ rows'[m] \in Seq(Subjects) /\ IsInjective(rows'[m])
              /\ ToSet(rows'[m]) = ToSet(rows[m]) \cup {s}
          BY <1>2, <1>9, <3>1, <3>2, <4>1, AppendedRow
        <4>3. QED
          BY <1>8, <1>15, <3>1, <3>2, <4>2
      <3>3. CASE ~(m \in new /\ template[s][m].n = 0)
        <4>1. rows'[m] = rows[m]
          BY <1>9, <3>3
        <4>2. \A x \in Subjects : (template'[x][m].n > 0) = (template[x][m].n > 0)
          <5> SUFFICES ASSUME NEW x \in Subjects PROVE (template'[x][m].n > 0) = (template[x][m].n > 0)
            OBVIOUS
          <5>1. CASE x = s /\ m \in new
            <6>1. template[s][m].n \in Nat /\ template[s][m].n # 0
              BY <1>2, <1>14, <3>3, <5>1
            <6>2. QED
              BY <1>15, <5>1, <6>1
          <5>2. CASE ~(x = s /\ m \in new)
            BY <1>8, <5>2
          <5>3. QED
            BY <5>1, <5>2
        <4>3. QED
          BY <3>1, <4>1, <4>2
      <3>4. QED
        BY <3>2, <3>3
    <2>3. QED
      BY <2>1, <2>2 DEF RowsInv
  <1>17. TemplatesInv'
    <2> SUFFICES ASSUME NEW x \in Subjects, NEW m \in Modalities
                 PROVE  /\ (template'[x][m].n = 0) = (template'[x][m].dir = Nowhere)
                        /\ template'[x][m].n > 0 => subjects'[x].known
      BY DEF TemplatesInv
    <2>1. CASE x = s /\ m \in new
      BY <1>10, <1>15, <2>1
    <2>2. CASE ~(x = s /\ m \in new)
      <3>1. template'[x][m] = template[x][m] /\ (subjects[x].known => subjects'[x].known)
        BY <1>8, <1>10, <2>2
      <3>2. QED
        BY <1>1, <3>1 DEF TemplatesInv
    <2>3. QED
      BY <2>1, <2>2
  <1>18. SourcesInv'
    <2> SUFFICES ASSUME NEW x \in Subjects, NEW m \in Modalities
                 PROVE  /\ (template'[x][m].n > 0) <=> (\E y \in Tracks : provenance'[x][m][y] > 0)
                        /\ \A y \in Tracks : provenance'[x][m][y] <= Frames(y, m)'
                        /\ template'[x][m].n >= Sum(provenance'[x][m])
      BY DEF SourcesInv
    <2>1. /\ (template[x][m].n > 0) <=> (\E y \in Tracks : provenance[x][m][y] > 0)
          /\ \A y \in Tracks : provenance[x][m][y] <= Frames(y, m)
          /\ template[x][m].n >= Sum(provenance[x][m])
      BY <1>1 DEF SourcesInv
    <2>2. \A y \in Tracks : Frames(y, m)' = Frames(y, m)
      BY DEF Frames
    <2>3. CASE x = s /\ m \in new
      <3> DEFINE v == provenance[x][m]
                 k == Frames(t, m)
      <3>1. v \in [Tracks -> Nat] /\ k \in Nat /\ v[t] = 0 /\ k > 0
        BY <1>1, <1>2, <1>4, <1>5, <1>6, <2>3 DEF TableTypes
      <3>2. provenance'[x][m] = [v EXCEPT ![t] = k]
        BY <1>7, <2>3
      <3>3. template'[x][m].n = template[x][m].n + k /\ template'[x][m].n > 0
        BY <1>7, <1>12, <2>3
      <3> HIDE DEF v, k
      <3>4. Sum([v EXCEPT ![t] = k]) <= Sum(v) + k
        BY <1>2, <3>1, OneMoreSource
      <3>5. Sum(v) \in Nat /\ Sum([v EXCEPT ![t] = k]) \in Nat
        <4>1. [v EXCEPT ![t] = k] \in [Tracks -> Nat]
          BY <3>1
        <4>2. QED
          BY <3>1, <4>1, UnitsAreFinite, IdentityAssumption
      <3>6. template[x][m].n \in Nat /\ template[x][m].n >= Sum(v)
        BY <1>14, <2>1 DEF v
      <3>7. template'[x][m].n >= Sum(provenance'[x][m])
        BY <3>1, <3>2, <3>3, <3>4, <3>5, <3>6
      <3>8. \A y \in Tracks : provenance'[x][m][y] = IF y = t THEN k ELSE v[y]
        BY <3>1, <3>2
      <3>9. \E y \in Tracks : provenance'[x][m][y] > 0
        BY <1>2, <3>1, <3>8
      <3>10. \A y \in Tracks : provenance'[x][m][y] <= Frames(y, m)
        <4>1. k <= Frames(t, m)
          BY <1>4 DEF k
        <4>2. QED
          BY <2>1, <3>8, <4>1 DEF v
      <3>11. QED
        BY <2>2, <3>3, <3>7, <3>9, <3>10
    <2>4. CASE ~(x = s /\ m \in new)
      BY <1>8, <2>1, <2>2, <2>4
    <2>5. QED
      BY <2>3, <2>4
  <1>19. \A m \in r.modalities : Frames(t, m) > 0 => provenance'[s][m][t] > 0
    <2> SUFFICES ASSUME NEW m \in r.modalities, Frames(t, m) > 0 PROVE provenance'[s][m][t] > 0
      OBVIOUS
    <2>1. m \in Modalities /\ provenance[s][m] \in [Tracks -> Nat]
      BY <1>1, <1>2 DEF TableTypes
    <2>2. CASE m \in new
      <3>1. provenance'[s][m][t] = Frames(t, m)
        BY <1>2, <1>7, <2>1, <2>2
      <3>2. QED
        BY <3>1
    <2>3. CASE m \notin new
      <3>1. provenance[s][m][t] # 0 /\ provenance[s][m][t] \in Nat /\ provenance'[s][m] = provenance[s][m]
        BY <1>2, <1>5, <1>8, <2>1, <2>3
      <3>2. QED
        BY <3>1
    <2>4. QED
      BY <2>2, <2>3
  <1>20. (\A m \in r.modalities : ~(Frames(t, m) > 0)) => template' = template
    <2> SUFFICES ASSUME \A m \in r.modalities : ~(Frames(t, m) > 0) PROVE template' = template
      OBVIOUS
    <2>1. new = {}
      BY <1>5, <1>6
    <2>2. QED
      BY <1>1, <1>3, <2>1 DEF TableTypes
  <1>21. ASSUME NEW x \in Subjects, NEW m \in Modalities
         PROVE  /\ template[x][m].n > 0 => template'[x][m].n > 0
                /\ x # s \/ template'[x][m].n = 0 => template'[x][m] = template[x][m]
    <2>1. CASE x = s /\ m \in new
      BY <1>15, <2>1
    <2>2. CASE ~(x = s /\ m \in new)
      BY <1>8, <2>2
    <2>3. QED
      BY <2>1, <2>2
  <1>22. TablesInv'
    BY <1>11, <1>13, <1>16, <1>17, <1>18, <1>1 DEF TablesInv, TableTypes
  <1>23. \A x \in Subjects : subjects[x].known => subjects'[x].known
    BY <1>10
  <1>24. subjects'[s] = [known |-> TRUE, active |-> TRUE, kind |-> r.kind]
    BY <1>2, <1>10
  <1>25. QED
    BY <1>19, <1>20, <1>21, <1>22, <1>23, <1>24 DEF LabelWritten

NoMatch(a) == (a.n = 0) = (a.dir = Nowhere)

LEMMA MergedCounts ==
  ASSUME NEW a \in TemplateRows, NEW b \in TemplateRows, NoMatch(a), NoMatch(b)
  PROVE  Merged(a, b) \in TemplateRows /\ Merged(a, b).n = a.n + b.n /\ NoMatch(Merged(a, b))
  <1>1. /\ a.n \in Nat /\ a.dir \in Vectors /\ a = [n |-> a.n, dir |-> a.dir]
        /\ b.n \in Nat /\ b.dir \in Vectors /\ b = [n |-> b.n, dir |-> b.dir]
    BY DEF TemplateRows
  <1>2. CASE a.n = 0
    <2>1. Merged(a, b) = b /\ a.n + b.n = b.n
      BY <1>1, <1>2 DEF Merged
    <2>2. QED
      BY <2>1
  <1>3. CASE a.n # 0 /\ b.n = 0
    <2>1. Merged(a, b) = a /\ a.n + b.n = a.n
      BY <1>1, <1>3 DEF Merged
    <2>2. QED
      BY <2>1
  <1>4. CASE a.n # 0 /\ b.n # 0
    <2> DEFINE d == Plus(a.dir, Sum(b.dir), b.dir, Sum(a.dir))
    <2>1. Merged(a, b) = [n |-> a.n + b.n, dir |-> d]
      BY <1>4 DEF Merged
    <2>2. a.dir # Nowhere /\ b.dir # Nowhere
      BY <1>4 DEF NoMatch
    <2>3. Sum(a.dir) \in Nat /\ Sum(b.dir) \in Nat /\ Sum(b.dir) # 0
      <3>1. \A v \in Vectors : Sum(v) \in Nat /\ (Sum(v) = 0 => \A x \in Looks : v[x] = 0)
        BY UnitsAreFinite, IdentityAssumption DEF Vectors
      <3>2. \A v \in Vectors : v # Nowhere => \E x \in Looks : v[x] # 0
        BY DEF Vectors, Nowhere
      <3>3. QED
        BY <1>1, <2>2, <3>1, <3>2
    <2>4. \A v, w \in Vectors : \A i, j \in Nat :
            v # Nowhere /\ i > 0 => Plus(v, i, w, j) \in Vectors /\ Plus(v, i, w, j) # Nowhere
      BY PlusKeeps DEF Vectors
    <2>5. d \in Vectors /\ d # Nowhere
      <3>1. Sum(b.dir) > 0
        BY <2>3
      <3>2. QED
        BY <1>1, <2>2, <2>3, <2>4, <3>1
    <2> HIDE DEF d
    <2>6. a.n + b.n \in Nat /\ a.n + b.n # 0
      BY <1>1, <1>4
    <2>7. Merged(a, b) \in TemplateRows /\ Merged(a, b).n = a.n + b.n /\ Merged(a, b).dir = d
      BY <2>1, <2>5, <2>6 DEF TemplateRows
    <2>8. QED
      BY <2>5, <2>6, <2>7 DEF NoMatch
  <1>5. QED
    BY <1>2, <1>3, <1>4

\* What a merge writes besides the resolutions and the cache.
MergeWritten(from, into) ==
  /\ TablesInv'
  /\ \A s \in Subjects : /\ subjects'[s].known = subjects[s].known
                         /\ subjects'[s].kind = subjects[s].kind
  /\ subjects'[from].active = FALSE
  /\ \A m \in Modalities :
       /\ template'[from][m] = NoTemplate /\ from \notin ToSet(rows'[m])
       /\ \A t \in Tracks : provenance'[from][m][t] = 0
       /\ template[from][m].n > 0 => template'[into][m].n > 0
  /\ \A s \in Subjects, m \in Modalities : s # from =>
       /\ template[s][m].n > 0 => template'[s][m].n > 0
       /\ s # into \/ template'[s][m].n = 0 => template'[s][m] = template[s][m]

LEMMA MergeWrites ==
  ASSUME TablesInv, UNCHANGED copies, NEW r, r.from \in Subjects, r.into \in Subjects,
         MayMerge(r.from, r.into), Merge(r)
  PROVE  MergeWritten(r.from, r.into)
  <1> DEFINE from == r.from
             into == r.into
             had == {k \in Modalities : template[from][k].n > 0}
  <1>1. TableTypes /\ RowsInv /\ TemplatesInv /\ SourcesInv
    BY DEF TablesInv
  <1>2. from \in Subjects /\ into \in Subjects /\ from # into /\ subjects[into].known
    BY DEF MayMerge
  <1>3. /\ subjects' = [subjects EXCEPT ![from].active = FALSE]
        /\ template' = [template EXCEPT
             ![into] = [m \in Modalities |-> Merged(@[m], template[from][m])],
             ![from] = [m \in Modalities |-> NoTemplate]]
        /\ rows' = [m \in Modalities |-> Without(from, AddRows(into, had)[m])]
        /\ provenance' = [provenance EXCEPT
             ![into] = [m \in Modalities |-> [t \in Tracks |->
                 IF @[m][t] = 0 THEN provenance[from][m][t] ELSE @[m][t]]],
             ![from] = [m \in Modalities |-> [t \in Tracks |-> 0]]]
    BY DEF Merge
  <1> HIDE DEF from, into
  <1>4. \A m \in Modalities :
          /\ template'[into][m] = Merged(template[into][m], template[from][m])
          /\ provenance'[into][m] = [t \in Tracks |-> IF provenance[into][m][t] = 0
                                                      THEN provenance[from][m][t]
                                                      ELSE provenance[into][m][t]]
    BY <1>1, <1>2, <1>3 DEF TableTypes
  <1>5. \A m \in Modalities :
          template'[from][m] = NoTemplate /\ provenance'[from][m] = [t \in Tracks |-> 0]
    BY <1>1, <1>2, <1>3 DEF TableTypes
  <1>6. \A x \in Subjects, m \in Modalities : x # from /\ x # into =>
          template'[x][m] = template[x][m] /\ provenance'[x][m] = provenance[x][m]
    BY <1>1, <1>2, <1>3 DEF TableTypes
  <1>7. \A x \in Subjects : subjects'[x] = IF x = from THEN [subjects[x] EXCEPT !.active = FALSE] ELSE subjects[x]
    BY <1>1, <1>2, <1>3 DEF TableTypes
  <1>8. /\ subjects' \in [Subjects -> [known : BOOLEAN, active : BOOLEAN, kind : Kinds]]
        /\ \A x \in Subjects : /\ subjects'[x].known = subjects[x].known
                               /\ subjects'[x].kind = subjects[x].kind
        /\ subjects'[from].active = FALSE
    <2>1. \A x \in Subjects : subjects[x] \in [known : BOOLEAN, active : BOOLEAN, kind : Kinds]
      BY <1>1 DEF TableTypes
    <2>2. \A x \in Subjects : subjects'[x] \in [known : BOOLEAN, active : BOOLEAN, kind : Kinds]
      BY <1>7, <2>1
    <2>3. subjects' \in [Subjects -> [known : BOOLEAN, active : BOOLEAN, kind : Kinds]]
      BY <1>1, <1>3, <2>2 DEF TableTypes
    <2>4. QED
      BY <1>2, <1>7, <2>1, <2>3
  <1>9. \A x \in Subjects, m \in Modalities :
          /\ template[x][m] \in TemplateRows /\ NoMatch(template[x][m]) /\ template[x][m].n \in Nat
          /\ provenance[x][m] \in [Tracks -> Nat]
    BY <1>1 DEF TableTypes, TemplatesInv, NoMatch, TemplateRows
  <1>10. \A m \in Modalities :
           /\ Merged(template[into][m], template[from][m]) \in TemplateRows
           /\ NoMatch(Merged(template[into][m], template[from][m]))
           /\ Merged(template[into][m], template[from][m]).n = template[into][m].n + template[from][m].n
    BY <1>2, <1>9, MergedCounts
  <1>11. NoTemplate \in TemplateRows /\ NoMatch(NoTemplate) /\ NoTemplate.n = 0
    BY DEF NoTemplate, TemplateRows, Nowhere, Vectors, NoMatch
  <1>12. \A x \in Subjects, m \in Modalities : x = from \/ x = into \/ (x # from /\ x # into)
    OBVIOUS
  <1>13. ASSUME NEW x \in Subjects, NEW m \in Modalities
         PROVE  /\ template'[x][m] \in TemplateRows /\ NoMatch(template'[x][m])
                /\ provenance'[x][m] \in [Tracks -> Nat]
    <2>1. CASE x = from
      BY <1>5, <1>11, <2>1
    <2>2. CASE x = into
      <3>1. template'[x][m] \in TemplateRows /\ NoMatch(template'[x][m])
        BY <1>4, <1>10, <2>2
      <3>2. [t \in Tracks |-> IF provenance[into][m][t] = 0 THEN provenance[from][m][t]
                              ELSE provenance[into][m][t]] \in [Tracks -> Nat]
        BY <1>2, <1>9
      <3>3. QED
        BY <1>4, <2>2, <3>1, <3>2
    <2>3. CASE x # from /\ x # into
      BY <1>6, <1>9, <2>3
    <2>4. QED
      BY <2>1, <2>2, <2>3
  <1>14. /\ template' \in [Subjects -> [Modalities -> TemplateRows]]
         /\ provenance' \in [Subjects -> [Modalities -> [Tracks -> Nat]]]
    <2>1. \A x \in Subjects : template[x] \in [Modalities -> TemplateRows]
      BY <1>1 DEF TableTypes
    <2>2. [m \in Modalities |-> Merged(template[into][m], template[from][m])] \in [Modalities -> TemplateRows]
      BY <1>10
    <2>3. [m \in Modalities |-> NoTemplate] \in [Modalities -> TemplateRows]
      BY <1>11
    <2>4. template' \in [Subjects -> [Modalities -> TemplateRows]]
      BY <1>1, <1>2, <1>3, <2>2, <2>3 DEF TableTypes
    <2>5. [m \in Modalities |-> [t \in Tracks |->
             IF provenance[into][m][t] = 0 THEN provenance[from][m][t] ELSE provenance[into][m][t]]]
            \in [Modalities -> [Tracks -> Nat]]
      BY <1>2, <1>9
    <2>6. [m \in Modalities |-> [t \in Tracks |-> 0]] \in [Modalities -> [Tracks -> Nat]]
      OBVIOUS
    <2>7. provenance' \in [Subjects -> [Modalities -> [Tracks -> Nat]]]
      BY <1>1, <1>2, <1>3, <2>5, <2>6 DEF TableTypes
    <2>8. QED
      BY <2>4, <2>7
  <1>15. \A m \in Modalities :
           /\ template'[into][m].n = template[into][m].n + template[from][m].n
           /\ template'[from][m].n = 0
           /\ template[into][m].n > 0 => template'[into][m].n > 0
           /\ template[from][m].n > 0 => template'[into][m].n > 0
           /\ template'[into][m].n > 0 => template[into][m].n > 0 \/ template[from][m].n > 0
    <2> SUFFICES ASSUME NEW m \in Modalities
                 PROVE  /\ template'[into][m].n = template[into][m].n + template[from][m].n
                        /\ template'[from][m].n = 0
                        /\ template[into][m].n > 0 => template'[into][m].n > 0
                        /\ template[from][m].n > 0 => template'[into][m].n > 0
                        /\ template'[into][m].n > 0 => template[into][m].n > 0 \/ template[from][m].n > 0
      OBVIOUS
    <2>1. template'[into][m].n = template[into][m].n + template[from][m].n
      BY <1>4, <1>10
    <2>2. template'[from][m].n = 0
      BY <1>5, <1>11
    <2>3. template[into][m].n \in Nat /\ template[from][m].n \in Nat
      BY <1>2, <1>9
    <2>4. QED
      BY <2>1, <2>2, <2>3
  <1>16. ASSUME NEW m \in Modalities
         PROVE  /\ rows'[m] \in Seq(Subjects) /\ IsInjective(rows'[m])
                /\ \A x \in Subjects : (x \in ToSet(rows'[m])) = (template'[x][m].n > 0)
    <2> DEFINE q == AddRows(into, had)[m]
    <2>1. /\ rows[m] \in Seq(Subjects) /\ IsInjective(rows[m])
          /\ \A x \in Subjects : (x \in ToSet(rows[m])) = (template[x][m].n > 0)
      BY <1>1 DEF TableTypes, RowsInv
    <2>2. q = IF m \in had /\ template[into][m].n = 0 THEN Append(rows[m], into) ELSE rows[m]
      BY DEF AddRows
    <2>3. rows'[m] = Without(from, q)
      BY <1>3
    <2>4. m \in had <=> template[from][m].n > 0
      OBVIOUS
    <2> HIDE DEF q, had
    <2>5. /\ q \in Seq(Subjects) /\ IsInjective(q)
          /\ ToSet(q) = ToSet(rows[m]) \cup (IF m \in had THEN {into} ELSE {})
      <3>1. template[into][m].n \in Nat
        BY <1>2, <1>9
      <3>2. CASE m \in had /\ template[into][m].n = 0
        <4>1. into \notin ToSet(rows[m])
          BY <1>2, <2>1, <3>2
        <4>2. QED
          BY <1>2, <2>1, <2>2, <3>2, <4>1, AppendedRow
      <3>3. CASE m \in had /\ template[into][m].n # 0
        <4>1. into \in ToSet(rows[m])
          BY <1>2, <2>1, <3>1, <3>3
        <4>2. QED
          BY <2>1, <2>2, <3>3, <4>1
      <3>4. CASE m \notin had
        BY <2>1, <2>2, <3>4
      <3>5. QED
        BY <3>2, <3>3, <3>4
    <2>6. /\ rows'[m] \in Seq(Subjects) /\ IsInjective(rows'[m])
          /\ ToSet(rows'[m]) = ToSet(q) \ {from}
      BY <2>3, <2>5, WithoutRow
    <2>7. ASSUME NEW x \in Subjects PROVE (x \in ToSet(rows'[m])) = (template'[x][m].n > 0)
      <3>1. CASE x = from
        BY <1>15, <2>6, <3>1
      <3>2. CASE x = into
        <4>1. x \in ToSet(rows'[m]) <=> x \in ToSet(rows[m]) \/ m \in had
          BY <1>2, <2>5, <2>6, <3>2
        <4>2. x \in ToSet(rows'[m]) <=> template[into][m].n > 0 \/ template[from][m].n > 0
          BY <1>2, <2>1, <2>4, <3>2, <4>1
        <4>3. QED
          BY <1>15, <3>2, <4>2
      <3>3. CASE x # from /\ x # into
        <4>1. x \in ToSet(rows'[m]) <=> x \in ToSet(rows[m])
          BY <2>5, <2>6, <3>3
        <4>2. QED
          BY <1>6, <2>1, <3>3, <4>1
      <3>4. QED
        BY <3>1, <3>2, <3>3
    <2>8. QED
      BY <2>6, <2>7
  <1>17. rows' \in [Modalities -> Seq(Subjects)] /\ RowsInv'
    <2>1. rows' = [m \in Modalities |-> rows'[m]]
      BY <1>3
    <2>2. QED
      BY <1>16, <2>1 DEF RowsInv
  <1>18. TemplatesInv'
    <2> SUFFICES ASSUME NEW x \in Subjects, NEW m \in Modalities
                 PROVE  /\ (template'[x][m].n = 0) = (template'[x][m].dir = Nowhere)
                        /\ template'[x][m].n > 0 => subjects'[x].known
      BY DEF TemplatesInv
    <2>1. (template'[x][m].n = 0) = (template'[x][m].dir = Nowhere)
      BY <1>13 DEF NoMatch
    <2>2. template'[x][m].n > 0 => subjects[x].known
      <3>1. CASE x = from
        BY <1>15, <3>1
      <3>2. CASE x = into
        BY <1>2, <3>2
      <3>3. CASE x # from /\ x # into
        BY <1>1, <1>6, <3>3 DEF TemplatesInv
      <3>4. QED
        BY <3>1, <3>2, <3>3
    <2>3. QED
      BY <1>8, <2>1, <2>2
  <1>19. SourcesInv'
    <2> SUFFICES ASSUME NEW x \in Subjects, NEW m \in Modalities
                 PROVE  /\ (template'[x][m].n > 0) <=> (\E y \in Tracks : provenance'[x][m][y] > 0)
                        /\ \A y \in Tracks : provenance'[x][m][y] <= Frames(y, m)'
                        /\ template'[x][m].n >= Sum(provenance'[x][m])
      BY DEF SourcesInv
    <2>1. \A z \in Subjects :
            /\ (template[z][m].n > 0) <=> (\E y \in Tracks : provenance[z][m][y] > 0)
            /\ \A y \in Tracks : provenance[z][m][y] <= Frames(y, m)
            /\ template[z][m].n >= Sum(provenance[z][m])
      BY <1>1 DEF SourcesInv
    <2>2. \A y \in Tracks : Frames(y, m)' = Frames(y, m) /\ Frames(y, m) \in Nat
      <3>1. \A y \in Tracks : Frames(y, m) \in Nat
        BY <1>1, FramesAreCounted DEF TableTypes
      <3>2. QED
        BY <3>1 DEF Frames
    <2>3. CASE x = from
      <3> DEFINE z == [t \in Tracks |-> 0]
      <3>1. provenance'[x][m] = z /\ template'[x][m].n = 0
        BY <1>5, <1>15, <2>3
      <3>2. Sum(z) = 0
        <4>1. Units(z) = {}
          BY DEF Units
        <4>2. QED
          BY <4>1, FS_EmptySet DEF Sum
      <3>3. \A y \in Tracks : provenance'[x][m][y] = 0
        BY <3>1
      <3> HIDE DEF z
      <3>4. QED
        <4>1. (template'[x][m].n > 0) <=> (\E y \in Tracks : provenance'[x][m][y] > 0)
          <5>1. ~ (template'[x][m].n > 0)
            BY <3>1
          <5>2. ~ (\E y \in Tracks : provenance'[x][m][y] > 0)
            BY <3>3
          <5>3. QED
            BY <5>1, <5>2
        <4>2. template'[x][m].n >= Sum(provenance'[x][m])
          BY <3>1, <3>2
        <4>3. \A y \in Tracks : provenance'[x][m][y] <= Frames(y, m)'
          BY <2>2, <3>3
        <4>4. QED
          BY <4>1, <4>2, <4>3
    <2>4. CASE x = into
      <3> DEFINE v == provenance[into][m]
                 w == provenance[from][m]
                 u == [t \in Tracks |-> IF v[t] = 0 THEN w[t] ELSE v[t]]
      <3>1. v \in [Tracks -> Nat] /\ w \in [Tracks -> Nat] /\ u \in [Tracks -> Nat]
        BY <1>2, <1>9
      <3>2. provenance'[x][m] = u
        BY <1>4, <2>4
      <3>3. \A y \in Tracks : u[y] = IF v[y] = 0 THEN w[y] ELSE v[y]
        OBVIOUS
      <3>4. Sum(u) <= Sum(v) + Sum(w)
        BY <3>1, SourcesMerged
      <3>5. /\ (template[into][m].n > 0) <=> (\E y \in Tracks : v[y] > 0)
            /\ (template[from][m].n > 0) <=> (\E y \in Tracks : w[y] > 0)
            /\ \A y \in Tracks : v[y] <= Frames(y, m) /\ w[y] <= Frames(y, m)
            /\ template[into][m].n >= Sum(v) /\ template[from][m].n >= Sum(w)
        BY <1>2, <2>1
      <3> HIDE DEF v, w, u
      <3>6. Sum(v) \in Nat /\ Sum(w) \in Nat /\ Sum(u) \in Nat
        BY <3>1, UnitsAreFinite, IdentityAssumption
      <3>7. template[into][m].n \in Nat /\ template[from][m].n \in Nat
        BY <1>2, <1>9
      <3>8. template'[x][m].n >= Sum(u)
        <4>1. template'[x][m].n = template[into][m].n + template[from][m].n
          BY <1>15, <2>4
        <4>2. QED
          BY <3>4, <3>5, <3>6, <3>7, <4>1
      <3>9. \A y \in Tracks : u[y] <= Frames(y, m)
        BY <3>3, <3>5
      <3>10. (template'[x][m].n > 0) <=> (\E y \in Tracks : u[y] > 0)
        <4>1. \A y \in Tracks : v[y] \in Nat /\ w[y] \in Nat
          BY <3>1
        <4>2. (\E y \in Tracks : u[y] > 0) <=> (\E y \in Tracks : v[y] > 0) \/ (\E y \in Tracks : w[y] > 0)
          BY <3>3, <4>1
        <4>3. template'[x][m].n > 0 <=> template[into][m].n > 0 \/ template[from][m].n > 0
          BY <1>15, <2>4
        <4>4. QED
          <5>1. (template[into][m].n > 0) <=> (\E y \in Tracks : v[y] > 0)
            BY <3>5
          <5>2. (template[from][m].n > 0) <=> (\E y \in Tracks : w[y] > 0)
            BY <3>5
          <5>3. (template'[x][m].n > 0) <=> (\E y \in Tracks : u[y] > 0)
            BY <4>2, <4>3, <5>1, <5>2
          <5>4. QED
            BY <5>3
      <3>11. QED
        BY <2>2, <3>2, <3>8, <3>9, <3>10
    <2>5. CASE x # from /\ x # into
      BY <1>6, <2>1, <2>2, <2>5
    <2>6. QED
      BY <2>3, <2>4, <2>5
  <1>20. TablesInv'
    <2>1. copies' \in [Events -> Nat]
      BY <1>1 DEF TableTypes
    <2>2. QED
      BY <1>8, <1>14, <1>17, <1>18, <1>19, <2>1 DEF TablesInv, TableTypes
  <1>21. \A m \in Modalities :
           /\ template'[from][m] = NoTemplate /\ from \notin ToSet(rows'[m])
           /\ \A t \in Tracks : provenance'[from][m][t] = 0
           /\ template[from][m].n > 0 => template'[into][m].n > 0
    <2> SUFFICES ASSUME NEW m \in Modalities
                 PROVE  /\ template'[from][m] = NoTemplate /\ from \notin ToSet(rows'[m])
                        /\ \A t \in Tracks : provenance'[from][m][t] = 0
                        /\ template[from][m].n > 0 => template'[into][m].n > 0
      OBVIOUS
    <2>1. from \notin ToSet(rows'[m])
      <3>1. template'[from][m].n = 0
        BY <1>15
      <3>2. QED
        BY <1>2, <1>16, <3>1
    <2>2. QED
      BY <1>5, <1>15, <2>1
  <1>22. ASSUME NEW x \in Subjects, NEW m \in Modalities, x # from
         PROVE  /\ template[x][m].n > 0 => template'[x][m].n > 0
                /\ x # into \/ template'[x][m].n = 0 => template'[x][m] = template[x][m]
    <2>1. CASE x = into
      <3>1. template[into][m].n > 0 => template'[into][m].n > 0
        BY <1>15
      <3>2. ASSUME template'[into][m].n = 0 PROVE template'[into][m] = template[into][m]
        <4>1. template[into][m].n = 0 /\ template[from][m].n = 0
          <5>1. template[into][m].n \in Nat /\ template[from][m].n \in Nat
            BY <1>2, <1>9
          <5>2. template'[into][m].n = template[into][m].n + template[from][m].n
            BY <1>15
          <5>3. QED
            BY <3>2, <5>1, <5>2
        <4>2. template'[into][m] = template[from][m]
          BY <1>4, <4>1 DEF Merged
        <4>3. /\ template[into][m] = [n |-> template[into][m].n, dir |-> template[into][m].dir]
              /\ template[from][m] = [n |-> template[from][m].n, dir |-> template[from][m].dir]
              /\ template[into][m].dir = Nowhere /\ template[from][m].dir = Nowhere
          BY <1>2, <1>9, <4>1 DEF TemplateRows, NoMatch
        <4>4. QED
          BY <4>1, <4>2, <4>3
      <3>3. QED
        BY <2>1, <3>1, <3>2
    <2>2. CASE x # into
      BY <1>6, <1>22, <2>2
    <2>3. QED
      BY <2>1, <2>2
  <1>23. QED
    BY <1>8, <1>20, <1>21, <1>22 DEF MergeWritten, from, into


----------------------------------------------------------------------------
(* Sweeps.                                                                 *)

\* Whom the templates name a track by.
Target(t, m) == Match(Corpus(m), LookOf[t], Percent[m])

SweepIsDone(tracks, prior) ==
  \A t \in Tracks, m \in Modalities :
    resolution[t][m] = IF t \in tracks /\ Frames(t, m) > 0
                       THEN Persist(prior[t][m], Target(t, m)) ELSE prior[t][m]

LEMMA MatchIsListed ==
  ASSUME NEW corpus, DOMAIN corpus \subseteq Nat, NEW look, NEW percent
  PROVE  \/ Match(corpus, look, percent) = Nil
         \/ \E i \in DOMAIN corpus : Match(corpus, look, percent) = corpus[i].subject
  <1> DEFINE nearest == {i \in DOMAIN corpus :
                           \A j \in DOMAIN corpus : ~Closer(corpus[j].dir, corpus[i].dir, look)}
             matching == {i \in nearest : Clears(corpus[i].dir, look, percent)}
  <1>1. CASE matching = {}
    BY <1>1 DEF Match
  <1>2. CASE matching # {}
    <2>1. matching \subseteq Nat /\ matching \subseteq DOMAIN corpus
      OBVIOUS
    <2>2. Match(corpus, look, percent) = corpus[Min(matching)].subject
      BY <1>2 DEF Match
    <2> HIDE DEF matching
    <2>3. \E x \in matching : \A y \in matching : x <= y
      BY <1>2, <2>1, LeastIsOne
    <2>4. Min(matching) \in matching
      BY <2>3 DEF Min
    <2>5. QED
      BY <2>1, <2>2, <2>4
  <1>3. QED
    BY <1>1, <1>2

LEMMA TargetIsNamed ==
  ASSUME TablesInv', NEW t \in Tracks, NEW m \in Modalities, Target(t, m)' # Nil
  PROVE  LET s == Target(t, m)' IN
         s \in Subjects /\ template'[s][m].n > 0 /\ subjects'[s].known
  <1> DEFINE corpus == Corpus(m)'
  <1>1. /\ rows'[m] \in Seq(Subjects)
        /\ \A x \in Subjects : (x \in ToSet(rows'[m])) = (template'[x][m].n > 0)
        /\ \A x \in Subjects : template'[x][m].n > 0 => subjects'[x].known
    BY DEF TablesInv, TableTypes, RowsInv, TemplatesInv
  <1>2. DOMAIN rows'[m] = 1..Len(rows'[m]) /\ Len(rows'[m]) \in Nat
    BY <1>1, LenProperties
  <1>3. /\ DOMAIN corpus \subseteq DOMAIN rows'[m]
        /\ \A i \in DOMAIN corpus : corpus[i].subject = rows'[m][i]
    BY DEF Corpus
  <1>4. Target(t, m)' = Match(corpus, LookOf[t], Percent[m])
    BY DEF Target
  <1> HIDE DEF corpus
  <1>5. DOMAIN corpus \subseteq Nat
    BY <1>2, <1>3
  <1>6. PICK i \in DOMAIN corpus : Target(t, m)' = corpus[i].subject
    BY <1>4, <1>5, MatchIsListed
  <1>7. Target(t, m)' = rows'[m][i] /\ i \in DOMAIN rows'[m]
    BY <1>3, <1>6
  <1>8. Target(t, m)' \in Subjects /\ Target(t, m)' \in ToSet(rows'[m])
    BY <1>1, <1>2, <1>7 DEF ToSet
  <1>9. QED
    BY <1>1, <1>8

LEMMA PersistedRow ==
  ASSUME NEW row \in ResolutionRows, NEW s \in Subjects \cup {Nil}
  PROVE  /\ Persist(row, s) \in ResolutionRows
         /\ Persist(row, s).subject = IF s = Nil THEN row.subject ELSE s
         /\ Persist(Persist(row, s), s) = Persist(row, s)
  BY DEF Persist, ResolutionRows

\* What a sweep leaves: rows with their evidence, which the next sweep would leave alone.
Swept(tracks, old) ==
  \A t \in Tracks, m \in Modalities :
    /\ resolution'[t][m] = IF t \in tracks /\ Frames(t, m) > 0
                           THEN Persist(old[t][m], Target(t, m)') ELSE old[t][m]
    /\ t \in tracks /\ Frames(t, m) > 0 => Persist(resolution'[t][m], Target(t, m)') = resolution'[t][m]

LEMMA SweepNames ==
  ASSUME NEW tracks, NEW old \in Resolutions, Sweep(tracks, old), TablesInv', UNCHANGED copies,
         \A t \in Tracks, m \in Modalities :
           LET s == old[t][m].subject IN
           s # Nil => template'[s][m].n > 0 /\ Frames(t, m) > 0 /\ subjects'[s].known
  PROVE  NamesInv' /\ Swept(tracks, old)
  <1>1. resolution' = [t \in Tracks |-> [m \in Modalities |->
            IF t \in tracks /\ Frames(t, m) > 0
            THEN Persist(old[t][m], Target(t, m)') ELSE old[t][m]]]
    BY DEF Sweep, Target
  <1>2. \A t \in Tracks, m \in Modalities :
          resolution'[t][m] = IF t \in tracks /\ Frames(t, m) > 0
                              THEN Persist(old[t][m], Target(t, m)') ELSE old[t][m]
    BY <1>1
  <1>3. ASSUME NEW t \in Tracks, NEW m \in Modalities
        PROVE  /\ resolution'[t][m] \in ResolutionRows
               /\ Evidence(resolution[t][m], t, m)'
               /\ t \in tracks /\ Frames(t, m) > 0
                    => Persist(resolution'[t][m], Target(t, m)') = resolution'[t][m]
    <2> DEFINE s == Target(t, m)'
               row == old[t][m]
    <2>1. row \in ResolutionRows
      BY DEF Resolutions
    <2>2. s # Nil => s \in Subjects /\ template'[s][m].n > 0 /\ subjects'[s].known
      BY TargetIsNamed
    <2>3. s \in Subjects \cup {Nil}
      BY <2>2
    <2>4. /\ Persist(row, s) \in ResolutionRows
          /\ Persist(row, s).subject = IF s = Nil THEN row.subject ELSE s
          /\ Persist(Persist(row, s), s) = Persist(row, s)
      BY <2>1, <2>3, PersistedRow
    <2>5. row.subject # Nil => /\ template'[row.subject][m].n > 0
                               /\ Frames(t, m) > 0 /\ subjects'[row.subject].known
      OBVIOUS
    <2>6. Frames(t, m)' = Frames(t, m)
      BY DEF Frames
    <2> HIDE DEF s, row
    <2>7. CASE t \in tracks /\ Frames(t, m) > 0
      <3>1. resolution'[t][m] = Persist(row, s)
        BY <1>2, <2>7 DEF s, row
      <3>2. Evidence(resolution[t][m], t, m)'
        BY <2>2, <2>4, <2>5, <2>6, <2>7, <3>1 DEF Evidence
      <3>3. QED
        BY <2>4, <3>1, <3>2 DEF s
    <2>8. CASE ~(t \in tracks /\ Frames(t, m) > 0)
      <3>1. resolution'[t][m] = row
        BY <1>2, <2>8 DEF row
      <3>2. QED
        BY <2>1, <2>5, <2>6, <2>8, <3>1 DEF Evidence
    <2>9. QED
      BY <2>7, <2>8
  <1>4. resolution' \in Resolutions
    <2>1. resolution' = [t \in Tracks |-> [m \in Modalities |-> resolution'[t][m]]]
      BY <1>1
    <2>2. \A t \in Tracks, m \in Modalities : resolution'[t][m] \in ResolutionRows
      BY <1>3
    <2>3. QED
      BY <2>1, <2>2 DEF Resolutions
  <1>5. QED
    BY <1>2, <1>3, <1>4 DEF NamesInv, Swept

\* What has been swept is settled.
LEMMA SweptIsDone ==
  ASSUME NEW tracks, NEW old, Swept(tracks, old), UNCHANGED copies
  PROVE  SweepIsDone(tracks, resolution)'
  <1>1. \A m : \A t \in Tracks : Frames(t, m)' = Frames(t, m)
    BY DEF Frames
  <1>2. QED
    BY <1>1 DEF Swept, SweepIsDone

LEMMA SameTargets ==
  ASSUME UNCHANGED <<subjects, template, rows>>
  PROVE  \A t, m : Target(t, m)' = Target(t, m)
  BY DEF Target, Corpus

\* A sweep that is done changes nothing when it is repeated.
LEMMA SweepAgain ==
  ASSUME NEW tracks, NEW old, SweepIsDone(tracks, old), Sweep(tracks, old), resolution \in Resolutions,
         UNCHANGED <<subjects, template, rows, copies>>
  PROVE  UNCHANGED resolution
  <1>1. resolution' = [t \in Tracks |-> [m \in Modalities |->
            IF t \in tracks /\ Frames(t, m) > 0
            THEN Persist(old[t][m], Target(t, m)') ELSE old[t][m]]]
    BY DEF Sweep, Target
  <1>2. \A t, m : Target(t, m)' = Target(t, m)
    BY SameTargets
  <1>3. \A t \in Tracks, m \in Modalities : resolution'[t][m] = resolution[t][m]
    BY <1>1, <1>2 DEF SweepIsDone
  <1>4. /\ resolution = [t \in Tracks |-> [m \in Modalities |-> resolution[t][m]]]
        /\ resolution' = [t \in Tracks |-> [m \in Modalities |-> resolution'[t][m]]]
    BY <1>1 DEF Resolutions
  <1>5. QED
    BY <1>3, <1>4

----------------------------------------------------------------------------
(* The cache.                                                              *)

Held(s, m) == {Nowhere, template[s][m].dir, Pure(MemoryLook)}

LEMMA RefreshedIsCurrent ==
  ASSUME NEW s \in Subjects, NEW base \in [Subjects -> [Modalities -> Vectors]],
         cache' = Refreshed(base, s), TablesInv',
         \A x \in Subjects, m \in Modalities :
           x # s \/ template'[x][m].n = 0 => base[x][m] \in {Nowhere, template'[x][m].dir, Pure(MemoryLook)}
  PROVE  CachedInv'
  <1>1. \A x \in Subjects, m \in Modalities :
          /\ template'[x][m].dir \in Vectors
          /\ (template'[x][m].n = 0) = (template'[x][m].dir = Nowhere)
    BY DEF TablesInv, TableTypes, TemplatesInv, TemplateRows
  <1>2. cache' = [base EXCEPT ![s] = [m \in Modalities |->
                    IF template'[s][m].dir = Nowhere THEN base[s][m] ELSE template'[s][m].dir]]
    BY DEF Refreshed, Overlay, Templates
  <1>3. [m \in Modalities |-> IF template'[s][m].dir = Nowhere THEN base[s][m] ELSE template'[s][m].dir]
          \in [Modalities -> Vectors]
    BY <1>1
  <1>4. cache' \in [Subjects -> [Modalities -> Vectors]]
    BY <1>2, <1>3
  <1>5. ASSUME NEW x \in Subjects, NEW m \in Modalities
        PROVE  cache'[x][m] \in {Nowhere, template'[x][m].dir, Pure(MemoryLook)}
    <2>1. CASE x = s
      <3>1. cache'[x][m] = IF template'[s][m].dir = Nowhere THEN base[s][m] ELSE template'[s][m].dir
        BY <1>2, <2>1
      <3>2. template'[s][m].dir = Nowhere => base[s][m] \in {Nowhere, template'[s][m].dir, Pure(MemoryLook)}
        BY <1>1
      <3>3. QED
        BY <2>1, <3>1, <3>2
    <2>2. CASE x # s
      BY <1>2, <2>2
    <2>3. QED
      BY <2>1, <2>2
  <1>6. QED
    BY <1>4, <1>5 DEF CachedInv, LiveCacheIsCurrent

LEMMA CacheStays ==
  ASSUME CachedInv, UNCHANGED <<template, cache>>
  PROVE  CachedInv'
  BY DEF CachedInv, LiveCacheIsCurrent

LEMMA NamesStay ==
  ASSUME NamesInv, UNCHANGED <<resolution, copies>>,
         \A s \in Subjects : subjects[s].known => subjects'[s].known,
         \A s \in Subjects, m \in Modalities : template[s][m].n > 0 => template'[s][m].n > 0
  PROVE  NamesInv'
  <1>1. \A t \in Tracks, m \in Modalities : resolution[t][m].subject \in Subjects \cup {Nil}
    BY DEF NamesInv, Resolutions, ResolutionRows
  <1>2. \A t \in Tracks, m \in Modalities : Frames(t, m)' = Frames(t, m)
    BY DEF Frames
  <1>3. \A t \in Tracks, m \in Modalities : Evidence(resolution[t][m], t, m)'
    BY <1>1, <1>2 DEF NamesInv, Evidence
  <1>4. QED
    BY <1>3 DEF NamesInv

----------------------------------------------------------------------------
(* Requests, done once and done again.                                     *)

Unlabelled(t) == [resolution EXCEPT ![t] = [m \in Modalities |-> Unresolved]]

Emptied(s) ==
  /\ subjects[s].active = FALSE
  /\ \A m \in Modalities :
       /\ template[s][m] = NoTemplate /\ s \notin ToSet(rows[m])
       /\ \A t \in Tracks : provenance[s][m][t] = 0 /\ resolution[t][m].subject # s

\* The store is as the request would leave it.
LabelSettled(r) ==
  /\ subjects[r.subject] = [known |-> TRUE, active |-> TRUE, kind |-> r.kind]
  /\ \A m \in r.modalities : Frames(r.track, m) > 0 => provenance[r.subject][m][r.track] > 0
  /\ (\E m \in r.modalities : Frames(r.track, m) > 0) => SweepIsDone(Tracks, Unlabelled(r.track))
ResolveSettled(r) == SweepIsDone({t \in Tracks : EventOf[t] \in r.events}, resolution)
RejectSettled(r) == \A m \in Modalities : Refused(resolution[r.track][m]) = resolution[r.track][m]
MergeSettled(r) == MayMerge(r.from, r.into) => Emptied(r.from) /\ SweepIsDone(Tracks, resolution)

Settled(r) ==
  /\ r.op = "label" => LabelSettled(r)
  /\ r.op = "resolve" => ResolveSettled(r)
  /\ r.op = "reject" => RejectSettled(r)
  /\ r.op = "merge" => MergeSettled(r)

LEMMA Unlabelling ==
  ASSUME resolution \in Resolutions, NEW t \in Tracks
  PROVE  /\ Unlabelled(t) \in Resolutions
         /\ \A x \in Tracks, m \in Modalities :
              Unlabelled(t)[x][m] = IF x = t THEN Unresolved ELSE resolution[x][m]
  <1>1. Unresolved \in ResolutionRows
    BY DEF Unresolved, ResolutionRows
  <1>2. QED
    BY <1>1 DEF Unlabelled, Resolutions

LEMMA LabelHolds ==
  ASSUME StoreInv, UNCHANGED copies, NEW r \in Forms, r.op = "label", Label(r)
  PROVE  StoreInv' /\ LabelSettled(r)'
  <1> DEFINE s == r.subject
             t == r.track
             old == Unlabelled(t)
  <1>1. TablesInv /\ NamesInv /\ CachedInv
    BY DEF StoreInv
  <1>2. s \in Subjects /\ t \in Tracks /\ r.modalities \subseteq Modalities
    BY FormFields
  <1>3. LabelWritten(r)
    BY <1>1, LabelWrites
  <1>4. TablesInv'
    BY <1>3 DEF LabelWritten
  <1>5. /\ \A x \in Subjects : subjects[x].known => subjects'[x].known
        /\ \A x \in Subjects, m \in Modalities : template[x][m].n > 0 => template'[x][m].n > 0
    BY <1>3 DEF LabelWritten
  <1>6. \A m : Frames(t, m)' = Frames(t, m)
    BY DEF Frames
  <1>7. /\ (subjects[s] = [known |-> TRUE, active |-> TRUE, kind |-> r.kind])'
        /\ (\A m \in r.modalities : Frames(t, m) > 0 => provenance[s][m][t] > 0)'
    BY <1>3, <1>6 DEF LabelWritten
  <1>8. CASE {m \in r.modalities : Frames(t, m) > 0} = {}
    <2>1. UNCHANGED <<resolution, cache>>
      BY <1>8 DEF Label
    <2>2. template' = template
      BY <1>3, <1>8 DEF LabelWritten
    <2>3. NamesInv'
      BY <1>1, <1>5, <2>1, NamesStay
    <2>4. CachedInv'
      BY <1>1, <2>1, <2>2, CacheStays
    <2>5. (~ \E m \in r.modalities : Frames(t, m) > 0)'
      BY <1>6, <1>8
    <2>6. QED
      BY <1>4, <1>7, <2>3, <2>4, <2>5 DEF StoreInv, LabelSettled
  <1>9. CASE {m \in r.modalities : Frames(t, m) > 0} # {}
    <2>1. Sweep(Tracks, old) /\ cache' = Refreshed(cache, s)
      BY <1>9 DEF Label, Unlabelled
    <2>2. /\ old \in Resolutions
          /\ \A x \in Tracks, m \in Modalities :
               old[x][m] = IF x = t THEN Unresolved ELSE resolution[x][m]
      BY <1>1, <1>2, Unlabelling DEF NamesInv
    <2> HIDE DEF old
    <2>3. ASSUME NEW x \in Tracks, NEW m \in Modalities, old[x][m].subject # Nil
          PROVE  LET y == old[x][m].subject IN
                 template'[y][m].n > 0 /\ Frames(x, m) > 0 /\ subjects'[y].known
      <3>1. old[x][m] = resolution[x][m]
        BY <2>2, <2>3 DEF Unresolved
      <3>2. resolution[x][m].subject \in Subjects
        BY <2>3, <3>1, <1>1 DEF NamesInv, Resolutions, ResolutionRows
      <3>3. Evidence(resolution[x][m], x, m)
        BY <1>1 DEF NamesInv
      <3>4. QED
        BY <1>5, <2>3, <3>1, <3>2, <3>3 DEF Evidence
    <2>4. NamesInv' /\ Swept(Tracks, old)
      BY <1>4, <2>1, <2>2, <2>3, SweepNames
    <2>5. CachedInv'
      <3>1. cache \in [Subjects -> [Modalities -> Vectors]]
        BY <1>1 DEF CachedInv
      <3>2. \A x \in Subjects, m \in Modalities : cache[x][m] \in {Nowhere, template[x][m].dir, Pure(MemoryLook)}
        BY <1>1 DEF CachedInv, LiveCacheIsCurrent
      <3>3. \A x \in Subjects, m \in Modalities :
              x # s \/ template'[x][m].n = 0 => template'[x][m] = template[x][m]
        BY <1>3 DEF LabelWritten
      <3>4. \A x \in Subjects, m \in Modalities :
              x # s \/ template'[x][m].n = 0 => cache[x][m] \in {Nowhere, template'[x][m].dir, Pure(MemoryLook)}
        BY <3>2, <3>3
      <3>5. QED
        BY <1>2, <1>4, <2>1, <3>1, <3>4, RefreshedIsCurrent
    <2>6. SweepIsDone(Tracks, Unlabelled(t))'
      <3>1. ASSUME NEW x \in Tracks, NEW m \in Modalities
            PROVE  resolution'[x][m] = IF Frames(x, m)' > 0
                                       THEN Persist(Unlabelled(t)'[x][m], Target(x, m)')
                                       ELSE Unlabelled(t)'[x][m]
        <4>1. /\ resolution'[x][m] = IF Frames(x, m) > 0 THEN Persist(old[x][m], Target(x, m)') ELSE old[x][m]
              /\ Frames(x, m) > 0 => Persist(resolution'[x][m], Target(x, m)') = resolution'[x][m]
          BY <2>4 DEF Swept
        <4>2. Unlabelled(t)'[x][m] = IF x = t THEN Unresolved ELSE resolution'[x][m]
          <5>1. resolution' \in Resolutions
            BY <2>4 DEF NamesInv
          <5>2. QED
            BY <1>2, <5>1 DEF Unlabelled, Resolutions
        <4>3. Frames(x, m)' = Frames(x, m)
          BY DEF Frames
        <4>4. QED
          BY <2>2, <4>1, <4>2, <4>3
      <3>2. QED
        BY <3>1 DEF SweepIsDone
    <2>7. QED
      BY <1>4, <1>7, <2>4, <2>5, <2>6 DEF StoreInv, LabelSettled
  <1>10. QED
    BY <1>8, <1>9

LEMMA ResolveHolds ==
  ASSUME StoreInv, UNCHANGED copies, NEW r, Resolve(r)
  PROVE  StoreInv' /\ ResolveSettled(r)'
  <1> DEFINE tracks == {t \in Tracks : EventOf[t] \in r.events}
  <1>1. UNCHANGED <<subjects, template, rows, provenance, cache>> /\ Sweep(tracks, resolution)
    BY DEF Resolve
  <1>2. TablesInv /\ NamesInv /\ CachedInv
    BY DEF StoreInv
  <1>3. TablesInv'
    BY <1>1, <1>2 DEF TablesInv, TableTypes, RowsInv, TemplatesInv, SourcesInv, Frames
  <1> HIDE DEF tracks
  <1>4. resolution \in Resolutions /\ \A t \in Tracks, m \in Modalities : Evidence(resolution[t][m], t, m)
    BY <1>2 DEF NamesInv
  <1>5. \A t \in Tracks, m \in Modalities :
          LET s == resolution[t][m].subject IN
          s # Nil => template'[s][m].n > 0 /\ Frames(t, m) > 0 /\ subjects'[s].known
    BY <1>1, <1>4 DEF Evidence
  <1>6. NamesInv' /\ Swept(tracks, resolution)
    BY <1>1, <1>3, <1>4, <1>5, SweepNames
  <1>7. SweepIsDone(tracks, resolution)'
    BY <1>6, SweptIsDone
  <1>8. CachedInv'
    BY <1>1, <1>2, CacheStays
  <1>9. QED
    BY <1>3, <1>6, <1>7, <1>8 DEF StoreInv, ResolveSettled, tracks

LEMMA RefusedAgain ==
  ASSUME NEW row \in ResolutionRows
  PROVE  /\ Refused(row) \in ResolutionRows /\ Refused(row).subject = row.subject
         /\ Refused(Refused(row)) = Refused(row)
  <1>1. CASE row = Unresolved
    BY <1>1 DEF Refused, Unresolved, ResolutionRows
  <1>2. CASE row # Unresolved
    BY <1>2 DEF Refused, Unresolved, ResolutionRows
  <1>3. QED
    BY <1>1, <1>2

LEMMA RejectHolds ==
  ASSUME StoreInv, UNCHANGED copies, NEW r, r.track \in Tracks, Reject(r)
  PROVE  StoreInv' /\ RejectSettled(r)'
  <1>1. /\ UNCHANGED <<subjects, template, rows, provenance, cache>>
        /\ resolution' = [resolution EXCEPT ![r.track] = [m \in Modalities |-> Refused(@[m])]]
    BY DEF Reject, Refused
  <1>2. TablesInv /\ NamesInv /\ CachedInv
    BY DEF StoreInv
  <1>3. TablesInv'
    BY <1>1, <1>2 DEF TablesInv, TableTypes, RowsInv, TemplatesInv, SourcesInv, Frames
  <1>4. \A t \in Tracks, m \in Modalities : /\ resolution[t][m] \in ResolutionRows
                                             /\ Evidence(resolution[t][m], t, m)
    BY <1>2 DEF NamesInv, Resolutions
  <1>5. \A t \in Tracks, m \in Modalities :
          resolution'[t][m] = IF t = r.track THEN Refused(resolution[t][m]) ELSE resolution[t][m]
    BY <1>1, <1>2 DEF NamesInv, Resolutions
  <1>6. \A t \in Tracks, m \in Modalities : /\ Refused(resolution[t][m]) \in ResolutionRows
                                             /\ Refused(resolution[t][m]).subject = resolution[t][m].subject
                                             /\ Refused(Refused(resolution[t][m])) = Refused(resolution[t][m])
    BY <1>4, RefusedAgain
  <1>7. resolution' \in Resolutions
    <2>1. [m \in Modalities |-> Refused(resolution[r.track][m])] \in [Modalities -> ResolutionRows]
      BY <1>6
    <2>2. QED
      BY <1>1, <1>2, <2>1 DEF NamesInv, Resolutions
  <1>8. \A t \in Tracks, m \in Modalities :
          resolution'[t][m].subject = resolution[t][m].subject /\ Frames(t, m)' = Frames(t, m)
    BY <1>5, <1>6 DEF Frames
  <1>9. \A t \in Tracks, m \in Modalities : Evidence(resolution[t][m], t, m)'
    BY <1>1, <1>4, <1>8 DEF Evidence
  <1>10. RejectSettled(r)'
    BY <1>5, <1>6 DEF RejectSettled
  <1>11. CachedInv'
    BY <1>1, <1>2, CacheStays
  <1>12. QED
    BY <1>3, <1>7, <1>9, <1>10, <1>11 DEF StoreInv, NamesInv

LEMMA Repointing ==
  ASSUME resolution \in Resolutions, NEW from \in Subjects, NEW into \in Subjects, from # into
  PROVE  /\ Repointed(from, into) \in Resolutions
         /\ \A t \in Tracks, m \in Modalities :
              Repointed(from, into)[t][m].subject =
                IF resolution[t][m].subject = from THEN into ELSE resolution[t][m].subject
  <1>1. \A row \in ResolutionRows : /\ [row EXCEPT !.subject = into] \in ResolutionRows
                                     /\ [row EXCEPT !.subject = into].subject = into
    BY DEF ResolutionRows
  <1>2. \A t \in Tracks, m \in Modalities : resolution[t][m] \in ResolutionRows
    BY DEF Resolutions
  <1>3. \A t \in Tracks, m \in Modalities :
          Repointed(from, into)[t][m] = IF resolution[t][m].subject = from
                                        THEN [resolution[t][m] EXCEPT !.subject = into]
                                        ELSE resolution[t][m]
    BY DEF Repointed
  <1>4. \A t \in Tracks, m \in Modalities :
          /\ Repointed(from, into)[t][m] \in ResolutionRows
          /\ Repointed(from, into)[t][m].subject =
               IF resolution[t][m].subject = from THEN into ELSE resolution[t][m].subject
    <2> SUFFICES ASSUME NEW t \in Tracks, NEW m \in Modalities
                 PROVE  /\ Repointed(from, into)[t][m] \in ResolutionRows
                        /\ Repointed(from, into)[t][m].subject =
                             IF resolution[t][m].subject = from THEN into ELSE resolution[t][m].subject
      OBVIOUS
    <2>1. CASE resolution[t][m].subject = from
      <3>1. Repointed(from, into)[t][m] = [resolution[t][m] EXCEPT !.subject = into]
        BY <1>3, <2>1
      <3>2. /\ [resolution[t][m] EXCEPT !.subject = into] \in ResolutionRows
            /\ [resolution[t][m] EXCEPT !.subject = into].subject = into
        BY <1>1, <1>2
      <3>3. QED
        BY <2>1, <3>1, <3>2
    <2>2. CASE resolution[t][m].subject # from
      BY <1>2, <1>3, <2>2
    <2>3. QED
      BY <2>1, <2>2
  <1>5. Repointed(from, into) = [t \in Tracks |-> [m \in Modalities |-> Repointed(from, into)[t][m]]]
    BY DEF Repointed
  <1>6. QED
    BY <1>4, <1>5 DEF Resolutions

LEMMA MergeHolds ==
  ASSUME StoreInv, UNCHANGED copies, NEW r, r.from \in Subjects, r.into \in Subjects, Merge(r)
  PROVE  StoreInv' /\ MergeSettled(r)'
  <1> DEFINE from == r.from
             into == r.into
             old == Repointed(from, into)
             base == [cache EXCEPT ![from] = [m \in Modalities |-> Nowhere]]
  <1>1. TablesInv /\ NamesInv /\ CachedInv
    BY DEF StoreInv
  <1>2. CASE ~MayMerge(from, into)
    <2>1. UNCHANGED <<store, cache, copies>>
      BY <1>2 DEF Merge
    <2>2. UNCHANGED <<subjects, template, rows, provenance, resolution, cache, copies>>
      BY <2>1 DEF store
    <2>3. TablesInv'
      BY <1>1, <2>2 DEF TablesInv, TableTypes, RowsInv, TemplatesInv, SourcesInv, Frames
    <2>4. NamesInv'
      BY <1>1, <2>2, NamesStay
    <2>5. CachedInv'
      BY <1>1, <2>2, CacheStays
    <2>6. ~MayMerge(from, into)'
      BY <1>2, <2>2 DEF MayMerge
    <2>7. QED
      BY <2>3, <2>4, <2>5, <2>6 DEF StoreInv, MergeSettled
  <1>3. CASE MayMerge(from, into)
    <2>1. MergeWritten(from, into)
      BY <1>1, <1>3, MergeWrites
    <2>2. Sweep(Tracks, old) /\ cache' = Refreshed(base, into)
      BY <1>3 DEF Merge
    <2>3. from # into /\ from \in Subjects /\ into \in Subjects /\ subjects[into].known
      BY <1>3 DEF MayMerge
    <2>4. TablesInv'
      BY <2>1 DEF MergeWritten
    <2>5. /\ old \in Resolutions
          /\ \A t \in Tracks, m \in Modalities :
               old[t][m].subject = IF resolution[t][m].subject = from THEN into ELSE resolution[t][m].subject
      BY <1>1, <2>3, Repointing DEF NamesInv
    <2> HIDE DEF from, into, old
    <2>6. ASSUME NEW t \in Tracks, NEW m \in Modalities, old[t][m].subject # Nil
          PROVE  LET s == old[t][m].subject IN
                 template'[s][m].n > 0 /\ Frames(t, m) > 0 /\ subjects'[s].known
      <3> DEFINE x == resolution[t][m].subject
      <3>1. x # Nil
        BY <2>3, <2>5, <2>6, IdentityAssumption
      <3>2. x \in Subjects
        BY <3>1, <1>1 DEF NamesInv, Resolutions, ResolutionRows
      <3>3. template[x][m].n > 0 /\ Frames(t, m) > 0 /\ subjects[x].known
        BY <3>1, <1>1 DEF NamesInv, Evidence
      <3>4. old[t][m].subject = IF x = from THEN into ELSE x
        BY <2>5
      <3>5. \A s \in Subjects : subjects'[s].known = subjects[s].known
        BY <2>1 DEF MergeWritten
      <3>6. CASE x = from
        <4>1. template'[into][m].n > 0
          BY <2>1, <3>3, <3>6 DEF MergeWritten
        <4>2. QED
          BY <2>3, <3>3, <3>4, <3>5, <3>6, <4>1
      <3>7. CASE x # from
        <4>1. template'[x][m].n > 0
          BY <2>1, <3>2, <3>3, <3>7 DEF MergeWritten
        <4>2. QED
          BY <3>2, <3>3, <3>4, <3>5, <3>7, <4>1
      <3>8. QED
        BY <3>6, <3>7
    <2>7. NamesInv' /\ Swept(Tracks, old)
      BY <2>2, <2>4, <2>5, <2>6, SweepNames
    <2>8. SweepIsDone(Tracks, resolution)'
      BY <2>7, SweptIsDone
    <2>9. Emptied(from)'
      <3>1. /\ subjects'[from].active = FALSE
            /\ \A m \in Modalities : /\ template'[from][m] = NoTemplate /\ from \notin ToSet(rows'[m])
                                     /\ \A t \in Tracks : provenance'[from][m][t] = 0
        BY <2>1 DEF MergeWritten
      <3>2. \A t \in Tracks, m \in Modalities : resolution'[t][m].subject # from
        <4>1. from # Nil
          BY <2>3, IdentityAssumption
        <4>2. \A m \in Modalities : ~ (template'[from][m].n > 0)
          BY <3>1 DEF NoTemplate
        <4>3. QED
          BY <2>7, <4>1, <4>2 DEF NamesInv, Evidence
      <3>3. QED
        BY <3>1, <3>2 DEF Emptied
    <2>10. CachedInv'
      <3>1. base \in [Subjects -> [Modalities -> Vectors]]
        <4>1. Nowhere \in Vectors
          BY DEF Nowhere, Vectors
        <4>2. cache \in [Subjects -> [Modalities -> Vectors]]
          BY <1>1 DEF CachedInv
        <4>3. QED
          BY <4>1, <4>2
      <3>2. \A x \in Subjects, m \in Modalities : base[x][m] = IF x = from THEN Nowhere ELSE cache[x][m]
        BY <1>1 DEF CachedInv
      <3>3. \A x \in Subjects, m \in Modalities : cache[x][m] \in {Nowhere, template[x][m].dir, Pure(MemoryLook)}
        BY <1>1 DEF CachedInv, LiveCacheIsCurrent
      <3>4. \A x \in Subjects, m \in Modalities : x # from =>
              (x # into \/ template'[x][m].n = 0 => template'[x][m] = template[x][m])
        BY <2>1 DEF MergeWritten
      <3> HIDE DEF base
      <3>5. \A x \in Subjects, m \in Modalities :
              x # into \/ template'[x][m].n = 0 => base[x][m] \in {Nowhere, template'[x][m].dir, Pure(MemoryLook)}
        BY <3>2, <3>3, <3>4
      <3>6. QED
        BY <2>2, <2>3, <2>4, <3>1, <3>5, RefreshedIsCurrent
    <2>11. QED
      BY <2>4, <2>7, <2>8, <2>9, <2>10 DEF StoreInv, MergeSettled, from
  <1>4. QED
    BY <1>2, <1>3

LEMMA HandleHolds ==
  ASSUME StoreInv, UNCHANGED copies, NEW r \in Forms, Handle(r)
  PROVE  StoreInv' /\ Settled(r)'
  <1>1. CASE r.op = "label" /\ Label(r)
    <2>1. StoreInv' /\ LabelSettled(r)'
      BY <1>1, LabelHolds
    <2>2. QED
      BY <1>1, <2>1 DEF Settled
  <1>2. CASE r.op = "resolve" /\ Resolve(r)
    <2>1. StoreInv' /\ ResolveSettled(r)'
      BY <1>2, ResolveHolds
    <2>2. QED
      BY <1>2, <2>1 DEF Settled
  <1>3. CASE r.op = "reject" /\ Reject(r)
    <2>1. r.track \in Tracks
      BY <1>3, FormFields
    <2>2. StoreInv' /\ RejectSettled(r)'
      BY <1>3, <2>1, RejectHolds
    <2>3. QED
      BY <1>3, <2>2 DEF Settled
  <1>4. CASE r.op = "merge" /\ Merge(r)
    <2>1. r.from \in Subjects /\ r.into \in Subjects
      BY <1>4, FormFields
    <2>2. StoreInv' /\ MergeSettled(r)'
      BY <1>4, <2>1, MergeHolds
    <2>3. QED
      BY <1>4, <2>2 DEF Settled
  <1>5. QED
    BY <1>1, <1>2, <1>3, <1>4 DEF Handle

\* A request whose result stands already changes nothing.
LEMMA LabelAgain ==
  ASSUME StoreInv, UNCHANGED copies, NEW r \in Forms, r.op = "label", LabelSettled(r), Label(r)
  PROVE  UNCHANGED store
  <1> DEFINE s == r.subject
             t == r.track
             present == {m \in r.modalities : Frames(t, m) > 0}
             new == {m \in present : Enrols(s, t, m)}
  <1>1. TableTypes /\ resolution \in Resolutions
    BY DEF StoreInv, TablesInv, NamesInv
  <1>2. s \in Subjects /\ t \in Tracks /\ r.modalities \subseteq Modalities
    BY FormFields
  <1>3. new = {}
    BY DEF LabelSettled, Enrols
  <1>4. /\ subjects' = [subjects EXCEPT ![s] = [known |-> TRUE, active |-> TRUE, kind |-> r.kind]]
        /\ rows' = AddRows(s, new)
        /\ template' = [template EXCEPT ![s] = [m \in Modalities |->
                           IF m \in new THEN Strengthened(@[m], t, m) ELSE @[m]]]
        /\ provenance' = [provenance EXCEPT ![s] = [m \in Modalities |->
                           IF m \in new THEN [@[m] EXCEPT ![t] = Frames(t, m)] ELSE @[m]]]
    BY DEF Label
  <1>5. present # {} => Sweep(Tracks, Unlabelled(t))
    BY DEF Label, Unlabelled
  <1>6. present = {} => UNCHANGED resolution
    BY DEF Label
  <1>7. present # {} => SweepIsDone(Tracks, Unlabelled(t))
    BY DEF LabelSettled
  <1> HIDE DEF new, present
  <1>8. UNCHANGED <<subjects, rows, template, provenance>>
    <2>1. subjects' = subjects
      BY <1>1, <1>2, <1>4 DEF LabelSettled, TableTypes
    <2>2. rows' = rows
      BY <1>1, <1>3, <1>4 DEF AddRows, TableTypes
    <2>3. template' = template
      BY <1>1, <1>2, <1>3, <1>4 DEF TableTypes
    <2>4. provenance' = provenance
      BY <1>1, <1>2, <1>3, <1>4 DEF TableTypes
    <2>5. QED
      BY <2>1, <2>2, <2>3, <2>4
  <1>9. UNCHANGED resolution
    <2>1. ASSUME present # {} PROVE UNCHANGED resolution
      BY <1>1, <1>5, <1>7, <1>8, <2>1, SweepAgain
    <2>2. QED
      BY <1>6, <2>1
  <1>10. QED
    BY <1>8, <1>9 DEF store

LEMMA MergeAgain ==
  ASSUME StoreInv, UNCHANGED copies, NEW r, r.from \in Subjects, r.into \in Subjects,
         MergeSettled(r), Merge(r)
  PROVE  UNCHANGED store
  <1> DEFINE from == r.from
             into == r.into
             had == {k \in Modalities : template[from][k].n > 0}
  <1>1. /\ TableTypes /\ resolution \in Resolutions
        /\ \A m \in Modalities : (template[into][m].n = 0) = (template[into][m].dir = Nowhere)
    BY DEF StoreInv, TablesInv, TemplatesInv, NamesInv
  <1>2. CASE ~MayMerge(from, into)
    BY <1>2 DEF Merge
  <1>3. CASE MayMerge(from, into)
    <2>1. /\ subjects' = [subjects EXCEPT ![from].active = FALSE]
          /\ template' = [template EXCEPT
               ![into] = [m \in Modalities |-> Merged(@[m], template[from][m])],
               ![from] = [m \in Modalities |-> NoTemplate]]
          /\ rows' = [m \in Modalities |-> Without(from, AddRows(into, had)[m])]
          /\ provenance' = [provenance EXCEPT
               ![into] = [m \in Modalities |-> [t \in Tracks |->
                   IF @[m][t] = 0 THEN provenance[from][m][t] ELSE @[m][t]]],
               ![from] = [m \in Modalities |-> [t \in Tracks |-> 0]]]
          /\ Sweep(Tracks, Repointed(from, into))
      BY <1>3 DEF Merge
    <2>2. from \in Subjects /\ into \in Subjects /\ from # into
      BY <1>3 DEF MayMerge
    <2>3. Emptied(from) /\ SweepIsDone(Tracks, resolution)
      BY <1>3 DEF MergeSettled
    <2>4. had = {}
      BY <2>3 DEF Emptied, NoTemplate
    <2> HIDE DEF from, into, had
    <2>5. subjects' = subjects
      <3>1. subjects[from] \in [known : BOOLEAN, active : BOOLEAN, kind : Kinds] /\ subjects[from].active = FALSE
        BY <1>1, <2>2, <2>3 DEF Emptied, TableTypes
      <3>2. [subjects[from] EXCEPT !.active = FALSE] = subjects[from]
        BY <3>1
      <3>3. QED
        BY <1>1, <2>1, <2>2, <3>2 DEF TableTypes
    <2>6. rows' = rows
      <3>1. \A m \in Modalities : AddRows(into, had)[m] = rows[m]
        BY <2>4 DEF AddRows
      <3>2. \A m \in Modalities : Without(from, rows[m]) = rows[m]
        BY <2>3 DEF Emptied, Without
      <3>3. \A m \in Modalities : rows'[m] = rows[m]
        BY <2>1, <3>1, <3>2
      <3>4. QED
        BY <1>1, <2>1, <3>3 DEF TableTypes
    <2>7. template' = template
      <3>1. \A m \in Modalities : template[from][m] = NoTemplate
        BY <2>3 DEF Emptied
      <3>2. ASSUME NEW m \in Modalities PROVE Merged(template[into][m], template[from][m]) = template[into][m]
        <4>1. template[into][m] \in TemplateRows
          BY <1>1, <2>2 DEF TableTypes
        <4>2. CASE template[into][m].n = 0
          <5>1. template[into][m].dir = Nowhere
            BY <1>1, <4>2 DEF into
          <5>2. template[into][m] = NoTemplate
            BY <4>1, <4>2, <5>1 DEF NoTemplate, TemplateRows
          <5>3. QED
            BY <3>1, <4>2, <5>2 DEF Merged
        <4>3. CASE template[into][m].n # 0
          BY <3>1, <4>3 DEF Merged, NoTemplate
        <4>4. QED
          BY <4>2, <4>3
      <3>3. [m \in Modalities |-> Merged(template[into][m], template[from][m])] = template[into]
        BY <1>1, <2>2, <3>2 DEF TableTypes
      <3>4. [m \in Modalities |-> NoTemplate] = template[from]
        BY <1>1, <2>2, <3>1 DEF TableTypes
      <3>5. QED
        BY <1>1, <2>1, <2>2, <3>3, <3>4 DEF TableTypes
    <2>8. provenance' = provenance
      <3>1. \A m \in Modalities, t \in Tracks : provenance[from][m][t] = 0
        BY <2>3 DEF Emptied
      <3>2. \A x \in Subjects, m \in Modalities : provenance[x][m] \in [Tracks -> Nat]
        BY <1>1 DEF TableTypes
      <3>3. \A m \in Modalities : [t \in Tracks |-> IF provenance[into][m][t] = 0 THEN provenance[from][m][t]
                                                    ELSE provenance[into][m][t]] = provenance[into][m]
        BY <2>2, <3>1, <3>2
      <3>4. [m \in Modalities |-> [t \in Tracks |->
               IF provenance[into][m][t] = 0 THEN provenance[from][m][t] ELSE provenance[into][m][t]]] = provenance[into]
        BY <1>1, <2>2, <3>3 DEF TableTypes
      <3>5. \A m \in Modalities : [t \in Tracks |-> 0] = provenance[from][m]
        BY <2>2, <3>1, <3>2
      <3>6. [m \in Modalities |-> [t \in Tracks |-> 0]] = provenance[from]
        BY <1>1, <2>2, <3>5 DEF TableTypes
      <3>7. QED
        BY <1>1, <2>1, <2>2, <3>4, <3>6 DEF TableTypes
    <2>9. Repointed(from, into) = resolution
      <3>1. \A t \in Tracks, m \in Modalities : resolution[t][m].subject # from
        BY <2>3 DEF Emptied
      <3>2. \A t \in Tracks, m \in Modalities : Repointed(from, into)[t][m] = resolution[t][m]
        BY <3>1 DEF Repointed
      <3>3. /\ resolution = [t \in Tracks |-> [m \in Modalities |-> resolution[t][m]]]
            /\ Repointed(from, into) = [t \in Tracks |-> [m \in Modalities |-> Repointed(from, into)[t][m]]]
        BY <1>1 DEF Resolutions, Repointed
      <3>4. QED
        BY <3>2, <3>3
    <2>10. UNCHANGED resolution
      <3>1. Sweep(Tracks, resolution)
        BY <2>1, <2>9
      <3>2. UNCHANGED <<subjects, template, rows, copies>>
        BY <2>5, <2>6, <2>7
      <3>3. QED
        BY <1>1, <2>3, <3>1, <3>2, SweepAgain
    <2>11. QED
      BY <2>5, <2>6, <2>7, <2>8, <2>10 DEF store
  <1>4. QED
    BY <1>2, <1>3

LEMMA HandleAgain ==
  ASSUME StoreInv, UNCHANGED copies, NEW r \in Forms, Settled(r), Handle(r)
  PROVE  UNCHANGED store
  <1>1. CASE r.op = "label" /\ Label(r)
    BY <1>1, LabelAgain DEF Settled
  <1>2. CASE r.op = "resolve" /\ Resolve(r)
    <2> DEFINE tracks == {t \in Tracks : EventOf[t] \in r.events}
    <2>1. UNCHANGED <<subjects, template, rows, provenance>> /\ Sweep(tracks, resolution)
      BY <1>2 DEF Resolve
    <2>2. SweepIsDone(tracks, resolution) /\ resolution \in Resolutions
      BY <1>2 DEF Settled, ResolveSettled, StoreInv, NamesInv
    <2> HIDE DEF tracks
    <2>3. UNCHANGED resolution
      BY <2>1, <2>2, SweepAgain
    <2>4. QED
      BY <2>1, <2>3 DEF store
  <1>3. CASE r.op = "reject" /\ Reject(r)
    <2>1. r.track \in Tracks /\ resolution \in Resolutions
      BY <1>3, FormFields DEF StoreInv, NamesInv
    <2>2. /\ UNCHANGED <<subjects, template, rows, provenance>>
          /\ resolution' = [resolution EXCEPT ![r.track] = [m \in Modalities |-> Refused(@[m])]]
      BY <1>3 DEF Reject, Refused
    <2>3. \A m \in Modalities : Refused(resolution[r.track][m]) = resolution[r.track][m]
      BY <1>3 DEF Settled, RejectSettled
    <2>4. [m \in Modalities |-> Refused(resolution[r.track][m])] = resolution[r.track]
      BY <2>1, <2>3 DEF Resolutions
    <2>5. resolution' = resolution
      BY <2>1, <2>2, <2>4 DEF Resolutions
    <2>6. QED
      BY <2>2, <2>5 DEF store
  <1>4. CASE r.op = "merge" /\ Merge(r)
    <2>1. r.from \in Subjects /\ r.into \in Subjects
      BY <1>4, FormFields
    <2>2. QED
      BY <1>4, <2>1, MergeAgain DEF Settled
  <1>5. QED
    BY <1>1, <1>2, <1>3, <1>4 DEF Handle

----------------------------------------------------------------------------
(* The steps.                                                              *)

RetryInv ==
  /\ last \in {Nil} \cup [form : Forms, stale : BOOLEAN]
  /\ last # Nil /\ ~last.stale => Settled(last.form)

IdentityInv == StoreInv /\ RetryInv /\ requests \in Nat

\* What repeating a request does.
RepeatStep ==
  requests' = requests /\ last # Nil /\ last' = Nil /\ ~last.stale /\ news' = news => UNCHANGED store

LEMMA FaceStart ==
  ASSUME IdentityInit
  PROVE  IdentityInv
  <1> USE DEF IdentityInit
  <1>1. Nowhere \in Vectors /\ NoTemplate \in TemplateRows /\ NoTemplate.n = 0 /\ NoTemplate.dir = Nowhere
    BY DEF Nowhere, Vectors, NoTemplate, TemplateRows
  <1>2. Unresolved \in ResolutionRows /\ Unresolved.subject = Nil
    BY DEF Unresolved, ResolutionRows
  <1>3. TableTypes
    BY <1>1 DEF TableTypes, Kinds
  <1>4. RowsInv
    <2>1. ToSet(<<>>) = {} /\ IsInjective(<<>>)
      BY DEF ToSet, IsInjective
    <2>2. QED
      BY <1>1, <2>1 DEF RowsInv
  <1>5. TemplatesInv
    BY <1>1 DEF TemplatesInv
  <1>6. SourcesInv
    <2> SUFFICES ASSUME NEW s \in Subjects, NEW m \in Modalities
                 PROVE  /\ (template[s][m].n > 0) <=> (\E t \in Tracks : provenance[s][m][t] > 0)
                        /\ \A t \in Tracks : provenance[s][m][t] <= Frames(t, m)
                        /\ template[s][m].n >= Sum(provenance[s][m])
      BY DEF SourcesInv
    <2>1. provenance[s][m] = [t \in Tracks |-> 0] /\ template[s][m].n = 0
      BY <1>1
    <2>2. Units([t \in Tracks |-> 0]) = {}
      BY DEF Units
    <2>3. Sum(provenance[s][m]) = 0
      BY <2>1, <2>2, FS_EmptySet DEF Sum
    <2>4. \A t \in Tracks : Frames(t, m) \in Nat
      BY <1>3, FramesAreCounted DEF TableTypes
    <2>5. \A t \in Tracks : provenance[s][m][t] = 0
      BY <2>1
    <2>6. QED
      BY <2>1, <2>3, <2>4, <2>5
  <1>7. NamesInv
    BY <1>2 DEF NamesInv, Resolutions, Evidence
  <1>8. CachedInv
    BY <1>1 DEF CachedInv, LiveCacheIsCurrent
  <1>9. QED
    BY <1>3, <1>4, <1>5, <1>6, <1>7, <1>8 DEF IdentityInv, StoreInv, TablesInv, RetryInv

LEMMA SettledStays ==
  ASSUME NEW r, Settled(r), UNCHANGED <<store, copies>>
  PROVE  Settled(r)'
  BY DEF store, Settled, LabelSettled, ResolveSettled, RejectSettled, MergeSettled, Emptied,
         SweepIsDone, Unlabelled, Target, Corpus, Frames, MayMerge

LEMMA StoreStays ==
  ASSUME TablesInv, NamesInv, UNCHANGED <<store, copies>>
  PROVE  TablesInv' /\ NamesInv'
  <1>1. UNCHANGED <<subjects, template, rows, provenance, resolution, copies>>
    BY DEF store
  <1>2. TablesInv'
    BY <1>1 DEF TablesInv, TableTypes, RowsInv, TemplatesInv, SourcesInv, Frames
  <1>3. NamesInv'
    BY <1>1, NamesStay
  <1>4. QED
    BY <1>2, <1>3

\* Storing a track's embeddings once more takes no evidence away.
LEMMA EmbeddingsAdd ==
  ASSUME TablesInv, NamesInv, NEW e \in Events, copies' = [copies EXCEPT ![e] = @ + 1], UNCHANGED store
  PROVE  TablesInv' /\ NamesInv'
  <1>1. UNCHANGED <<subjects, template, rows, provenance, resolution>>
    BY DEF store
  <1>2. copies \in [Events -> Nat] /\ copies' \in [Events -> Nat]
    BY DEF TablesInv, TableTypes
  <1>3. ASSUME NEW t \in Tracks, NEW m \in Modalities
        PROVE  Frames(t, m) \in Nat /\ Frames(t, m)' \in Nat /\ Frames(t, m) <= Frames(t, m)'
    <2> DEFINE a == copies[EventOf[t]]
               b == copies'[EventOf[t]]
               c == FramesOf[t]
    <2>1. a \in Nat /\ b \in Nat /\ c \in Nat /\ a <= b
      <3>1. EventOf[t] \in Events /\ c \in Nat
        BY IdentityAssumption
      <3>2. b = IF EventOf[t] = e THEN a + 1 ELSE a
        BY <1>2, <3>1
      <3>3. a \in Nat
        BY <1>2, <3>1
      <3>4. QED
        BY <3>1, <3>2, <3>3
    <2>2. a * c \in Nat /\ b * c \in Nat /\ a * c <= b * c
      BY <2>1, Products
    <2>3. QED
      BY <2>2 DEF Frames
  <1>4. SourcesInv'
    <2> SUFFICES ASSUME NEW s \in Subjects, NEW m \in Modalities
                 PROVE  /\ (template'[s][m].n > 0) <=> (\E t \in Tracks : provenance'[s][m][t] > 0)
                        /\ \A t \in Tracks : provenance'[s][m][t] <= Frames(t, m)'
                        /\ template'[s][m].n >= Sum(provenance'[s][m])
      BY DEF SourcesInv
    <2>1. /\ (template[s][m].n > 0) <=> (\E t \in Tracks : provenance[s][m][t] > 0)
          /\ \A t \in Tracks : provenance[s][m][t] <= Frames(t, m)
          /\ template[s][m].n >= Sum(provenance[s][m])
      BY DEF TablesInv, SourcesInv
    <2>2. \A t \in Tracks : provenance[s][m][t] \in Nat
      BY DEF TablesInv, TableTypes
    <2>3. \A t \in Tracks : provenance[s][m][t] <= Frames(t, m)'
      <3> SUFFICES ASSUME NEW t \in Tracks PROVE provenance[s][m][t] <= Frames(t, m)'
        OBVIOUS
      <3>1. /\ provenance[s][m][t] <= Frames(t, m) /\ Frames(t, m) <= Frames(t, m)'
            /\ Frames(t, m) \in Nat /\ Frames(t, m)' \in Nat /\ provenance[s][m][t] \in Nat
        BY <1>3, <2>1, <2>2
      <3>2. QED
        BY <3>1
    <2>4. QED
      BY <1>1, <2>1, <2>3
  <1>5. TablesInv'
    BY <1>1, <1>2, <1>4 DEF TablesInv, TableTypes, RowsInv, TemplatesInv
  <1>6. \A t \in Tracks, m \in Modalities : Evidence(resolution[t][m], t, m)'
    <2> SUFFICES ASSUME NEW t \in Tracks, NEW m \in Modalities PROVE Evidence(resolution[t][m], t, m)'
      OBVIOUS
    <2>1. Evidence(resolution[t][m], t, m)
      BY DEF NamesInv
    <2>2. Frames(t, m) > 0 => Frames(t, m)' > 0
      BY <1>3
    <2>3. QED
      BY <1>1, <2>1, <2>2 DEF Evidence
  <1>7. QED
    BY <1>1, <1>5, <1>6 DEF NamesInv

LEMMA EveryFaceStep ==
  ASSUME IdentityInv, [IdentityNext]_identityVars
  PROVE  IdentityInv' /\ RepeatStep
  <1>1. TablesInv /\ NamesInv /\ CachedInv /\ RetryInv /\ requests \in Nat
    BY DEF IdentityInv, StoreInv
  <1>2. CASE Request
    <2>1. PICK r \in Forms : Handle(r) /\ last' = [form |-> r, stale |-> FALSE]
      BY <1>2 DEF Request
    <2>2. UNCHANGED copies /\ requests' = requests + 1
      BY <1>2 DEF Request, feed
    <2>3. StoreInv' /\ Settled(r)'
      BY <2>1, <2>2, HandleHolds DEF IdentityInv
    <2>4. last' \in [form : Forms, stale : BOOLEAN] /\ last'.form = r
      BY <2>1
    <2>5. RetryInv'
      BY <2>3, <2>4 DEF RetryInv
    <2>6. requests' # requests /\ requests' \in Nat
      BY <1>1, <2>2
    <2>7. QED
      BY <2>3, <2>5, <2>6 DEF IdentityInv, RepeatStep
  <1>3. CASE Retry
    <2>1. last # Nil /\ Handle(last.form) /\ last' = Nil /\ UNCHANGED <<copies, requests, news>>
      BY <1>3 DEF Retry, feed
    <2>2. last.form \in Forms
      BY <1>1, <2>1 DEF RetryInv
    <2>3. StoreInv'
      BY <2>1, <2>2, HandleHolds DEF IdentityInv
    <2>4. ~last.stale => UNCHANGED store
      BY <1>1, <2>1, <2>2, HandleAgain DEF IdentityInv, RetryInv
    <2>5. QED
      BY <1>1, <2>1, <2>3, <2>4 DEF IdentityInv, RetryInv, RepeatStep
  <1>4. ASSUME NEW e \in Events, StoreEmbeddings(e) PROVE IdentityInv' /\ RepeatStep
    <2>1. /\ copies' = [copies EXCEPT ![e] = @ + 1] /\ UNCHANGED <<store, cache, requests>>
          /\ last' = IF last = Nil THEN Nil ELSE [last EXCEPT !.stale = TRUE]
      BY <1>4 DEF StoreEmbeddings
    <2>2. TablesInv' /\ NamesInv'
      BY <1>1, <2>1, EmbeddingsAdd
    <2>3. CachedInv'
      BY <1>1, <2>1, CacheStays DEF store
    <2>4. RetryInv'
      BY <1>1, <2>1 DEF RetryInv
    <2>5. QED
      BY <1>1, <2>1, <2>2, <2>3, <2>4 DEF IdentityInv, StoreInv, RepeatStep
  <1>5. CASE /\ UNCHANGED <<store, copies, requests>>
             /\ last' = Nil \/ last' = last
             /\ cache' \in [Subjects -> [Modalities -> Vectors]]
             /\ \A s \in Subjects, m \in Modalities : cache'[s][m] \in {cache[s][m], Nowhere, Pure(MemoryLook)}
    <2>1. TablesInv' /\ NamesInv'
      BY <1>1, <1>5, StoreStays
    <2>2. template' = template
      BY <1>5 DEF store
    <2>3. CachedInv'
      BY <1>1, <1>5, <2>2 DEF CachedInv, LiveCacheIsCurrent
    <2>4. ASSUME last # Nil, ~last.stale, last' = last PROVE Settled(last.form)'
      <3>1. PICK r : r = last.form
        OBVIOUS
      <3>2. Settled(r)'
        BY <1>1, <1>5, <2>4, <3>1, SettledStays DEF RetryInv
      <3>3. last'.form = r
        BY <2>4, <3>1
      <3>4. QED
        BY <3>2, <3>3
    <2>5. RetryInv'
      BY <1>1, <1>5, <2>4 DEF RetryInv
    <2>6. QED
      BY <1>1, <1>5, <2>1, <2>3, <2>5 DEF IdentityInv, StoreInv, RepeatStep
  <1>6. cache \in [Subjects -> [Modalities -> Vectors]]
    BY <1>1 DEF CachedInv
  <1>7. Nowhere \in Vectors /\ Pure(MemoryLook) \in Vectors
    BY PureIsSomewhere, IdentityAssumption DEF Nowhere, Vectors
  <1>8. CASE MarkEnriched \/ WorkerCrash \/ UNCHANGED identityVars
    <2>1. UNCHANGED <<store, copies, requests, last, cache>>
      BY <1>8 DEF MarkEnriched, WorkerCrash, identityVars, feed
    <2>2. QED
      BY <1>5, <1>6, <2>1
  <1>9. ASSUME NEW s \in Subjects, NEW x \in Modalities, Enrolled(s, x) PROVE IdentityInv' /\ RepeatStep
    <2>1. /\ UNCHANGED <<store, copies, requests, last>>
          /\ cache' = [cache EXCEPT ![s] = Overlay(@,
                         [m \in Modalities |-> IF m = x THEN Pure(MemoryLook) ELSE Nowhere])]
      BY <1>9 DEF Enrolled, feed
    <2>2. cache' = [cache EXCEPT ![s] = [m \in Modalities |->
                      IF (IF m = x THEN Pure(MemoryLook) ELSE Nowhere) = Nowhere THEN cache[s][m]
                      ELSE IF m = x THEN Pure(MemoryLook) ELSE Nowhere]]
      BY <2>1 DEF Overlay
    <2>3. [m \in Modalities |->
             IF (IF m = x THEN Pure(MemoryLook) ELSE Nowhere) = Nowhere THEN cache[s][m]
             ELSE IF m = x THEN Pure(MemoryLook) ELSE Nowhere] \in [Modalities -> Vectors]
      BY <1>6, <1>7
    <2>4. cache' \in [Subjects -> [Modalities -> Vectors]]
      BY <1>6, <2>2, <2>3
    <2>5. \A y \in Subjects, m \in Modalities : cache'[y][m] \in {cache[y][m], Nowhere, Pure(MemoryLook)}
      BY <1>6, <2>2
    <2>6. QED
      BY <1>5, <2>1, <2>4, <2>5
  <1>10. ASSUME NEW s \in Subjects, Deactivated(s) PROVE IdentityInv' /\ RepeatStep
    <2>1. /\ UNCHANGED <<store, copies, requests, last>>
          /\ cache' = [cache EXCEPT ![s] = [m \in Modalities |-> Nowhere]]
      BY <1>10 DEF Deactivated, feed
    <2>2. cache' \in [Subjects -> [Modalities -> Vectors]]
      BY <1>6, <1>7, <2>1
    <2>3. \A y \in Subjects, m \in Modalities : cache'[y][m] \in {cache[y][m], Nowhere, Pure(MemoryLook)}
      BY <1>6, <2>1
    <2>4. QED
      BY <1>5, <2>1, <2>2, <2>3
  <1>11. CASE PreprocessorRestarts
    <2>1. /\ UNCHANGED <<store, copies, requests>> /\ last' = Nil
          /\ cache' = [s \in Subjects |-> [m \in Modalities |-> Nowhere]]
      BY <1>11 DEF PreprocessorRestarts, feed
    <2>2. cache' \in [Subjects -> [Modalities -> Vectors]]
      BY <1>7, <2>1
    <2>3. \A y \in Subjects, m \in Modalities : cache'[y][m] \in {cache[y][m], Nowhere, Pure(MemoryLook)}
      BY <2>1
    <2>4. QED
      BY <1>5, <2>1, <2>2, <2>3
  <1>12. QED
    BY <1>2, <1>3, <1>4, <1>8, <1>9, <1>10, <1>11 DEF IdentityNext

\* The rows of the store are of their types and founded on each other, whatever is
\* labelled, resolved, rejected, merged or repeated (identity_store.py, identity_api.py).
THEOREM IdentityInductive == IdentitySpec => []IdentityInv
  <1>1. IdentityInit => IdentityInv
    BY FaceStart
  <1>2. IdentityInv /\ [IdentityNext]_identityVars => IdentityInv'
    BY EveryFaceStep
  <1>3. QED
    BY <1>1, <1>2, PTL DEF IdentitySpec

\* A row that names a subject names one with a template, a template has a source that is
\* stored, and it counts no fewer frames than its sources contributed (enrol, merge).
THEOREM EveryNameIsFounded == IdentitySpec => []EveryNameHasEvidence
  <1>1. IdentityInv => EveryNameHasEvidence
    BY EvidenceOfNames DEF IdentityInv
  <1>2. QED
    BY <1>1, IdentityInductive, PTL

\* A cached vector is the store's of now or one the memory service sent (ActorCache).
THEOREM CacheFollowsStore == IdentitySpec => []LiveCacheIsCurrent
  <1>1. IdentityInv => LiveCacheIsCurrent
    BY DEF IdentityInv, StoreInv, CachedInv
  <1>2. QED
    BY <1>1, IdentityInductive, PTL

\* A request repeated because its answer was lost changes no row of the store
\* (_post_json and the routes /identity/*).
THEOREM RepeatsAreHarmless == IdentitySpec => RetriesChangeNothing
  <1>1. IdentityInv /\ [IdentityNext]_identityVars =>
          [requests' = requests /\ last # Nil /\ last' = Nil /\ ~last.stale /\ news' = news
             => UNCHANGED store]_identityVars
    BY EveryFaceStep DEF RepeatStep
  <1>2. QED
    BY <1>1, IdentityInductive, PTL DEF IdentitySpec, RetriesChangeNothing
=============================================================================
