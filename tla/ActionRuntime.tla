--------------------------- MODULE ActionRuntime ---------------------------
(***************************************************************************)
(* The ha-agent's two lanes of actions over Home Assistant: perception     *)
(* requests, transient, each with a task that reverts it after a while     *)
(* (PerceptionRuntime), and protective recommendations, persistent, gated  *)
(* by a whitelist and a redundancy count and logged (ProtectiveRuntime).   *)
(*                                                                         *)
(* Both run on one event loop; a call to Home Assistant is the only await  *)
(* besides the sleep of a revert.  A call is sent, served at some moment,  *)
(* and answered: calls in flight at the same time are served in any order, *)
(* and a call that fails may have been served or not.  Nothing constructs  *)
(* the runtime at this commit; callers are those of its tests.             *)
(***************************************************************************)
EXTENDS Integers, Sequences, FiniteSets, Functions

CONSTANTS
  Requests,    \* PerceptionRequests that are executed
  Key,         \* request -> coalesce_key
  On,          \* request -> what it turns its target to
  Recs,        \* ProtectiveRecommendations that are executed
  Incident,    \* recommendation -> incident id
  Action,      \* recommendation -> (camera, action class, service, target)
  Fit,         \* recommendations that meet severity, confidence and blackout
  Required,    \* action -> redundancy_required of its whitelist entry
  MaxEdits,    \* bound on the changes of the whitelists
  MaxRestarts, \* bound on the restarts
  NoRequest

Keys    == Range(Key)
Actions == Range(Action)

ASSUME ActionRuntimeAssumption ==
  /\ DOMAIN Key = Requests /\ On \in [Requests -> BOOLEAN]
  /\ DOMAIN Incident = Recs /\ DOMAIN Action = Recs
  /\ Fit \subseteq Recs /\ Required \in [Actions -> Nat] /\ MaxEdits \in Nat /\ MaxRestarts \in Nat
  /\ NoRequest \notin Requests

VARIABLES
  apply,      \* request -> where its execute() is
  revert,     \* request -> where its revert task is
  pending,    \* PerceptionRuntime._pending: coalesce key -> request
  lamp,       \* key -> what Home Assistant last turned its target to
  allowed,    \* coalesce keys and actions that are on a whitelist
  seen,       \* ProtectiveRuntime._redundancy: action -> incidents
  call,       \* recommendation -> where its execute() is
  log,        \* the table protective_actions_log
  edits, restarts

perception == <<apply, revert, pending, lamp>>
protective == <<seen, call, log>>
vars == <<perception, allowed, protective, edits, restarts>>

InFlight == {"sent", "served"}

TypeOK ==
  /\ apply \in [Requests -> {"new", "ok", "failed", "refused", "lost"} \cup InFlight]
  /\ revert \in [Requests -> {"none", "asleep", "abandoned", "over"} \cup InFlight]
  /\ pending \in [Keys -> Requests \cup {NoRequest}]
  /\ \A k \in Keys : pending[k] # NoRequest => Key[pending[k]] = k
  /\ lamp \in [Keys -> BOOLEAN]
  /\ allowed \subseteq Keys \cup Actions
  /\ seen \in [Actions -> SUBSET Range(Incident)]
  /\ call \in [Recs -> {"new", "sent", "over", "lost"}]
  /\ \A i \in DOMAIN log : log[i].rec \in Recs /\ log[i].status \in {"ok", "failed", "gated", "pending", "rejected"}

Init ==
  /\ apply = [r \in Requests |-> "new"]
  /\ revert = [r \in Requests |-> "none"]
  /\ pending = [k \in Keys |-> NoRequest]
  /\ lamp = [k \in Keys |-> FALSE]
  /\ allowed = Keys \cup Actions
  /\ seen = [a \in Actions |-> {}]
  /\ call = [c \in Recs |-> "new"]
  /\ log = <<>>
  /\ edits = 0 /\ restarts = 0

-----------------------------------------------------------------------------
(* The perception lane.                                                    *)

\* PerceptionRuntime.execute up to its await: what is not whitelisted is not called.
Execute(r) ==
  /\ apply[r] = "new"
  /\ apply' = [apply EXCEPT ![r] = IF Key[r] \in allowed THEN "sent" ELSE "refused"]
  /\ UNCHANGED <<revert, pending, lamp, allowed, protective, edits, restarts>>

\* Home Assistant does what the call says.
ServeApply(r) ==
  /\ apply[r] = "sent"
  /\ apply' = [apply EXCEPT ![r] = "served"]
  /\ lamp' = [lamp EXCEPT ![Key[r]] = On[r]]
  /\ UNCHANGED <<revert, pending, allowed, protective, edits, restarts>>

ApplyFails(r) ==
  /\ apply[r] \in InFlight
  /\ apply' = [apply EXCEPT ![r] = "failed"]
  /\ UNCHANGED <<revert, pending, lamp, allowed, protective, edits, restarts>>

\* Task.cancel(): a sleeping task ends; one that awaits its call abandons it, and
\* Home Assistant may still serve what was sent.
Cancelled(state) == IF state = "sent" THEN "abandoned" ELSE "over"

\* execute after its await: the revert that is pending for the same key gives way
\* to the new one.
Coalesce(r) ==
  /\ apply[r] = "served"
  /\ apply' = [apply EXCEPT ![r] = "ok"]
  /\ revert' = [q \in Requests |->
       IF q = r THEN "asleep" ELSE IF q = pending[Key[r]] THEN Cancelled(revert[q]) ELSE revert[q]]
  /\ pending' = [pending EXCEPT ![Key[r]] = r]
  /\ UNCHANGED <<lamp, allowed, protective, edits, restarts>>

\* _schedule_revert: the sleep is over and the inverse is called.
Wake(r) ==
  /\ revert[r] = "asleep"
  /\ revert' = [revert EXCEPT ![r] = "sent"]
  /\ UNCHANGED <<apply, pending, lamp, allowed, protective, edits, restarts>>

ServeRevert(r) ==
  /\ revert[r] \in {"sent", "abandoned"}
  /\ revert' = [revert EXCEPT ![r] = IF revert[r] = "sent" THEN "served" ELSE "over"]
  /\ lamp' = [lamp EXCEPT ![Key[r]] = ~On[r]]
  /\ UNCHANGED <<apply, pending, allowed, protective, edits, restarts>>

\* The finally block: the record goes only if it is still this request's.  Mutants:
\* whatever record there is; none, as the call has raised.
DropRecord(r) == [pending EXCEPT ![Key[r]] = NoRequest]
DropIfServed(r) ==
  IF pending[Key[r]] = r /\ revert[r] = "served" THEN [pending EXCEPT ![Key[r]] = NoRequest] ELSE pending

Cleanup(r) == IF pending[Key[r]] = r THEN [pending EXCEPT ![Key[r]] = NoRequest] ELSE pending

\* The revert's call is answered, or raises, or was abandoned.
RevertEnds(r) ==
  /\ revert[r] \in InFlight \cup {"abandoned"}
  /\ revert' = [revert EXCEPT ![r] = "over"]
  /\ pending' = Cleanup(r)
  /\ UNCHANGED <<apply, lamp, allowed, protective, edits, restarts>>

-----------------------------------------------------------------------------
(* The protective lane.                                                    *)

Row(c, status) == [rec |-> c, status |-> status]

\* gate_recommendation.
Gate(c) == IF Action[c] \notin allowed THEN "rejected" ELSE IF c \notin Fit THEN "gated" ELSE "ok"

\* Mutant: a recommendation counts whenever it is repeated.
EnoughRepeats(c) ==
  Cardinality({d \in Recs : Action[d] = Action[c] /\ call[d] # "new"}) + 1 >= Required[Action[c]]

\* The redundancy counter, with this incident in it.
Enough(c) == Cardinality(seen[Action[c]] \cup {Incident[c]}) >= Required[Action[c]]

\* ProtectiveRuntime.execute up to its await; what is refused is logged at once.
Recommend(c) ==
  /\ call[c] = "new"
  /\ seen' = IF Gate(c) = "ok" /\ Required[Action[c]] > 0
             THEN [seen EXCEPT ![Action[c]] = @ \cup {Incident[c]}] ELSE seen
  /\ IF Gate(c) = "ok" /\ Enough(c)
     THEN call' = [call EXCEPT ![c] = "sent"] /\ UNCHANGED log
     ELSE /\ call' = [call EXCEPT ![c] = "over"]
          /\ log' = Append(log, Row(c, IF Gate(c) = "ok" THEN "pending" ELSE Gate(c)))
  /\ UNCHANGED <<perception, allowed, edits, restarts>>

\* The answer of the call, or what it raises, is logged.
CallEnds(c) ==
  /\ call[c] = "sent"
  /\ call' = [call EXCEPT ![c] = "over"]
  /\ \E status \in {"ok", "failed"} : log' = Append(log, Row(c, status))
  /\ UNCHANGED <<perception, allowed, seen, edits, restarts>>

-----------------------------------------------------------------------------
(* The whitelists and the process.                                         *)

\* upsert_* and delete_* of the whitelists, on the camera's page.
EditWhitelist(x) ==
  /\ edits < MaxEdits
  /\ allowed' = IF x \in allowed THEN allowed \ {x} ELSE allowed \cup {x}
  /\ edits' = edits + 1
  /\ UNCHANGED <<perception, protective, restarts>>

\* The process ends and starts again: SQLite stays, tasks and counters do not.
Restart ==
  /\ restarts < MaxRestarts
  /\ apply' = [r \in Requests |-> IF apply[r] \in InFlight THEN "lost" ELSE apply[r]]
  /\ revert' = [r \in Requests |->
       IF revert[r] = "none" THEN "none" ELSE IF revert[r] = "sent" THEN "abandoned" ELSE "over"]
  /\ pending' = [k \in Keys |-> NoRequest]
  /\ seen' = [a \in Actions |-> {}]
  /\ call' = [c \in Recs |-> IF call[c] = "sent" THEN "lost" ELSE call[c]]
  /\ restarts' = restarts + 1
  /\ UNCHANGED <<lamp, allowed, log, edits>>

Reverting(r) == Wake(r) \/ RevertEnds(r)

Next ==
  \/ \E r \in Requests :
       Execute(r) \/ ServeApply(r) \/ ApplyFails(r) \/ Coalesce(r) \/ Reverting(r) \/ ServeRevert(r)
  \/ \E c \in Recs : Recommend(c) \/ CallEnds(c)
  \/ \E x \in Keys \cup Actions : EditWhitelist(x)
  \/ Restart

Spec == Init /\ [][Next]_vars

\* Sleeps end, and a call is answered or times out.
FairSpec == Spec /\ \A r \in Requests : WF_vars(Reverting(r))

-----------------------------------------------------------------------------
(* Properties.                                                             *)

\* A revert that is still to come is the one on record for its target, so the next
\* request can take it over: there are never two, in whatever phase of a revert
\* the requests for the target overlap.
RevertsAreOnRecord == \A r \in Requests : revert[r] = "asleep" => pending[Key[r]] = r

\* What is on record is going to be reverted, not a task that is over.
RecordsAreLive == \A k \in Keys : pending[k] # NoRequest => revert[pending[k]] \in {"asleep"} \cup InFlight

\* A transient change ends: no target keeps a pending revert, whatever fails.
RevertsDrain == \A k \in Keys : (pending[k] # NoRequest) ~> (pending[k] = NoRequest)

\* A persistent action is taken only on the recommendations of as many incidents
\* as its entry requires, however often one incident repeats its own and whichever
\* of several calls is answered first.
Passed == {c \in Recs : call[c] \in {"sent", "lost"}
             \/ \E i \in DOMAIN log : log[i].rec = c /\ log[i].status \in {"pending", "ok", "failed"}}

Executed == {c \in Passed : \A i \in DOMAIN log : log[i] # Row(c, "pending")}

IncidentsAgree ==
  \A c \in Executed :
    Cardinality({Incident[d] : d \in {d \in Passed : Action[d] = Action[c]}}) >= Required[Action[c]]

\* "a second request inside a still-pending revert just extends the timer": refuted,
\* the call of a revert that has begun can be served after the second request's.
WindowIsExtended ==
  \A r \in Requests : revert[r] = "asleep" /\ (\A q \in Requests : apply[q] # "sent" /\ On[q] = On[r])
    => lamp[Key[r]] = On[r]

\* "Every attempt is logged": refuted by a restart while the call is awaited.
EveryCallIsLogged == \A c \in Recs : call[c] \in {"over", "lost"} => \E i \in DOMAIN log : log[i].rec = c

\* "consecutive recommendations needed": refuted, the count is never started
\* again, so every recommendation after the first execution is executed at once.
EveryExecutionIsAgreedOn ==
  \A i, j \in DOMAIN log : i < j /\ log[i].status = "ok" /\ log[j].status = "ok"
    /\ Action[log[i].rec] = Action[log[j].rec] /\ Required[Action[log[i].rec]] > 1
    => \E m \in i..j : log[m].status = "pending"
=============================================================================
