----------------------------- MODULE VlmRouter -----------------------------
(***************************************************************************)
(* The VLM router: RoutingPolicy.decide computes a fallback chain from the *)
(* privacy tier, the capabilities and the circuit breakers; Router.invoke  *)
(* tries it, one backend after the other, and tells each breaker how the   *)
(* call went.  Callers invoke concurrently on one event loop, which gets   *)
(* to run something else only while a backend call is awaited.             *)
(***************************************************************************)
EXTENDS Naturals, FiniteSets, SequencesExt

CONSTANTS
  Callers,
  Requests,
  Backends,
  Cloud,         \* the backends whose location is not "local"
  LocalOnly,     \* the requests whose privacy_tier is local_only
  Accepts,       \* request -> backends with vision and room for its frames
  Preference,    \* request -> all backends, sorted by _score
  FailureThreshold,
  ResetTime,     \* breaker_reset_seconds
  MaxFallbackAttempts,
  MaxCancels     \* bound on the invokes that are cancelled

ASSUME VlmRouterAssumption ==
  /\ Cloud \subseteq Backends /\ LocalOnly \subseteq Requests
  /\ Accepts \in [Requests -> SUBSET Backends]
  /\ \A r \in Requests : Preference[r] \in Seq(Backends) /\ ToSet(Preference[r]) = Backends
  /\ FailureThreshold \in Nat \ {0} /\ ResetTime \in Nat \ {0}
  /\ MaxFallbackAttempts \in Nat \ {0}
  /\ MaxCancels \in Nat

VARIABLES
  up,        \* the backends that answer
  state,     \* CircuitBreaker._state
  failures,  \* _consecutive_failures, saturating at the threshold
  rest,      \* time until reset_seconds have passed since _opened_at
  call,      \* caller -> the invoke it awaits
  cancels    \* number of invokes cancelled

vars == <<up, state, failures, rest, call, cancels>>

NoCall == [request |-> "none"]
Call   == [request : Requests, chain : Seq(Backends), probe : BOOLEAN]

TypeOK ==
  /\ up \subseteq Backends
  /\ state \in [Backends -> {"closed", "open", "half_open"}]
  /\ failures \in [Backends -> 0..FailureThreshold]
  /\ rest \in [Backends -> 0..ResetTime]
  /\ \A k \in Callers :
       \/ call[k] = NoCall
       \/ /\ call[k].request \in Requests /\ call[k].probe \in BOOLEAN
          /\ call[k].chain \in Seq(Backends) /\ Len(call[k].chain) \in 1..MaxFallbackAttempts
  /\ cancels \in 0..MaxCancels

Init ==
  /\ up \in SUBSET Backends
  /\ state = [b \in Backends |-> "closed"]
  /\ failures = [b \in Backends |-> 0]
  /\ rest = [b \in Backends |-> 0]
  /\ call = [k \in Callers |-> NoCall]
  /\ cancels = 0

-----------------------------------------------------------------------------
(* CircuitBreaker.                                                         *)

\* Mutant: nothing leaves OPEN.
Frozen(b) == state[b]

\* The state property: OPEN turns into HALF_OPEN when it is looked at.
StateOf(b) == IF state[b] = "open" /\ rest[b] = 0 THEN "half_open" ELSE state[b]

\* Mutant: the failures are not forgotten.
CloseOnly(b) ==
  /\ state' = [state EXCEPT ![b] = "closed"]
  /\ UNCHANGED <<failures, rest>>

RecordSuccess(b) ==
  /\ state' = [state EXCEPT ![b] = "closed"]
  /\ failures' = [failures EXCEPT ![b] = 0]
  /\ rest' = [rest EXCEPT ![b] = IF state[b] = "closed" THEN @ ELSE 0]

RecordFailure(b) ==
  LET n == IF failures[b] < FailureThreshold THEN failures[b] + 1 ELSE failures[b]
      opens == state[b] = "half_open" \/ n = FailureThreshold
  IN
  /\ failures' = [failures EXCEPT ![b] = n]
  /\ state' = [state EXCEPT ![b] = IF opens THEN "open" ELSE @]
  /\ rest' = [rest EXCEPT ![b] = IF opens THEN ResetTime ELSE @]

-----------------------------------------------------------------------------
(* RoutingPolicy.decide.                                                   *)

PrivacyBars(r, b) == r \in LocalOnly /\ b \in Cloud

\* Mutant: the privacy tier is not looked at.
CapableOnly(r, b) == b \in Accepts[r]

\* The checks that come before the breaker's.
Legal(r, b) == ~ PrivacyBars(r, b) /\ b \in Accepts[r]

Chain(r) == SelectSeq(Preference[r], LAMBDA b : Legal(r, b) /\ StateOf(b) # "open")

\* Looking at the breakers of the legal backends may change their state.
Looked(r) == [b \in Backends |-> IF Legal(r, b) THEN StateOf(b) ELSE state[b]]

-----------------------------------------------------------------------------
(* Router.invoke.                                                          *)

\* invoke returns the answer, or raises.
Ends(k) == call' = [call EXCEPT ![k] = NoCall]

\* Await the first backend of a chain.
Awaits(k, r, chain, states) ==
  call' = [call EXCEPT ![k] =
             [request |-> r, chain |-> chain, probe |-> states[Head(chain)] = "half_open"]]

\* The backends that will be tried.
Attempts(chain) ==
  SubSeq(chain, 1, IF Len(chain) < MaxFallbackAttempts THEN Len(chain)
                                                       ELSE MaxFallbackAttempts)

Invoke(k, r) ==
  LET chain == Chain(r) IN
  /\ call[k] = NoCall
  /\ state' = Looked(r)
  /\ IF chain = <<>>
     THEN UNCHANGED call
     ELSE Awaits(k, r, Attempts(chain), state')
  /\ UNCHANGED <<up, failures, rest, cancels>>

Answered(k) ==
  /\ call[k] # NoCall
  /\ LET b == Head(call[k].chain) IN
       /\ b \in up
       /\ RecordSuccess(b)
  /\ Ends(k)
  /\ UNCHANGED <<up, cancels>>

\* Any exception counts as a failure; go on with the rest of the chain.
BackendFails(k) ==
  /\ call[k] # NoCall
  /\ LET b == Head(call[k].chain)
         others == Tail(call[k].chain)
     IN /\ b \notin up
        /\ RecordFailure(b)
        /\ IF others = <<>>
           THEN Ends(k)
           ELSE Awaits(k, call[k].request, others, state')
  /\ UNCHANGED <<up, cancels>>

\* The caller is cancelled while it awaits a backend: no breaker hears of it.
Cancelled(k) ==
  /\ call[k] # NoCall
  /\ cancels < MaxCancels
  /\ cancels' = cancels + 1
  /\ Ends(k)
  /\ UNCHANGED <<up, state, failures, rest>>

\* The operator's CircuitBreaker.reset().
Reset(b) ==
  /\ state[b] # "closed"
  /\ state' = [state EXCEPT ![b] = "closed"]
  /\ failures' = [failures EXCEPT ![b] = 0]
  /\ rest' = [rest EXCEPT ![b] = 0]
  /\ UNCHANGED <<up, call, cancels>>

-----------------------------------------------------------------------------
(* The world.                                                              *)

Toggle(b) ==
  /\ up' = IF b \in up THEN up \ {b} ELSE up \cup {b}
  /\ UNCHANGED <<state, failures, rest, call, cancels>>

Tick ==
  /\ \E b \in Backends : rest[b] > 0
  /\ rest' = [b \in Backends |-> IF rest[b] > 0 THEN rest[b] - 1 ELSE 0]
  /\ UNCHANGED <<up, state, failures, call, cancels>>

Next ==
  \/ \E k \in Callers, r \in Requests : Invoke(k, r)
  \/ \E k \in Callers : Answered(k) \/ BackendFails(k) \/ Cancelled(k)
  \/ \E b \in Backends : Reset(b) \/ Toggle(b)
  \/ Tick

Spec == Init /\ [][Next]_vars

\* Every backend call returns (its HTTP client has a timeout), time passes, and
\* callers keep asking.
FairSpec ==
  /\ Spec
  /\ WF_vars(Tick)
  /\ \A k \in Callers : /\ WF_vars(Answered(k) \/ BackendFails(k))
                        /\ WF_vars(\E r \in Requests : Invoke(k, r))

-----------------------------------------------------------------------------
(* Properties.                                                             *)

\* However late the results of overlapping calls come in, a breaker is closed
\* exactly when it has seen fewer than the threshold of consecutive failures.
ClosedBelowThreshold ==
  \A b \in Backends : (state[b] = "closed") <=> (failures[b] < FailureThreshold)

\* "local_only data must not route to cloud": nowhere in a fallback chain, for
\* no state of the breakers.
LocalOnlyStaysLocal ==
  \A k \in Callers :
    call[k] # NoCall /\ call[k].request \in LocalOnly
      => ToSet(call[k].chain) \cap Cloud = {}

\* A backend that every request prefers, and that is up for good, ends up with
\* its breaker closed for good: OPEN is left again.
FirstChoiceRecovers ==
  \A b \in Backends :
    (\A r \in Requests : Head(Preference[r]) = b /\ Legal(r, b)) =>
      (<>[](b \in up) => <>[](state[b] = "closed"))

\* Every invoke ends, with an answer or with an error.
EveryInvokeEnds ==
  \A k \in Callers : (call[k] # NoCall) ~> (call[k] = NoCall)

-----------------------------------------------------------------------------
(* Claims of the code's documentation that the model refutes.              *)

\* "HALF_OPEN: one probe request allowed."
OneProbe ==
  \A b \in Backends :
    Cardinality({k \in Callers : call[k] # NoCall /\ call[k].probe
                                 /\ Head(call[k].chain) = b}) <= 1

\* "OPEN: requests rejected immediately for reset_seconds": no call to a backend
\* begins while its breaker is open.
OpenRejects ==
  [][\A k \in Callers :
       call'[k] # call[k] /\ call'[k] # NoCall => state'[Head(call'[k].chain)] # "open"]_vars

=============================================================================
