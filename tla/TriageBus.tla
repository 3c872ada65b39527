----------------------------- MODULE TriageBus -----------------------------
(***************************************************************************)
(* The triage worker on the event bus.  JetStream keeps every event until  *)
(* its consumer settles it: an event that is not acknowledged is delivered *)
(* again, at most MaxDeliver times in all.  Bus.subscribe runs one consume *)
(* loop, which passes one event at a time to Triage.handle: drop it if its *)
(* signature was seen within the window, choose a tier, shed load, publish. *)
(* The dedup cache is memory of the triage process.                        *)
(*                                                                         *)
(* The consumer's filter is vlm.*, and vlm.urgent, vlm.normal and          *)
(* vlm.background are also what triage publishes to: what it forwards comes *)
(* back to it.  A message is <<event, copy>>; copy 0 is the adapter's.      *)
(***************************************************************************)
EXTENDS Naturals, FiniteSets, SequencesExt

CONSTANTS
  Events,
  Signature,    \* [Events -> signatures]: _signature
  Score,        \* [Events -> tiers]: score_event
  Invalid,      \* events that do not pass the schema
  Window,       \* dedup_window_seconds
  MaxEntries,   \* max_entries of the DedupCache
  MaxDeliver,   \* max_deliver of the consumer
  Failing,      \* which of "publish", "ack", "nak" and "term" may fail
  MaxCopies,    \* bound on what triage publishes to vlm.* for one event
  Overload,     \* the tiers whose queue may be full
  MaxTime,      \* bound on the clock
  MaxRestarts   \* bound on restarts of the triage process

DowngradeOrder == <<"vlm.urgent", "vlm.normal", "vlm.background">>
Tiers == {"sensor.bypass"} \cup ToSet(DowngradeOrder)
Sigs  == {Signature[e] : e \in Events}
Messages == Events \X (0..MaxCopies)

ASSUME TriageBusAssumption ==
  /\ Score \in [Events -> Tiers]
  /\ Invalid \subseteq Events
  /\ Window \in Nat /\ MaxCopies \in Nat /\ MaxTime \in Nat /\ MaxRestarts \in Nat
  /\ MaxEntries \in Nat \ {0} /\ MaxDeliver \in Nat \ {0}
  /\ Failing \subseteq {"publish", "ack", "nak", "term"} /\ Overload \subseteq ToSet(DowngradeOrder)

VARIABLES
  clock,
  stream,      \* message -> its state in the EVENTS stream for this consumer
  delivered,   \* message -> number of deliveries
  entries,     \* DedupCache._entries: <<signature, time>>, oldest first
  index,       \* DedupCache._index: the signatures
  full,        \* tiers whose observed depth has reached the threshold
  loop,        \* the consume loop: at which await, for which event and tier
  log,         \* history: what became of each handled message
  restarts     \* number of restarts of the triage process

vars == <<clock, stream, delivered, entries, index, full, loop, log, restarts>>

Loop ==
  [at : {"fetch", "dead"}] \cup [at : {"handle", "ack", "nak"}, msg : Messages]
  \cup [at : {"publish"}, msg : Messages, tier : Tiers, since : 0..MaxTime]

At(await, m) == [at |-> await, msg |-> m]
Idle == [at |-> "fetch"]

TypeOK ==
  /\ clock \in 0..MaxTime
  /\ stream \in [Messages -> {"unsent", "ready", "out", "acked", "terminated",
                              "exhausted"}]
  /\ delivered \in [Messages -> 0..MaxDeliver]
  /\ \A i \in 1..Len(entries) : entries[i] \in Sigs \X (0..MaxTime)
  /\ index \subseteq Sigs
  /\ full \subseteq Overload
  /\ loop \in Loop
  /\ log \subseteq [msg : Messages, what : Tiers \cup {"dropped", "suppressed", "failed"},
                    since : 0..MaxTime, life : 0..MaxRestarts]
  /\ restarts \in 0..MaxRestarts

Init ==
  /\ clock = 0
  /\ stream = [m \in Messages |-> "unsent"]
  /\ delivered = [m \in Messages |-> 0]
  /\ entries = <<>> /\ index = {}
  /\ full = {}
  /\ loop = Idle
  /\ log = {}
  /\ restarts = 0

-----------------------------------------------------------------------------
(* The world: adapters, queues and the clock.                              *)

Send(e) ==
  /\ stream[<<e, 0>>] = "unsent"
  /\ stream' = [stream EXCEPT ![<<e, 0>>] = "ready"]
  /\ UNCHANGED <<clock, delivered, entries, index, full, loop, log, restarts>>

\* backpressure.observe().
Observe(t) ==
  /\ full' = IF t \in full THEN full \ {t} ELSE full \cup {t}
  /\ UNCHANGED <<clock, stream, delivered, entries, index, loop, log, restarts>>

Tick ==
  /\ clock < MaxTime
  /\ clock' = clock + 1
  /\ UNCHANGED <<stream, delivered, entries, index, full, loop, log, restarts>>

-----------------------------------------------------------------------------
(* JetStream.                                                              *)

\* An event that is not settled goes back, unless this was its last delivery.
Returned(m) ==
  [stream EXCEPT ![m] = IF delivered[m] < MaxDeliver THEN "ready" ELSE "exhausted"]

\* ack_wait passes without an acknowledgement.
AckWaitExpires(m) ==
  /\ stream[m] = "out"
  /\ stream' = Returned(m)
  /\ UNCHANGED <<clock, delivered, entries, index, full, loop, log, restarts>>

-----------------------------------------------------------------------------
(* DedupCache and BackpressureSignal.                                      *)

\* Mutant: an entry leaves the cache one tick early.
RecentTooShort(now) == SelectSeq(entries, LAMBDA x : x[2] + Window > now)

\* _evict: what is left of the entries.
Recent(now) ==
  LET i == SelectInSeq(entries, LAMBDA x : x[2] + Window >= now) IN
  IF i = 0 THEN <<>> ELSE SubSeq(entries, i, Len(entries))

\* _index.pop for every evicted entry.
Indexed(evicted) == index \ {x[1] : x \in evicted}

\* is_dup: the cache after the call; the call returns TRUE iff s was in the
\* index that is left.
Remember(s, now) ==
  LET recent == Recent(now)
      known  == Indexed(ToSet(entries) \ ToSet(recent))
      added  == IF s \in known THEN recent ELSE Append(recent, <<s, now>>)
      over   == Len(added) > MaxEntries
  IN
  /\ entries' = IF over THEN Tail(added) ELSE added
  /\ index' = (known \cup {s}) \ (IF over THEN {Head(added)[1]} ELSE {})

IsDup(s, now) == s \in Indexed(ToSet(entries) \ ToSet(Recent(now)))

\* shed: the tier an event goes to (a set with one element), or {} if every
\* queue down from the requested tier is full.  Safety is never shed.
Shed(t) ==
  IF t = "sensor.bypass" THEN {t}
  ELSE LET start == SelectInSeq(DowngradeOrder, LAMBDA x : x = t)
           open  == {i \in start..Len(DowngradeOrder) : DowngradeOrder[i] \notin full}
       IN  {DowngradeOrder[i] : i \in {j \in open : \A k \in open : j <= k}}

-----------------------------------------------------------------------------
(* The consume loop.                                                       *)

\* Mutant: what was delivered before is not worked on again.
FetchNewOnly(m) ==
  /\ loop.at = "fetch"
  /\ stream[m] = "ready" /\ delivered[m] = 0
  /\ stream' = [stream EXCEPT ![m] = "out"]
  /\ delivered' = [delivered EXCEPT ![m] = @ + 1]
  /\ loop' = At("handle", m)
  /\ UNCHANGED <<clock, entries, index, full, log, restarts>>

\* Mutant: a message is acknowledged when it is delivered.
FetchAndAck(m) ==
  /\ loop.at = "fetch"
  /\ stream[m] = "ready"
  /\ stream' = [stream EXCEPT ![m] = "acked"]
  /\ delivered' = [delivered EXCEPT ![m] = @ + 1]
  /\ loop' = At("handle", m)
  /\ UNCHANGED <<clock, entries, index, full, log, restarts>>

Fetch(m) ==
  /\ loop.at = "fetch"
  /\ stream[m] = "ready"
  /\ stream' = [stream EXCEPT ![m] = "out"]
  /\ delivered' = [delivered EXCEPT ![m] = @ + 1]
  /\ loop' = At("handle", m)
  /\ UNCHANGED <<clock, entries, index, full, log, restarts>>

\* A message that does not validate is terminated, never redelivered; a failure
\* of msg.term() ends the consume loop's task.
Terminate ==
  /\ loop.at = "handle" /\ loop.msg[1] \in Invalid
  /\ \/ /\ stream' = [stream EXCEPT ![loop.msg] = "terminated"]
        /\ loop' = Idle
     \/ /\ "term" \in Failing
        /\ loop' = [at |-> "dead"]
        /\ UNCHANGED stream
  /\ UNCHANGED <<clock, delivered, entries, index, full, log, restarts>>

Logged(what) ==
  log' = log \cup {[msg |-> loop.msg, what |-> what, since |-> clock,
                    life |-> restarts]}

\* Triage.handle up to the await of publish.
Handle ==
  LET e == loop.msg[1] IN
  /\ loop.at = "handle" /\ e \notin Invalid
  /\ Remember(Signature[e], clock)
  /\ \/ /\ IsDup(Signature[e], clock)
        /\ Logged("suppressed")
        /\ loop' = At("ack", loop.msg)
     \/ /\ ~ IsDup(Signature[e], clock) /\ Shed(Score[e]) = {}
        /\ Logged("dropped")
        /\ loop' = At("ack", loop.msg)
     \/ /\ ~ IsDup(Signature[e], clock)
        /\ \E t \in Shed(Score[e]) :
             loop' = [at |-> "publish", msg |-> loop.msg, tier |-> t, since |-> clock]
        /\ UNCHANGED log
  /\ UNCHANGED <<clock, stream, delivered, full, restarts>>

PublishEnds(what) ==
  log' = log \cup {[msg |-> loop.msg, what |-> what, since |-> loop.since,
                    life |-> restarts]}

\* The server stores what triage publishes: on vlm.*, the triage consumer is one
\* of those it is for.
Forwarded ==
  /\ IF loop.tier = "sensor.bypass" THEN UNCHANGED stream
     ELSE \E n \in 1..MaxCopies :
            /\ stream[<<loop.msg[1], n>>] = "unsent"
            /\ \A k \in 1..(n - 1) : stream[<<loop.msg[1], k>>] # "unsent"
            /\ stream' = [stream EXCEPT ![<<loop.msg[1], n>>] = "ready"]
  /\ PublishEnds(loop.tier)

\* js.publish returns, or raises: before or after the server stored the event.
Publish ==
  /\ loop.at = "publish"
  /\ \/ /\ Forwarded
        /\ loop' = At("ack", loop.msg)
     \/ /\ "publish" \in Failing
        /\ Forwarded \/ (PublishEnds("failed") /\ UNCHANGED stream)
        /\ loop' = At("nak", loop.msg)
  /\ UNCHANGED <<clock, delivered, entries, index, full, restarts>>

\* msg.ack(): JetStream settles the event even if it has gone back meanwhile.
\* An exception of ack is handled like one of the handler.
Ack ==
  /\ loop.at = "ack"
  /\ \/ /\ stream' = [stream EXCEPT ![loop.msg] =
                        IF @ = "exhausted" THEN @ ELSE "acked"]
        /\ loop' = Idle
     \/ /\ "ack" \in Failing
        /\ loop' = At("nak", loop.msg)
        /\ UNCHANGED stream
  /\ UNCHANGED <<clock, delivered, entries, index, full, log, restarts>>

\* msg.nak(): its own failure ends the consume loop's task.
Nak ==
  /\ loop.at = "nak"
  /\ \/ /\ stream' = IF stream[loop.msg] = "out" THEN Returned(loop.msg) ELSE stream
        /\ loop' = Idle
     \/ /\ "nak" \in Failing
        /\ loop' = [at |-> "dead"]
        /\ UNCHANGED stream
  /\ UNCHANGED <<clock, delivered, entries, index, full, log, restarts>>

\* The triage process dies, at whatever await, and starts again.
Restart ==
  /\ restarts < MaxRestarts
  /\ restarts' = restarts + 1
  /\ entries' = <<>> /\ index' = {}
  /\ loop' = Idle
  /\ full' = {}
  /\ UNCHANGED <<clock, stream, delivered, log>>

-----------------------------------------------------------------------------

Next ==
  \/ \E e \in Events : Send(e)
  \/ \E m \in Messages : AckWaitExpires(m) \/ Fetch(m)
  \/ \E t \in Overload : Observe(t)
  \/ Tick \/ Terminate \/ Handle \/ Publish \/ Ack \/ Nak \/ Restart

Spec == Init /\ [][Next]_vars

\* The loop fetches and works; nothing has to be sent or to fail.  A publish may
\* fail every time.
Fairness ==
  /\ WF_vars(\E m \in Messages : Fetch(m))
  /\ WF_vars(Terminate \/ Handle \/ Publish \/ Ack \/ Nak)
  /\ \A m \in Messages : WF_vars(AckWaitExpires(m))

FairSpec == Spec /\ Fairness

-----------------------------------------------------------------------------
(* Properties.                                                             *)

\* The deque and the dict of the cache say the same: every indexed signature
\* has exactly one entry, oldest first, or it would be a duplicate for ever.
CacheIsConsistent ==
  /\ index = {x[1] : x \in ToSet(entries)}
  /\ Cardinality(index) = Len(entries) /\ Len(entries) <= MaxEntries
  /\ \A i, j \in 1..Len(entries) : i < j => entries[i][2] <= entries[j][2]

\* Redeliveries and repeats: one process lets the same signature pass at most
\* once in any window.
NoEarlyRepeat ==
  \A x, y \in log :
    /\ x.what # "suppressed" /\ y.what # "suppressed" /\ x # y
    /\ Signature[x.msg[1]] = Signature[y.msg[1]] /\ x.life = y.life
    => x.since + Window < y.since \/ y.since + Window < x.since

\* Whatever is redelivered, lost in a crash or acknowledged twice: of the events
\* with the signature of an acknowledged event one was forwarded, shed under
\* load, or lost to a publish that raised; a safety event is never shed.
AckedIsAccountedFor ==
  \A m \in Messages : stream[m] = "acked" =>
    \E x \in log :
      /\ Signature[x.msg[1]] = Signature[m[1]]
      /\ x.what # "suppressed"
      /\ Score[x.msg[1]] = "sensor.bypass" => x.what \in {"sensor.bypass", "failed"}

\* Every event that reaches the stream is settled in the end, through failures,
\* redeliveries and restarts, as long as the consume loop lives.
EveryEventIsSettled ==
  \A m \in Messages :
    (stream[m] = "ready") ~>
      (stream[m] \in {"acked", "terminated", "exhausted"} \/ loop.at = "dead")

-----------------------------------------------------------------------------
(* Claims of the code's documentation that the model refutes.              *)

\* DedupCache: of the events with one signature "only the first is forwarded":
\* what is suppressed repeats something that was forwarded.
SuppressedRepeatsForwarded ==
  \A x \in log : x.what = "suppressed" =>
    \E y \in log : y.what \in Tiers /\ Signature[y.msg[1]] = Signature[x.msg[1]]

\* The module docstring: triage "consumes TriggerEvents from any NVR adapter":
\* with nothing failing, an adapter's event is forwarded once.
ForwardedOnce ==
  \A x, y \in log :
    x.what \in Tiers /\ y.what \in Tiers /\ x.msg[1] = y.msg[1] => x = y

\* Bus.subscribe: "consumption runs as a background task tied to the Bus's
\* lifecycle": it does not end while the Bus is open.
ConsumerOutlivesFailures == loop.at # "dead"

=============================================================================
