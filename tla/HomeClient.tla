----------------------------- MODULE HomeClient -----------------------------
(***************************************************************************)
(* HAClient, the ha-agent's one connection to Home Assistant: _ws_loop     *)
(* connects, authenticates, subscribes and consumes state_changed events,  *)
(* awaiting every handler before it takes the next event, and connects     *)
(* again after a backoff; reads answer from a cache the events and the     *)
(* REST answers both write.                                                *)
(*                                                                         *)
(* A step is a stretch between two suspensions of the asyncio loop.  The   *)
(* state of an entity is the tick of its last change, 0 when Home          *)
(* Assistant does not have the entity.                                     *)
(***************************************************************************)
EXTENDS Naturals, SequencesExt

CONSTANTS
  Entities,
  Handlers,
  MaxTicks,     \* bound on the changes Home Assistant reports
  MaxFaults,    \* bound on restarts of Home Assistant and on lost sockets
  MaxBackoff    \* doublings after which the backoff stays at its maximum

VARIABLES
  server,       \* Home Assistant: "up", "starting" (refuses logins) or "down"
  faults,
  home,         \* entity -> its state in Home Assistant
  tick,
  phase,        \* the await _ws_loop is suspended at
  socket,       \* "open", or how it ended: "closed" (cleanly) or "broken"
  wire,         \* events on the socket that are not consumed
  ready,        \* _ready, which is_connected shows
  backoff,
  cache,        \* _state_cache: entity -> state, 0 when it has no entry
  handlers,     \* _handlers
  todo,         \* handlers _ws_consume has still to await for `event`
  event,
  heard,        \* history: handler, entity -> the last state it was called with
  request       \* the REST read under way

serverVars == <<server, faults, home, tick>>
clientLoop   == <<phase, socket, wire, ready, backoff, todo, event>>
clientVars == <<serverVars, clientLoop, cache, handlers, heard, request>>

States == 0..MaxTicks
Events == [of : Entities, state : States]

\* What get_state or get_states has asked for, and what Home Assistant said.
All  == "all"
Idle == [at |-> "idle", of |-> All, said |-> [e \in Entities |-> 0]]

ClientTypeOK ==
  /\ server \in {"up", "starting", "down"}
  /\ faults \in 0..MaxFaults
  /\ home \in [Entities -> States] /\ tick \in States
  /\ phase \in {"connect", "auth", "subscribe", "reply", "consume", "dispatch",
                "sleep", "ended"}
  /\ socket \in {"open", "closed", "broken"}
  /\ wire \in Seq(Events)
  /\ ready \in BOOLEAN
  /\ backoff \in 0..MaxBackoff
  /\ cache \in [Entities -> States]
  /\ handlers \in Seq(Handlers) /\ todo \in Seq(Handlers)
  /\ event \in Events
  /\ heard \in [Handlers -> [Entities -> States]]
  /\ request \in [at : {"idle", "asked", "answered"},
                  of : Entities \cup {All}, said : [Entities -> States]]

NoEvent == [of |-> CHOOSE e \in Entities : TRUE, state |-> 0]

ClientInit ==
  /\ server \in {"up", "down"}
  /\ faults = 0
  /\ home = [e \in Entities |-> 1] /\ tick = 1
  /\ phase = "connect"
  /\ socket = "open"
  /\ wire = <<>>
  /\ ready = FALSE
  /\ backoff = 0
  /\ cache = [e \in Entities |-> 0]
  /\ handlers = <<>> /\ todo = <<>>
  /\ event = NoEvent
  /\ heard = [h \in Handlers |-> [e \in Entities |-> 0]]
  /\ request = Idle

-----------------------------------------------------------------------------
(* Home Assistant.                                                         *)

Connected  == phase \in {"auth", "subscribe", "reply", "consume", "dispatch"}
Subscribed == phase \in {"reply", "consume", "dispatch"} /\ socket = "open"

\* An entity changes, appears or disappears; subscribers are told.
Changed(e, there) ==
  /\ server = "up" /\ tick < MaxTicks
  /\ tick' = tick + 1
  /\ there \/ home[e] # 0
  /\ home' = [home EXCEPT ![e] = IF there THEN tick + 1 ELSE 0]
  /\ wire' = IF Subscribed THEN Append(wire, [of |-> e, state |-> home'[e]])
             ELSE wire
  /\ UNCHANGED <<server, faults, phase, socket, ready, backoff, todo, event,
                 cache, handlers, heard, request>>

\* It stops, boots and comes up; or the network between loses the connection.
ServerMoves(to) ==
  /\ \/ server = "up" /\ to = "down" /\ faults < MaxFaults /\ faults' = faults + 1
     \/ <<server, to>> \in {<<"down", "starting">>, <<"starting", "up">>}
        /\ UNCHANGED faults
  /\ server' = to
  /\ UNCHANGED <<home, tick, clientLoop, cache, handlers, heard, request>>

\* The socket ends; what was on it is consumed up to some point.  A server that
\* is gone without a word is found out by the keepalive pings.
SocketEnds(how) ==
  /\ Connected /\ socket = "open"
  /\ \/ server = "down" /\ UNCHANGED faults
     \/ server # "down" /\ faults < MaxFaults /\ faults' = faults + 1
  /\ socket' = how
  /\ \E n \in 0..Len(wire) : wire' = SubSeq(wire, 1, n)
  /\ UNCHANGED <<server, home, tick, phase, ready, backoff, todo, event, cache,
                 handlers, heard, request>>

-----------------------------------------------------------------------------
(* _ws_loop.                                                               *)

Doubled == IF backoff < MaxBackoff THEN backoff + 1 ELSE backoff

\* Mutant: only the backoff, and _ready stays as it was.
SleepReady ==
  /\ phase' = "sleep"
  /\ backoff' = Doubled
  /\ UNCHANGED ready

\* Every exception clears _ready and is slept upon.
Sleep ==
  /\ phase' = "sleep"
  /\ backoff' = Doubled
  /\ ready' = FALSE

Connect ==
  /\ phase = "connect"
  /\ IF server = "down"
     THEN Sleep /\ UNCHANGED <<socket, wire>>
     ELSE /\ phase' = "auth"
          /\ socket' = "open" /\ wire' = <<>>
          /\ UNCHANGED <<ready, backoff>>
  /\ UNCHANGED <<serverVars, todo, event, cache, handlers, heard, request>>

\* A recv or a send on a socket that has ended raises.
Lost ==
  /\ \/ phase \in {"auth", "subscribe"} /\ socket # "open"
     \/ phase \in {"reply", "consume"} /\ socket = "broken" /\ wire = <<>>
     \/ phase = "reply" /\ socket = "closed" /\ wire = <<>>
  /\ Sleep
  /\ UNCHANGED <<serverVars, socket, wire, todo, event, cache, handlers, heard,
                 request>>

Authenticate ==
  /\ phase = "auth" /\ socket = "open"
  /\ \/ server = "up" /\ phase' = "subscribe" /\ UNCHANGED <<ready, backoff>>
     \/ server = "starting" /\ Sleep
  /\ UNCHANGED <<serverVars, socket, wire, todo, event, cache, handlers, heard,
                 request>>

\* The command is sent; events may follow its reply at once.
Subscribe ==
  /\ phase = "subscribe" /\ socket = "open" /\ server = "up"
  /\ phase' = "reply"
  /\ UNCHANGED <<serverVars, socket, wire, ready, backoff, todo, event, cache,
                 handlers, heard, request>>

Replied ==
  /\ phase = "reply" /\ (socket = "open" \/ wire # <<>>)
  /\ phase' = "consume"
  /\ ready' = TRUE
  /\ backoff' = 0
  /\ UNCHANGED <<serverVars, socket, wire, todo, event, cache, handlers, heard,
                 request>>

\* An event with no new state, an entity that is gone, is skipped; any other
\* goes to the cache and to a copy of the handler list.
Consume ==
  /\ phase = "consume" /\ wire # <<>>
  /\ wire' = Tail(wire)
  /\ IF Head(wire).state = 0
     THEN UNCHANGED <<phase, event, cache, todo>>
     ELSE /\ event' = Head(wire)
          /\ cache' = [cache EXCEPT ![Head(wire).of] = Head(wire).state]
          /\ todo' = handlers
          /\ phase' = IF handlers = <<>> THEN "consume" ELSE "dispatch"
  /\ UNCHANGED <<serverVars, socket, ready, backoff, handlers, heard, request>>

\* The next handler returns, or raises, which is logged.
Call ==
  /\ phase = "dispatch"
  /\ heard' = [heard EXCEPT ![Head(todo)][event.of] = event.state]
  /\ todo' = Tail(todo)
  /\ phase' = IF Len(todo) = 1 THEN "consume" ELSE "dispatch"
  /\ UNCHANGED <<serverVars, socket, wire, ready, backoff, event, cache,
                 handlers, request>>

\* A clean close ends the iteration without an exception.
Closed ==
  /\ phase = "consume" /\ socket = "closed" /\ wire = <<>>
  /\ phase' = "connect"
  /\ UNCHANGED <<serverVars, socket, wire, ready, backoff, todo, event, cache,
                 handlers, heard, request>>

\* Mutant: what the loop caught ends it.
WakeNever == FALSE /\ UNCHANGED clientVars

Wake ==
  /\ phase = "sleep"
  /\ phase' = "connect"
  /\ UNCHANGED <<serverVars, socket, wire, ready, backoff, todo, event, cache,
                 handlers, heard, request>>

\* stop: the task is cancelled at whatever it awaits.
Stop ==
  /\ phase # "ended"
  /\ phase' = "ended"
  /\ todo' = <<>> /\ wire' = <<>>
  /\ UNCHANGED <<serverVars, socket, ready, backoff, event, cache, handlers,
                 heard, request>>

-----------------------------------------------------------------------------
(* The callers.                                                            *)

\* Mutant: the list is appended to without looking.
OnStateChangeAgain(h) ==
  /\ Len(handlers) < 2
  /\ handlers' = Append(handlers, h)
  /\ UNCHANGED <<serverVars, clientLoop, cache, heard, request>>

OnStateChange(h) ==
  /\ h \notin ToSet(handlers)
  /\ handlers' = Append(handlers, h)
  /\ UNCHANGED <<serverVars, clientLoop, cache, heard, request>>

RemoveHandler(h) ==
  /\ \E i \in DOMAIN handlers : handlers[i] = h /\ handlers' = RemoveAt(handlers, i)
  /\ UNCHANGED <<serverVars, clientLoop, cache, heard, request>>

\* get_state and get_states return what the cache has, and ask only when it has
\* nothing; get_states takes one entry for all of them.
Ask(of) ==
  /\ request = Idle
  /\ IF of = All THEN \A e \in Entities : cache[e] = 0 ELSE cache[of] = 0
  /\ request' = [Idle EXCEPT !.at = "asked", !.of = of]
  /\ UNCHANGED <<serverVars, clientLoop, cache, handlers, heard>>

Answer ==
  /\ request.at = "asked"
  /\ request' = IF server = "up"
                THEN [request EXCEPT !.at = "answered", !.said = home]
                ELSE Idle
  /\ UNCHANGED <<serverVars, clientLoop, cache, handlers, heard>>

\* The answer is stored as it was given, whatever the events said meanwhile.
Resume ==
  /\ request.at = "answered"
  /\ cache' = IF request.of = All THEN request.said
              ELSE IF request.said[request.of] = 0 THEN cache
              ELSE [cache EXCEPT ![request.of] = request.said[request.of]]
  /\ request' = Idle
  /\ UNCHANGED <<serverVars, clientLoop, handlers, heard>>

-----------------------------------------------------------------------------

Loop == \/ Connect \/ Lost \/ Authenticate \/ Subscribe \/ Replied
        \/ Consume \/ Call \/ Closed \/ Wake

ClientNext ==
  \/ \E e \in Entities, there \in BOOLEAN : Changed(e, there)
  \/ \E to \in {"up", "starting", "down"} : ServerMoves(to)
  \/ \E how \in {"closed", "broken"} : SocketEnds(how)
  \/ Loop
  \/ Stop
  \/ \E h \in Handlers : OnStateChange(h) \/ RemoveHandler(h)
  \/ \E of \in Entities \cup {All} : Ask(of)
  \/ Answer
  \/ Resume

ClientSpec == ClientInit /\ [][ClientNext]_clientVars

\* The event loop runs what is ready and handlers return; Home Assistant boots
\* once it has begun to; the pings find a dead socket.
Fairness ==
  /\ WF_clientVars(Loop)
  /\ WF_clientVars(server = "starting" /\ ServerMoves("up"))
  /\ WF_clientVars(server = "down" /\ \E how \in {"closed", "broken"} : SocketEnds(how))

ClientFairSpec == ClientSpec /\ Fairness

-----------------------------------------------------------------------------
(* Properties.                                                             *)

\* "A re-subscribe can't silently double the events delivered": no handler is
\* called twice for a change, nor with an older state of an entity after a newer
\* one, whatever connections were lost and handlers came and went in between.
DeliveriesAreInOrder ==
  [][phase = "dispatch" /\ todo' = Tail(todo) /\ phase' # "ended" =>
       event.state > heard[Head(todo)][event.of]]_clientVars

\* Once Home Assistant stays up, the client ends up consuming its events for
\* good, unless it was stopped: no failure ends the reconnecting.
Reconnects ==
  <>[](server = "up") => <>[](phase \in {"consume", "dispatch", "ended"})

\* A connection that is gone shows: while Home Assistant stays away, _ready does
\* not stay set, unless the client was stopped.
LossIsNoticed ==
  server = "down" ~> (~ready \/ server # "down" \/ phase = "ended")

-----------------------------------------------------------------------------
(* Claims of the code's documentation that the model refutes.              *)

\* "set on a successful connect+auth, cleared on disconnect."
ReadyMeansConnected == ready => Connected

\* "One-shot fetch of all entity states (uses cache when fresh)": what get_states
\* returns without asking has every entity of Home Assistant, once all events
\* were consumed.
SnapshotIsComplete ==
  LET Settled == phase = "consume" /\ socket = "open" /\ wire = <<>> /\ request = Idle
  IN Settled /\ (\E e \in Entities : cache[e] # 0) =>
       \A e \in Entities : home[e] # 0 => cache[e] # 0

\* "Snapshot + delta cache": an entity's entry never goes back to an older state.
CacheMovesOn == [][\A e \in Entities : cache'[e] >= cache[e]]_clientVars

=============================================================================
