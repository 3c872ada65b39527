-------------------------- MODULE MCHealthWatchdog --------------------------
(***************************************************************************)
(* Model-checking instance of HealthWatchdog: Home Assistant (critical,    *)
(* F4), the VLM router (F7) and a preprocessor whose loss restricts no     *)
(* action; and of HomeClient, whose `ready` is what the Home Assistant     *)
(* probe reads.  The two share no other variable, so either is checked     *)
(* with the other at rest (`subject`): a behaviour of both together is an  *)
(* interleaving of two that the run explores.                              *)
(***************************************************************************)
EXTENDS HealthWatchdog, HomeClient

CONSTANTS ha, vlm, preprocessor, f4, f7

VARIABLE subject

MCChecks == <<ha, vlm, preprocessor>>

MCModeOf == [c \in {ha, vlm, preprocessor} |->
               IF c = ha THEN f4 ELSE IF c = vlm THEN f7 ELSE NoMode]

allVars == <<subject, vars, clientVars>>

MCInit ==
  /\ Init /\ ClientInit
  /\ \/ subject = "watchdog" /\ server = "up"
     \/ subject = "client" /\ condition = [c \in Components |-> "ok"]

MCNext ==
  \/ subject = "watchdog" /\ Next /\ UNCHANGED <<subject, clientVars>>
  \/ subject = "client" /\ ClientNext /\ UNCHANGED <<subject, vars>>

\* FairSpec and ClientFairSpec, each for its own subject.
MCSpec ==
  /\ MCInit /\ [][MCNext]_allVars
  /\ WF_vars(subject = "watchdog" /\ Watchdog)
  /\ WF_allVars(subject = "client" /\ Loop /\ UNCHANGED <<subject, vars>>)
  /\ WF_allVars(/\ subject = "client" /\ server = "starting"
                /\ ServerMoves("up") /\ UNCHANGED <<subject, vars>>)
  /\ WF_allVars(/\ subject = "client" /\ server = "down"
                /\ \E how \in {"closed", "broken"} : SocketEnds(how)
                /\ UNCHANGED <<subject, vars>>)

\* Reconnects, of the behaviours in which HomeClient is not at rest: whatever fails
\* on the way, _ws_loop is connected again at some time.
ClientReconnects == subject = "client" => Reconnects
=============================================================================
