------------------------------ MODULE LossyFifo ------------------------------
(***************************************************************************)
(* What the frame queue promises its users: at most Capacity frames are    *)
(* held, a new frame is always accepted, a full queue sheds one frame for  *)
(* it, one without motion if it holds any, and readers get the oldest      *)
(* frame held or nothing.  Which frame without motion is shed, how a       *)
(* reader waits and what closing does to it are left open.                 *)
(***************************************************************************)
EXTENDS Integers

CONSTANTS Capacity, Readers, Payloads, None, MaxPuts

VARIABLES
  held,   \* the frames accepted and neither shed nor delivered
  sent,   \* how many frames were accepted,
  gone,   \* and how many of them were shed or delivered
  given   \* reader -> what its last read returned

vars == <<held, sent, gone, given>>

Init ==
  /\ held = {}
  /\ sent = 0 /\ gone = 0
  /\ given = [r \in Readers |-> None]

Fresh(p, b) == [payload |-> p, motion |-> b, seq |-> sent + 1]

Sheddable == {f \in held : f.motion => \A h \in held : h.motion}

Accept(p, b) ==
  /\ sent < MaxPuts
  /\ sent' = sent + 1
  /\ \/ /\ sent - gone < Capacity
        /\ held' = held \cup {Fresh(p, b)}
        /\ UNCHANGED gone
     \/ /\ sent - gone = Capacity
        /\ \E f \in Sheddable : held' = (held \ {f}) \cup {Fresh(p, b)}
        /\ gone' = gone + 1
  /\ UNCHANGED given

Oldest == {f \in held : \A h \in held : f.seq <= h.seq}

Deliver(r) ==
  /\ \E f \in Oldest :
       /\ held' = held \ {f}
       /\ given' = [given EXCEPT ![r] = f]
  /\ gone' = gone + 1
  /\ UNCHANGED sent

ReturnNothing(r) ==
  /\ given' = [given EXCEPT ![r] = None]
  /\ UNCHANGED <<held, sent, gone>>

Next ==
  \/ \E p \in Payloads, b \in BOOLEAN : Accept(p, b)
  \/ \E r \in Readers : Deliver(r) \/ ReturnNothing(r)

Spec == Init /\ [][Next]_vars

=============================================================================
