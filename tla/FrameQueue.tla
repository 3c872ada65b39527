----------------------------- MODULE FrameQueue -----------------------------
(***************************************************************************)
(* The preprocessor's FrameQueue: the bounded queue between one decode     *)
(* thread (put) and the encode workers, which call get until RTSPCapture's *)
(* stop() raises their flag.  put and close run under the queue's lock, so *)
(* each is one action; a get that has to wait is split where               *)
(* threading.Condition lets go of the lock.                                *)
(*                                                                         *)
(* A getter whose wait has timed out stays in the condition's list of      *)
(* waiters until it is scheduled again, so a notify may still be spent on  *)
(* it (CPython's Condition): this is the state "expired".                  *)
(***************************************************************************)
EXTENDS Naturals, Sequences, FiniteSets

CONSTANTS
  MaxSize,    \* maxsize
  Getters,    \* encode-worker threads
  Payloads,   \* what a frame carries
  None,       \* what a get that gives up returns
  MaxPuts     \* bound on the number of frames put

Frame == [payload : Payloads, motion : BOOLEAN, seq : Nat]

ASSUME FrameQueueAssumption ==
  /\ MaxSize \in Nat \ {0}
  /\ MaxPuts \in Nat
  /\ None \notin Frame

VARIABLES
  dq,        \* _dq, oldest frame first
  closed,    \* _closed
  stopping,  \* _stopping of the capture task, the flag of its workers
  enqueued,  \* QueueMetrics, without depth, which is Len(dq) at every unlock;
  dequeued,  \*   the queue's _seq counts with enqueued
  dropped,
  droppedMotion,
  peak,
  at,        \* getter -> where it is
  got        \* getter -> what its last get returned

metricVars == <<enqueued, dequeued, dropped, droppedMotion, peak>>
queueVars == <<dq, closed, metricVars>>
vars == <<queueVars, stopping, at, got>>

\* Where a worker is: at the test of its flag, called into get() but without
\* the lock yet, in a wait, or at the end of its thread.
Places == {"out", "called", "waiting", "expired", "woken", "leaving", "ended"}

TypeOK ==
  /\ dq \in Seq(Frame)
  /\ closed \in BOOLEAN /\ stopping \in BOOLEAN
  /\ enqueued \in 0..MaxPuts /\ dequeued \in Nat /\ dropped \in Nat
  /\ droppedMotion \in Nat /\ peak \in 0..MaxSize
  /\ at \in [Getters -> Places]
  /\ got \in [Getters -> Frame \cup {None}]

Init ==
  /\ dq = <<>>
  /\ closed = FALSE /\ stopping = FALSE
  /\ enqueued = 0 /\ dequeued = 0 /\ dropped = 0 /\ droppedMotion = 0 /\ peak = 0
  /\ at = [g \in Getters |-> "out"]
  /\ got = [g \in Getters |-> None]

-----------------------------------------------------------------------------
(* put.                                                                    *)

\* s without its i-th element.
Without(s, i) ==
  [j \in 1..(Len(s) - 1) |-> IF j < i THEN s[j] ELSE s[j + 1]]

\* Mutant: the victim is the oldest frame, motion or not.
OldestFrame(s) == IF s = <<>> THEN {} ELSE {1}

\* _oldest_non_motion_index: the empty set is the code's None.
OldestNonMotion(s) ==
  {i \in 1..Len(s) : ~ s[i].motion /\ \A j \in 1..(i - 1) : s[j].motion}

AllMotion(s) == \A i \in 1..Len(s) : s[i].motion

Waiters == {g \in Getters : at[g] \in {"waiting", "expired"}}

\* A notified getter: one that had timed out meanwhile takes no notice.
Notified(g) == IF at[g] = "waiting" THEN "woken" ELSE "leaving"

\* _not_empty.notify().
Notify ==
  \/ /\ Waiters = {}
     /\ UNCHANGED at
  \/ \E g \in Waiters : at' = [at EXCEPT ![g] = Notified(g)]

MaxOf(m, n) == IF m >= n THEN m ELSE n

\* Append the incoming frame to the frames that are kept, and count.
Admit(kept, victims, motionVictims, p, b) ==
  /\ dq' = Append(kept, [payload |-> p, motion |-> b, seq |-> enqueued + 1])
  /\ enqueued' = enqueued + 1
  /\ dropped' = dropped + victims
  /\ droppedMotion' = droppedMotion + motionVictims
  /\ peak' = MaxOf(peak, Len(dq'))
  /\ UNCHANGED dequeued

\* put(): the incoming frame is always stored, if need be at the expense of the
\* oldest non-motion frame or, when there is none, of the oldest frame.  After
\* close() it returns without an effect.
Put(p, b) ==
  /\ ~ closed
  /\ enqueued < MaxPuts
  /\ \/ /\ Len(dq) < MaxSize
        /\ Admit(dq, 0, 0, p, b)
     \/ /\ Len(dq) >= MaxSize
        /\ \E i \in OldestNonMotion(dq) : Admit(Without(dq, i), 1, 0, p, b)
     \/ /\ Len(dq) >= MaxSize
        /\ AllMotion(dq)
        /\ Admit(Tail(dq), 1, 1, p, b)
  /\ Notify
  /\ UNCHANGED <<closed, stopping, got>>

-----------------------------------------------------------------------------
(* get.                                                                    *)

\* Mutant: a worker calls get() again whatever the flag says.
EnterGetForEver(g) ==
  /\ at[g] = "out"
  /\ at' = [at EXCEPT ![g] = "called"]
  /\ UNCHANGED <<queueVars, stopping, got>>

\* The head of the worker's loop, while not self._stopping (and the test after
\* a get that returned None, which is the same).
EnterGet(g) ==
  /\ at[g] = "out"
  /\ at' = [at EXCEPT ![g] = IF stopping THEN "ended" ELSE "called"]
  /\ UNCHANGED <<queueVars, stopping, got>>

\* Encoding the frame, or handing it to the event loop, raises: the worker's
\* thread ends, and nobody looks at its future before stop() does.
EncodeRaises(g) ==
  /\ at[g] = "out" /\ got[g] # None
  /\ at' = [at EXCEPT ![g] = "ended"]
  /\ UNCHANGED <<queueVars, stopping, got>>

\* Mutant: the newest frame is handed out.
TakeNewest(g) ==
  /\ dq' = SubSeq(dq, 1, Len(dq) - 1)
  /\ dequeued' = dequeued + 1
  /\ UNCHANGED <<enqueued, dropped, droppedMotion, peak>>
  /\ got' = [got EXCEPT ![g] = dq[Len(dq)]]

Take(g) ==
  /\ dq' = Tail(dq)
  /\ dequeued' = dequeued + 1
  /\ UNCHANGED <<enqueued, dropped, droppedMotion, peak>>
  /\ got' = [got EXCEPT ![g] = Head(dq)]

\* The getter has the lock: at the start of get(), or back from a wait that
\* was notified.
Get(g) ==
  /\ at[g] \in {"called", "woken"}
  /\ \/ /\ dq # <<>>
        /\ Take(g)
        /\ at' = [at EXCEPT ![g] = "out"]
     \/ /\ dq = <<>> /\ ~ closed
        /\ at' = [at EXCEPT ![g] = "waiting"]
        /\ UNCHANGED <<dq, metricVars, got>>
     \/ /\ dq = <<>> /\ closed
        /\ at' = [at EXCEPT ![g] = "out"]
        /\ got' = [got EXCEPT ![g] = None]
        /\ UNCHANGED <<dq, metricVars>>
  /\ UNCHANGED <<closed, stopping>>

\* The wait times out before a notify reaches it.
Expire(g) ==
  /\ at[g] = "waiting"
  /\ at' = [at EXCEPT ![g] = "expired"]
  /\ UNCHANGED <<queueVars, stopping, got>>

\* Mutant: it waits again without looking at the queue.
WaitAgain(g) ==
  /\ at[g] \in {"expired", "leaving"}
  /\ at' = [at EXCEPT ![g] = "waiting"]
  /\ UNCHANGED <<queueVars, stopping, got>>

\* A get whose wait timed out returns None, even if there are frames by now.
GiveUp(g) ==
  /\ at[g] \in {"expired", "leaving"}
  /\ at' = [at EXCEPT ![g] = "out"]
  /\ got' = [got EXCEPT ![g] = None]
  /\ UNCHANGED <<queueVars, stopping>>

-----------------------------------------------------------------------------
(* RTSPCapture.stop.                                                       *)

\* stop() raises the workers' flag and cancels the capture task ...
StopCapture ==
  /\ ~ stopping
  /\ stopping' = TRUE
  /\ UNCHANGED <<queueVars, at, got>>

\* ... and closes the queue when that task has ended: notify_all.
Close ==
  /\ stopping /\ ~ closed
  /\ closed' = TRUE
  /\ at' = [g \in Getters |-> IF g \in Waiters THEN Notified(g) ELSE at[g]]
  /\ UNCHANGED <<dq, metricVars, stopping, got>>

-----------------------------------------------------------------------------

Work(g) == EnterGet(g) \/ Get(g) \/ Expire(g) \/ GiveUp(g)

Next ==
  \/ \E p \in Payloads, b \in BOOLEAN : Put(p, b)
  \/ \E g \in Getters : Work(g) \/ EncodeRaises(g)
  \/ StopCapture
  \/ Close

Spec == Init /\ [][Next]_vars

\* The workers are running threads, and every wait has a timeout; the decoder,
\* a failing encode and the user who stops the camera owe nothing.
FairSpec == Spec /\ \A g \in Getters : WF_vars(Work(g))

-----------------------------------------------------------------------------
(* Properties.                                                             *)

\* The bound holds, and the metrics account for every frame: "nothing was
\* dropped" on /status is checkable (QueueMetrics).
Accounting ==
  /\ Len(dq) <= MaxSize
  /\ enqueued = dequeued + dropped + Len(dq)
  /\ Len(dq) <= peak /\ peak <= MaxSize
  /\ droppedMotion <= dropped

\* get() is FIFO although victims leave from the middle: the queue stays in
\* arrival order, and all that was handed out is older than what is queued.
FifoOrder ==
  /\ \A i, j \in 1..Len(dq) : i < j => dq[i].seq < dq[j].seq
  /\ \A g \in Getters, i \in 1..Len(dq) :
       got[g] # None => got[g].seq < dq[i].seq

\* A frame that showed motion is shed only from a full queue in which every
\* frame shows motion, and never without being counted.
MotionIsShedLast ==
  [][\A i \in 1..Len(dq) :
       LET kept == \E j \in 1..Len(dq') : dq'[j] = dq[i]
           taken == \E g \in Getters : got'[g] = dq[i]
       IN  dq[i].motion /\ ~ kept /\ ~ taken
             => /\ Len(dq) = MaxSize
                /\ \A j \in 1..Len(dq) : dq[j].motion
                /\ droppedMotion' = droppedMotion + 1]_vars

InQueue(n) == \E i \in 1..Len(dq) : dq[i].seq = n

\* As long as the camera is not stopped and one worker lives, no frame stays in
\* the queue for ever, although a notify may be spent on a worker that has timed
\* out or on one whose encode then raises.
EveryFrameLeaves ==
  \A n \in 1..MaxPuts :
    InQueue(n) ~> (~ InQueue(n) \/ stopping \/ \A g \in Getters : at[g] = "ended")

\* stop() can join its workers: whatever they are doing when the flag is raised,
\* their threads end, even before close() has notified them.
WorkersEnd == stopping ~> \A g \in Getters : at[g] = "ended"

\* Locks, waiting and the order of the deque apart, the queue is a lossy FIFO:
\* every step of put, get, a timeout or close is a step of LossyFifo or none.
Held == {dq[i] : i \in 1..Len(dq)}

Fifo == INSTANCE LossyFifo WITH
  Capacity <- MaxSize, Readers <- Getters, held <- Held, sent <- enqueued,
  gone <- dequeued + dropped, given <- got

IsLossyFifo == Fifo!Spec

=============================================================================
