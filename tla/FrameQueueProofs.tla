-------------------------- MODULE FrameQueueProofs --------------------------
(***************************************************************************)
(* Proofs about FrameQueue, for every queue size, any number of workers    *)
(* and any sequence of frames; then about MotionEvents, the buffer and the *)
(* recorder behind the queue, for all sizes that fit together.             *)
(***************************************************************************)
EXTENDS FrameQueue, MotionEvents, FiniteSetTheorems, WellFoundedInduction, TLAPS

\* No frame, queued or handed out, has a number put has not given yet: this is
\* why a new frame keeps the queue in order.
Numbered ==
  /\ \A i \in 1..Len(dq) : dq[i].seq <= enqueued
  /\ \A g \in Getters : got[g] # None => got[g].seq <= enqueued

IInv == TypeOK /\ Accounting /\ FifoOrder /\ Numbered

\* What put keeps of the queue: some of its frames, in the old order.
InOrder(s) == \A i, j \in 1..Len(s) : i < j => s[i].seq < s[j].seq
DrawnFrom(s, q) == \A i \in 1..Len(s) : \E k \in 1..Len(q) : s[i] = q[k]

-----------------------------------------------------------------------------
(* What the sequence operations do.                                        *)

LEMMA Bounds == MaxSize \in Nat /\ MaxSize >= 1 /\ MaxPuts \in Nat
  BY FrameQueueAssumption

LEMMA MaxOfFacts ==
  ASSUME NEW m \in Nat, NEW n \in Nat
  PROVE  /\ MaxOf(m, n) \in Nat /\ m <= MaxOf(m, n) /\ n <= MaxOf(m, n)
         /\ \A k \in Nat : m <= k /\ n <= k => MaxOf(m, n) <= k
  BY DEF MaxOf

LEMMA WithoutFacts ==
  ASSUME NEW s \in Seq(Frame), NEW i \in 1..Len(s)
  PROVE  /\ Without(s, i) \in Seq(Frame)
         /\ Len(Without(s, i)) = Len(s) - 1
         /\ \A j \in 1..(Len(s) - 1) :
              Without(s, i)[j] = IF j < i THEN s[j] ELSE s[j + 1]
<1>1. /\ Len(s) - 1 \in Nat
      /\ \A j \in 1..(Len(s) - 1) : j \in 1..Len(s) /\ j + 1 \in 1..Len(s)
  OBVIOUS
<1>2. \A j \in 1..Len(s) : s[j] \in Frame
  OBVIOUS
<1>. QED
  BY <1>1, <1>2 DEF Without

LEMMA TailFacts ==
  ASSUME NEW s \in Seq(Frame), s # <<>>
  PROVE  /\ Tail(s) \in Seq(Frame)
         /\ Len(Tail(s)) = Len(s) - 1
         /\ \A j \in 1..(Len(s) - 1) : Tail(s)[j] = s[j + 1]
         /\ Head(s) = s[1] /\ Head(s) \in Frame /\ Len(s) > 0
  OBVIOUS

-----------------------------------------------------------------------------
(* put: whatever is kept of the queue, in order, IInv is preserved.        *)

LEMMA AdmitStep ==
  ASSUME IInv, NEW p \in Payloads, NEW b \in BOOLEAN,
         NEW victims \in 0..1, NEW motionVictims \in 0..1,
         motionVictims <= victims,
         NEW kept \in Seq(Frame),
         Len(kept) = Len(dq) - victims, Len(kept) < MaxSize,
         InOrder(kept), DrawnFrom(kept, dq),
         enqueued < MaxPuts,
         Admit(kept, victims, motionVictims, p, b), Notify,
         UNCHANGED <<closed, stopping, got>>
  PROVE  IInv'
<1> DEFINE new == [payload |-> p, motion |-> b, seq |-> enqueued + 1]
<1>. USE Bounds
<1>1. /\ TypeOK /\ Accounting /\ FifoOrder /\ Numbered
      /\ enqueued \in Nat /\ Len(dq) \in Nat /\ Len(kept) \in Nat
  BY DEF IInv, TypeOK
<1>2. new \in Frame /\ new.seq = enqueued + 1
  BY <1>1 DEF Frame
<1>3. dq' = Append(kept, new)
  BY DEF Admit
<1>. HIDE DEF new
<1>4. /\ dq' \in Seq(Frame) /\ Len(dq') = Len(kept) + 1
      /\ \A i \in 1..Len(kept) : dq'[i] = kept[i]
      /\ dq'[Len(kept) + 1] = new
  BY <1>2, <1>3
<1>12. Len(dq') = Len(kept) + 1
  BY <1>4
<1>13. \A i \in 1..Len(dq') : i \in 1..Len(kept) \/ i = Len(kept) + 1
  BY <1>1, <1>12
<1>5. /\ enqueued' = enqueued + 1 /\ UNCHANGED dequeued
      /\ dropped' = dropped + victims
      /\ droppedMotion' = droppedMotion + motionVictims
      /\ peak' = MaxOf(peak, Len(dq'))
  BY DEF Admit
<1>6. TypeOK'
  <2>1. at' \in [Getters -> Places]
    BY <1>1 DEF TypeOK, Notify, Waiters, Notified, Places
  <2>2. peak' \in 0..MaxSize
    BY <1>1, <1>12, <1>5 DEF TypeOK, MaxOf
  <2>3. /\ enqueued' \in 0..MaxPuts /\ dequeued' \in Nat /\ dropped' \in Nat
        /\ droppedMotion' \in Nat
    BY <1>1, <1>5 DEF TypeOK
  <2>4. dq' \in Seq(Frame) /\ closed' \in BOOLEAN /\ stopping' \in BOOLEAN /\ got' \in [Getters -> Frame \cup {None}]
    BY <1>1, <1>4 DEF TypeOK
  <2>. QED
    BY <2>1, <2>2, <2>3, <2>4 DEF TypeOK
<1>7. Accounting'
  <2>1. /\ dequeued \in Nat /\ dropped \in Nat /\ droppedMotion \in Nat /\ peak \in Nat
    BY <1>1 DEF TypeOK
  <2>2. Len(dq') <= MaxSize /\ Len(dq') <= peak' /\ peak' <= MaxSize
    <3>1. Len(dq') <= MaxSize /\ peak <= MaxSize
      BY <1>1, <1>12 DEF Accounting
    <3>2. Len(dq') \in Nat
      BY <1>1, <1>12
    <3>. QED
      BY <1>5, <2>1, <3>1, <3>2, MaxOfFacts
  <2>3. enqueued' = dequeued' + dropped' + Len(dq')
    BY <1>1, <1>5, <1>12, <2>1 DEF Accounting
  <2>4. droppedMotion' <= dropped'
    BY <1>1, <1>5, <2>1 DEF Accounting
  <2>. QED
    BY <2>2, <2>3, <2>4 DEF Accounting
<1>8. ASSUME NEW i \in 1..Len(kept)
      PROVE  kept[i].seq <= enqueued /\ kept[i].seq \in Nat
  <2>1. PICK k \in 1..Len(dq) : kept[i] = dq[k]
    BY DEF DrawnFrom
  <2>2. kept[i] \in Frame
    OBVIOUS
  <2>. QED
    BY <1>1, <2>1, <2>2 DEF Numbered, Frame
<1>9. \A g \in Getters : got[g] # None => got[g].seq <= enqueued /\ got[g].seq \in Nat
  BY <1>1 DEF TypeOK, Numbered, Frame
<1>14. enqueued \in Nat
  BY <1>1
<1>10. Numbered'
  <2>1. ASSUME NEW i \in 1..Len(dq') PROVE dq'[i].seq <= enqueued + 1
    <3>1. CASE i \in 1..Len(kept)
      <4>1. dq'[i] = kept[i] /\ kept[i].seq <= enqueued /\ kept[i].seq \in Nat
        BY <1>4, <1>8, <3>1
      <4>. QED
        BY <1>14, <4>1
    <3>2. CASE i = Len(kept) + 1
      <4>1. dq'[i].seq = enqueued + 1
        BY <1>2, <1>4, <3>2
      <4>. QED
        BY <1>14, <4>1
    <3>. QED
      BY <1>13, <3>1, <3>2
  <2>2. \A g \in Getters : got[g] # None => got[g].seq <= enqueued + 1
    BY <1>1, <1>9
  <2>. QED
    BY <1>5, <2>1, <2>2 DEF Numbered
<1>11. FifoOrder'
  <2>1. ASSUME NEW i \in 1..Len(dq'), NEW j \in 1..Len(dq'), i < j
        PROVE  dq'[i].seq < dq'[j].seq
    <3>1. i \in 1..Len(kept)
      BY <1>1, <1>12, <2>1
    <3>2. dq'[i] = kept[i] /\ kept[i].seq < enqueued + 1
      <4>1. dq'[i] = kept[i] /\ kept[i].seq <= enqueued /\ kept[i].seq \in Nat
        BY <1>4, <1>8, <3>1
      <4>. QED
        BY <1>14, <4>1
    <3>3. CASE j = Len(kept) + 1
      BY <1>2, <1>4, <3>2, <3>3
    <3>4. CASE j \in 1..Len(kept)
      BY <1>4, <2>1, <3>1, <3>4 DEF InOrder
    <3>. QED
      BY <1>13, <3>3, <3>4
  <2>2. ASSUME NEW g \in Getters, NEW i \in 1..Len(dq'), got[g] # None
        PROVE  got[g].seq < dq'[i].seq
    <3>1. CASE i = Len(kept) + 1
      <4>1. dq'[i] = new /\ got[g].seq <= enqueued /\ got[g].seq \in Nat
        BY <1>4, <1>9, <2>2, <3>1
      <4>. QED
        BY <1>1, <1>2, <4>1
    <3>2. CASE i \in 1..Len(kept)
      <4>1. PICK k \in 1..Len(dq) : kept[i] = dq[k]
        BY <3>2 DEF DrawnFrom
      <4>. QED
        BY <1>1, <1>4, <2>2, <3>2, <4>1 DEF FifoOrder
    <3>. QED
      BY <1>13, <3>1, <3>2
  <2>. QED
    BY <2>1, <2>2 DEF FifoOrder
<1>. QED
  BY <1>6, <1>7, <1>10, <1>11 DEF IInv

LEMMA PutStep ==
  ASSUME IInv, NEW p \in Payloads, NEW b \in BOOLEAN, Put(p, b)
  PROVE  IInv'
<1>. USE Bounds
<1>1. /\ dq \in Seq(Frame) /\ Len(dq) <= MaxSize /\ Len(dq) \in Nat
      /\ InOrder(dq) /\ DrawnFrom(dq, dq)
  BY DEF IInv, TypeOK, Accounting, FifoOrder, InOrder, DrawnFrom
<1>2. Notify /\ UNCHANGED <<closed, stopping, got>> /\ enqueued < MaxPuts
  BY DEF Put
<1>3. CASE Len(dq) < MaxSize /\ Admit(dq, 0, 0, p, b)
  BY <1>1, <1>2, <1>3, AdmitStep
<1>4. CASE /\ Len(dq) >= MaxSize
           /\ \E i \in OldestNonMotion(dq) : Admit(Without(dq, i), 1, 0, p, b)
  <2>1. PICK i \in 1..Len(dq) : Admit(Without(dq, i), 1, 0, p, b)
    BY <1>4 DEF OldestNonMotion
  <2>2. /\ Without(dq, i) \in Seq(Frame)
        /\ Len(Without(dq, i)) = Len(dq) - 1
        /\ \A j \in 1..(Len(dq) - 1) :
             Without(dq, i)[j] = IF j < i THEN dq[j] ELSE dq[j + 1]
    BY <1>1, WithoutFacts
  <2> DEFINE old(j) == IF j < i THEN j ELSE j + 1
  <2>5. \A j \in 1..(Len(dq) - 1) :
          old(j) \in 1..Len(dq) /\ Without(dq, i)[j] = dq[old(j)]
    BY <1>1, <2>2
  <2>6. \A j, k \in 1..(Len(dq) - 1) : j < k => old(j) < old(k)
    BY <1>1
  <2>. HIDE DEF old
  <2>3. InOrder(Without(dq, i))
    BY <1>1, <2>2, <2>5, <2>6 DEF InOrder
  <2>4. DrawnFrom(Without(dq, i), dq)
    BY <2>2, <2>5 DEF DrawnFrom
  <2>. QED
    BY <1>1, <1>2, <2>1, <2>2, <2>3, <2>4, AdmitStep
<1>5. CASE Len(dq) >= MaxSize /\ AllMotion(dq) /\ Admit(Tail(dq), 1, 1, p, b)
  <2>1. dq # <<>>
    BY <1>1, <1>5
  <2>2. /\ Tail(dq) \in Seq(Frame) /\ Len(Tail(dq)) = Len(dq) - 1
        /\ \A j \in 1..(Len(dq) - 1) : Tail(dq)[j] = dq[j + 1]
    BY <1>1, <2>1, TailFacts
  <2>3. InOrder(Tail(dq))
    BY <1>1, <2>2 DEF InOrder
  <2>4. DrawnFrom(Tail(dq), dq)
    <3>1. ASSUME NEW j \in 1..Len(Tail(dq))
          PROVE  j + 1 \in 1..Len(dq) /\ Tail(dq)[j] = dq[j + 1]
      BY <1>1, <2>2
    <3>. QED
      BY <3>1 DEF DrawnFrom
  <2>5. Len(Tail(dq)) = Len(dq) - 1 /\ Len(Tail(dq)) < MaxSize
    BY <1>1, <2>2
  <2>6. Tail(dq) \in Seq(Frame) /\ Admit(Tail(dq), 1, 1, p, b)
    BY <1>5, <2>2
  <2>7. 1 \in 0..1 /\ 1 <= 1
    OBVIOUS
  <2>. QED
    BY <1>2, <2>3, <2>4, <2>5, <2>6, <2>7, AdmitStep, Zenon
<1>. QED
  BY <1>3, <1>4, <1>5 DEF Put

-----------------------------------------------------------------------------
(* get, and the steps that leave the queue alone.                          *)

LEMMA GetStep ==
  ASSUME IInv, NEW g \in Getters, Get(g)
  PROVE  IInv'
<1>. USE Bounds
<1>. TypeOK /\ Accounting /\ FifoOrder /\ Numbered
  BY DEF IInv
<1>1. CASE dq # <<>> /\ Take(g) /\ at' = [at EXCEPT ![g] = "out"] /\ UNCHANGED <<closed, stopping>>
  <2>1. /\ dq' \in Seq(Frame) /\ Len(dq') = Len(dq) - 1
        /\ \A j \in 1..(Len(dq) - 1) : dq'[j] = dq[j + 1]
        /\ got' = [got EXCEPT ![g] = dq[1]]
        /\ dq[1] \in Frame /\ Len(dq) > 0 /\ Len(dq) \in Nat
    BY <1>1, TailFacts DEF TypeOK, Take
  <2>2. dequeued' = dequeued + 1 /\ UNCHANGED <<enqueued, dropped, droppedMotion, peak>>
    BY <1>1 DEF Take
  <2>3. TypeOK'
    <3>1. at' \in [Getters -> Places]
      BY <1>1 DEF TypeOK, Places
    <3>2. got' \in [Getters -> Frame \cup {None}]
      BY <2>1 DEF TypeOK
    <3>. QED
      BY <1>1, <2>1, <2>2, <3>1, <3>2 DEF TypeOK
  <2>4. Accounting'
    <3>1. Len(dq') = Len(dq) - 1 /\ Len(dq) \in Nat
      BY <2>1
    <3>2. /\ enqueued \in Nat /\ dequeued \in Nat /\ dropped \in Nat /\ peak \in Nat
      BY DEF TypeOK
    <3>. QED
      BY <2>2, <3>1, <3>2 DEF Accounting
  <2>5. \A j \in 1..Len(dq') : j + 1 \in 1..Len(dq) /\ dq'[j] = dq[j + 1] /\ 1 < j + 1
    BY <2>1
  <2>6. FifoOrder'
    <3>1. \A i, j \in 1..Len(dq') : i < j => dq'[i].seq < dq'[j].seq
      <4> SUFFICES ASSUME NEW i \in 1..Len(dq'), NEW j \in 1..Len(dq'), i < j
                   PROVE  dq'[i].seq < dq'[j].seq
        OBVIOUS
      <4>1. i + 1 < j + 1
        OBVIOUS
      <4>. QED
        BY <2>5, <4>1 DEF FifoOrder
    <3>2. ASSUME NEW h \in Getters, NEW i \in 1..Len(dq'), got'[h] # None
          PROVE  got'[h].seq < dq'[i].seq
      <4>1. CASE h = g
        <5>1. got'[h] = dq[1]
          BY <2>1, <4>1 DEF TypeOK
        <5>2. 1 \in 1..Len(dq) /\ i + 1 \in 1..Len(dq) /\ 1 < i + 1 /\ dq'[i] = dq[i + 1]
          BY <2>1, <2>5
        <5>3. dq[1].seq < dq[i + 1].seq
          BY <5>2 DEF FifoOrder
        <5>. QED
          BY <5>1, <5>2, <5>3
      <4>2. CASE h # g
        BY <2>1, <2>5, <3>2, <4>2 DEF FifoOrder, TypeOK
      <4>. QED
        BY <4>1, <4>2
    <3>. QED
      BY <3>1, <3>2 DEF FifoOrder
  <2>7. Numbered'
    <3>1. 1 \in 1..Len(dq)
      BY <2>1
    <3>. QED
      BY <2>1, <2>2, <2>5, <3>1 DEF TypeOK, Numbered
  <2>. QED
    BY <2>3, <2>4, <2>6, <2>7 DEF IInv
<1>2. CASE /\ UNCHANGED <<dq, metricVars, closed, stopping>>
           /\ got' = got \/ got' = [got EXCEPT ![g] = None]
           /\ \E s \in {"out", "waiting"} : at' = [at EXCEPT ![g] = s]
  BY <1>2 DEF IInv, TypeOK, Accounting, FifoOrder, Numbered, metricVars, Places
<1>. QED
  BY <1>1, <1>2 DEF Get

LEMMA QuietStep ==
  ASSUME IInv,
         \/ \E g \in Getters : \/ EnterGet(g) \/ Expire(g) \/ GiveUp(g)
                               \/ EncodeRaises(g)
         \/ StopCapture \/ Close \/ UNCHANGED vars
  PROVE  IInv'
<1>. USE DEF IInv, TypeOK, Accounting, FifoOrder, Numbered, Places
<1>1. CASE \E g \in Getters : Expire(g)
  BY <1>1 DEF Expire, queueVars, metricVars
<1>2. CASE \E g \in Getters : GiveUp(g)
  BY <1>2 DEF GiveUp, queueVars, metricVars
<1>3. CASE Close
  BY <1>3 DEF Close, Waiters, Notified, metricVars
<1>4. CASE UNCHANGED vars
  BY <1>4 DEF vars, queueVars, metricVars
<1>5. CASE \E g \in Getters : EnterGet(g)
  BY <1>5 DEF EnterGet, queueVars, metricVars
<1>6. CASE \E g \in Getters : EncodeRaises(g)
  BY <1>6 DEF EncodeRaises, queueVars, metricVars
<1>7. CASE StopCapture
  BY <1>7 DEF StopCapture, queueVars, metricVars
<1>. QED
  BY <1>1, <1>2, <1>3, <1>4, <1>5, <1>6, <1>7

LEMMA Inductive == Spec => []IInv
<1>1. Init => IInv
  <2>. SUFFICES ASSUME Init PROVE IInv
    OBVIOUS
  <2>1. dq = <<>> /\ dq \in Seq(Frame) /\ Len(dq) = 0 /\ \A g \in Getters : got[g] = None
    BY DEF Init
  <2>2. TypeOK
    <3>1. /\ enqueued \in 0..MaxPuts /\ dequeued \in Nat /\ dropped \in Nat
          /\ droppedMotion \in Nat /\ peak \in 0..MaxSize
      BY Bounds DEF Init
    <3>4. closed \in BOOLEAN /\ stopping \in BOOLEAN
      BY DEF Init
    <3>2. at \in [Getters -> Places]
      BY DEF Init, Places
    <3>3. got \in [Getters -> Frame \cup {None}]
      BY DEF Init
    <3>. QED
      BY <2>1, <3>1, <3>2, <3>3, <3>4 DEF TypeOK
  <2>3. Accounting /\ FifoOrder /\ Numbered
    BY <2>1, Bounds DEF Init, Accounting, FifoOrder, Numbered
  <2>. QED
    BY <2>2, <2>3 DEF IInv
<1>2. IInv /\ [Next]_vars => IInv'
  BY PutStep, GetStep, QuietStep DEF Next, Work
<1>. QED
  BY <1>1, <1>2, PTL DEF Spec

-----------------------------------------------------------------------------

\* The queue never holds more than maxsize frames, and QueueMetrics accounts
\* for every frame that was put.
THEOREM EveryFrameCounted == Spec => []Accounting
  BY Inductive, PTL DEF IInv

\* get() hands frames out in the order put() took them in, whatever was shed
\* in between.
THEOREM FramesInOrder == Spec => []FifoOrder
  BY Inductive, PTL DEF IInv

\* A step that is not a forced high-value drop keeps or hands out every
\* motion frame.
LEMMA MotionStep ==
  ASSUME IInv, [Next]_vars, NEW i \in 1..Len(dq), dq[i].motion,
         ~ \E j \in 1..Len(dq') : dq'[j] = dq[i],
         ~ \E g \in Getters : got'[g] = dq[i]
  PROVE  /\ Len(dq) = MaxSize
         /\ \A j \in 1..Len(dq) : dq[j].motion
         /\ droppedMotion' = droppedMotion + 1
<1>. USE Bounds
<1>1. dq \in Seq(Frame) /\ Len(dq) \in Nat /\ Len(dq) <= MaxSize
      /\ got \in [Getters -> Frame \cup {None}]
  BY DEF IInv, TypeOK, Accounting
<1>2. CASE UNCHANGED dq
  BY <1>1, <1>2
<1>3. ASSUME NEW p \in Payloads, NEW b \in BOOLEAN, Put(p, b)
      PROVE  Len(dq) = MaxSize /\ AllMotion(dq) /\ droppedMotion' = droppedMotion + 1
  <2> DEFINE new == [payload |-> p, motion |-> b, seq |-> enqueued + 1]
  <2>1. new \in Frame
    BY DEF Frame, IInv, TypeOK
  <2>. HIDE DEF new
  <2>2. ASSUME NEW kept \in Seq(Frame), dq' = Append(kept, new), NEW j \in 1..Len(kept)
        PROVE  kept[j] # dq[i]
    <3>1. j \in 1..Len(dq') /\ dq'[j] = kept[j]
      BY <2>1, <2>2
    <3>. QED
      BY <3>1
  <2>3. CASE Admit(dq, 0, 0, p, b)
    <3>1. dq' = Append(dq, new)
      BY <2>3 DEF Admit, new
    <3>. QED
      BY <1>1, <2>2, <3>1
  <2>4. CASE \E v \in OldestNonMotion(dq) : Admit(Without(dq, v), 1, 0, p, b)
    <3>1. PICK v \in 1..Len(dq) : ~ dq[v].motion /\ Admit(Without(dq, v), 1, 0, p, b)
      BY <2>4 DEF OldestNonMotion
    <3>2. dq' = Append(Without(dq, v), new)
      BY <3>1 DEF Admit, new
    <3>3. /\ Without(dq, v) \in Seq(Frame) /\ Len(Without(dq, v)) = Len(dq) - 1
          /\ \A j \in 1..(Len(dq) - 1) :
               Without(dq, v)[j] = IF j < v THEN dq[j] ELSE dq[j + 1]
      BY <1>1, WithoutFacts
    <3>4. i # v
      BY <3>1
    <3>5. \E j \in 1..(Len(dq) - 1) : Without(dq, v)[j] = dq[i]
      <4>1. CASE i < v
        BY <1>1, <3>3, <4>1
      <4>2. CASE v < i
        <5>1. i - 1 \in 1..(Len(dq) - 1) /\ ~ (i - 1 < v) /\ (i - 1) + 1 = i
          BY <1>1, <4>2
        <5>. QED
          BY <3>3, <5>1
      <4>. QED
        BY <1>1, <3>4, <4>1, <4>2
    <3>. QED
      BY <2>2, <3>2, <3>3, <3>5
  <2>5. CASE /\ Len(dq) >= MaxSize /\ AllMotion(dq)
             /\ Admit(Tail(dq), 1, 1, p, b)
    BY <1>1, <2>5 DEF Admit
  <2>. QED
    BY <1>3, <2>3, <2>4, <2>5 DEF Put
<1>4. ASSUME NEW g \in Getters, Get(g), dq' # dq PROVE FALSE
  <2>1. dq # <<>> /\ dq' = Tail(dq) /\ got' = [got EXCEPT ![g] = Head(dq)]
    BY <1>4 DEF Get, Take
  <2>2. /\ Len(Tail(dq)) = Len(dq) - 1
        /\ \A j \in 1..(Len(dq) - 1) : Tail(dq)[j] = dq[j + 1]
        /\ Head(dq) = dq[1]
    BY <1>1, <2>1, TailFacts
  <2>3. CASE i = 1
    BY <1>1, <2>1, <2>2, <2>3
  <2>4. CASE i # 1
    <3>1. i - 1 \in 1..(Len(dq) - 1) /\ (i - 1) + 1 = i
      BY <1>1, <2>4
    <3>. QED
      BY <2>1, <2>2, <3>1
  <2>. QED
    BY <2>3, <2>4
<1>. QED
  BY <1>2, <1>3, <1>4
  DEF Next, Work, EnterGet, EncodeRaises, StopCapture, Expire, GiveUp, Close,
      queueVars, vars, AllMotion

\* put() sheds a motion frame only when the queue is full of motion frames, and
\* counts it.
THEOREM MotionShedOnlyWhenAllMotion == Spec => MotionIsShedLast
<1>1. IInv /\ [Next]_vars =>
        \A i \in 1..Len(dq) :
          LET kept == \E j \in 1..Len(dq') : dq'[j] = dq[i]
              taken == \E g \in Getters : got'[g] = dq[i]
          IN  dq[i].motion /\ ~ kept /\ ~ taken
                => /\ Len(dq) = MaxSize
                   /\ \A j \in 1..Len(dq) : dq[j].motion
                   /\ droppedMotion' = droppedMotion + 1
  BY MotionStep
<1>. QED
  BY Inductive, <1>1, PTL DEF Spec, MotionIsShedLast

-----------------------------------------------------------------------------
(* The queue implements the lossy FIFO.                                    *)

Entries(s) == {s[i] : i \in 1..Len(s)}

\* Numbers tell the queued frames apart.
LEMMA Distinct ==
  ASSUME IInv, NEW i \in 1..Len(dq), NEW j \in 1..Len(dq), i # j
  PROVE  dq[i] # dq[j]
<1>1. dq \in Seq(Frame) /\ dq[i] \in Frame /\ dq[j] \in Frame
  BY DEF IInv, TypeOK
<1>2. dq[i].seq \in Nat /\ dq[j].seq \in Nat
  BY <1>1 DEF Frame
<1>3. dq[i].seq < dq[j].seq \/ dq[j].seq < dq[i].seq
  BY DEF IInv, FifoOrder
<1>. QED
  BY <1>2, <1>3

LEMMA HeldEntries ==
  /\ Held = Entries(dq)
  /\ Held' = Entries(dq')
  /\ UNCHANGED dq => UNCHANGED Held
  BY DEF Held, Entries

LEMMA AppendedEntries ==
  ASSUME NEW s \in Seq(Frame), NEW e \in Frame
  PROVE  Entries(Append(s, e)) = Entries(s) \cup {e}
<1>1. /\ Len(Append(s, e)) = Len(s) + 1 /\ Len(s) \in Nat
      /\ \A i \in 1..Len(s) : Append(s, e)[i] = s[i]
      /\ Append(s, e)[Len(s) + 1] = e
  OBVIOUS
<1>2. 1..(Len(s) + 1) = (1..Len(s)) \cup {Len(s) + 1}
  BY <1>1
<1>. QED
  BY <1>1, <1>2 DEF Entries

\* What is left of the queue without its v-th frame.
LEMMA EntriesLeft ==
  ASSUME IInv, NEW v \in 1..Len(dq), NEW kept \in Seq(Frame),
         Len(kept) = Len(dq) - 1,
         \A j \in 1..(Len(dq) - 1) : kept[j] = IF j < v THEN dq[j] ELSE dq[j + 1]
  PROVE  Entries(kept) = Entries(dq) \ {dq[v]}
<1>1. Len(dq) \in Nat
  BY DEF IInv, TypeOK
<1>2. ASSUME NEW j \in 1..Len(kept) PROVE kept[j] \in Entries(dq) \ {dq[v]}
  <2>1. CASE j < v
    <3>1. j \in 1..Len(dq) /\ j # v /\ kept[j] = dq[j]
      BY <1>1, <2>1
    <3>. QED
      BY <3>1, Distinct DEF Entries
  <2>2. CASE ~ j < v
    <3>1. j + 1 \in 1..Len(dq) /\ j + 1 # v /\ kept[j] = dq[j + 1]
      BY <1>1, <2>2
    <3>. QED
      BY <3>1, Distinct DEF Entries
  <2>. QED
    BY <2>1, <2>2
<1>3. ASSUME NEW i \in 1..Len(dq), i # v PROVE dq[i] \in Entries(kept)
  <2>1. CASE i < v
    <3>1. i \in 1..Len(kept) /\ kept[i] = dq[i]
      BY <1>1, <2>1
    <3>. QED
      BY <3>1 DEF Entries
  <2>2. CASE v < i
    <3>1. i - 1 \in 1..Len(kept) /\ ~ (i - 1 < v) /\ (i - 1) + 1 = i
      BY <1>1, <2>2
    <3>2. kept[i - 1] = dq[i]
      BY <1>1, <3>1
    <3>. QED
      BY <3>1, <3>2 DEF Entries
  <2>. QED
    BY <1>1, <1>3, <2>1, <2>2
<1>. QED
  BY <1>2, <1>3 DEF Entries

LEMMA PutAccepts ==
  ASSUME IInv, NEW p \in Payloads, NEW b \in BOOLEAN, Put(p, b)
  PROVE  Fifo!Accept(p, b)
<1>. USE Bounds
<1> DEFINE new == [payload |-> p, motion |-> b, seq |-> enqueued + 1]
<1>1. /\ dq \in Seq(Frame) /\ Len(dq) \in Nat /\ Len(dq) <= MaxSize
      /\ new \in Frame /\ enqueued - (dequeued + dropped) = Len(dq)
      /\ dequeued \in Nat /\ dropped \in Nat
  BY DEF IInv, TypeOK, Accounting, Frame
<1>2. enqueued < MaxPuts /\ enqueued' = enqueued + 1 /\ got' = got
  BY DEF Put, Admit
<1>3. ASSUME NEW v \in 1..Len(dq), NEW kept \in Seq(Frame), Len(dq) >= MaxSize,
             Entries(kept) = Held \ {dq[v]}, dq' = Append(kept, new),
             dq[v].motion => AllMotion(dq)
      PROVE  /\ enqueued - (dequeued + dropped) = MaxSize
             /\ \E f \in Held :
                  /\ f.motion => \A h \in Held : h.motion
                  /\ Held' = (Held \ {f}) \cup {new}
  <2>. HIDE DEF new
  <2>1. Held' = Entries(kept) \cup {new}
    <3>1. Entries(dq') = Entries(kept) \cup {new}
      BY <1>1, <1>3, AppendedEntries
    <3>. QED
      BY <3>1, HeldEntries
  <2>2. dq[v] \in Held /\ (dq[v].motion => \A h \in Held : h.motion)
    BY <1>3 DEF Held, AllMotion
  <2>. QED
    BY <1>1, <1>3, <2>1, <2>2
<1>4. CASE Len(dq) < MaxSize /\ Admit(dq, 0, 0, p, b)
  <2>1. dq' = Append(dq, new)
    BY <1>4 DEF Admit
  <2>. HIDE DEF new
  <2>3. dequeued' + dropped' = dequeued + dropped
    BY <1>1, <1>4 DEF Admit
  <2>2. Held' = Held \cup {new}
    <3>1. Entries(dq') = Held \cup {new}
      BY <1>1, <2>1, AppendedEntries, HeldEntries
    <3>. QED
      BY <3>1, HeldEntries
  <2>. QED
    BY <1>1, <1>2, <1>4, <2>2, <2>3 DEF Fifo!Accept, Fifo!Fresh, new
<1>5. CASE /\ Len(dq) >= MaxSize
           /\ \E v \in OldestNonMotion(dq) : Admit(Without(dq, v), 1, 0, p, b)
  <2>1. PICK v \in 1..Len(dq) : ~ dq[v].motion /\ Admit(Without(dq, v), 1, 0, p, b)
    BY <1>5 DEF OldestNonMotion
  <2>2. /\ Without(dq, v) \in Seq(Frame)
        /\ Entries(Without(dq, v)) = Held \ {dq[v]}
    BY <1>1, WithoutFacts, EntriesLeft, HeldEntries
  <2>3. dq' = Append(Without(dq, v), new) /\ dequeued' + dropped' = dequeued + dropped + 1
    BY <1>1, <2>1 DEF Admit
  <2>. HIDE DEF new
  <2>4. /\ enqueued - (dequeued + dropped) = MaxSize
        /\ \E f \in Held :
             /\ f.motion => \A h \in Held : h.motion
             /\ Held' = (Held \ {f}) \cup {new}
    BY <1>3, <1>5, <2>1, <2>2, <2>3
  <2>. QED
    BY <1>2, <2>3, <2>4 DEF Fifo!Accept, Fifo!Sheddable, Fifo!Fresh, new
<1>6. CASE Len(dq) >= MaxSize /\ AllMotion(dq) /\ Admit(Tail(dq), 1, 1, p, b)
  <2>1. dq # <<>> /\ 1 \in 1..Len(dq)
    BY <1>1, <1>6
  <2>2. /\ Tail(dq) \in Seq(Frame) /\ Len(Tail(dq)) = Len(dq) - 1
        /\ \A j \in 1..(Len(dq) - 1) : Tail(dq)[j] = IF j < 1 THEN dq[j] ELSE dq[j + 1]
    BY <1>1, <2>1, TailFacts
  <2>3. Entries(Tail(dq)) = Held \ {dq[1]}
    BY <2>1, <2>2, EntriesLeft, HeldEntries
  <2>4. dq' = Append(Tail(dq), new) /\ dequeued' + dropped' = dequeued + dropped + 1
    BY <1>1, <1>6 DEF Admit
  <2>. HIDE DEF new
  <2>5. /\ enqueued - (dequeued + dropped) = MaxSize
        /\ \E f \in Held :
             /\ f.motion => \A h \in Held : h.motion
             /\ Held' = (Held \ {f}) \cup {new}
    BY <1>3, <1>6, <2>1, <2>2, <2>3, <2>4
  <2>. QED
    BY <1>2, <2>4, <2>5 DEF Fifo!Accept, Fifo!Sheddable, Fifo!Fresh, new
<1>. QED
  BY <1>4, <1>5, <1>6 DEF Put

LEMMA GetDelivers ==
  ASSUME IInv, NEW g \in Getters, Get(g)
  PROVE  Fifo!Deliver(g) \/ Fifo!ReturnNothing(g) \/ UNCHANGED Fifo!vars
<1>1. dq \in Seq(Frame) /\ Len(dq) \in Nat
  BY DEF IInv, TypeOK
<1>2. CASE dq # <<>> /\ Take(g)
  <2>1. /\ 1 \in 1..Len(dq) /\ Head(dq) = dq[1] /\ dq' = Tail(dq)
        /\ got' = [got EXCEPT ![g] = dq[1]] /\ enqueued' = enqueued
    BY <1>1, <1>2 DEF Take
  <2>2. /\ Tail(dq) \in Seq(Frame) /\ Len(Tail(dq)) = Len(dq) - 1
        /\ \A j \in 1..(Len(dq) - 1) : Tail(dq)[j] = IF j < 1 THEN dq[j] ELSE dq[j + 1]
    BY <1>1, <1>2, TailFacts
  <2>5. dequeued' + dropped' = dequeued + dropped + 1
    BY <1>2 DEF IInv, TypeOK, Take
  <2>3. Held' = Held \ {dq[1]}
    <3>1. Entries(Tail(dq)) = Held \ {dq[1]}
      BY <2>1, <2>2, EntriesLeft, HeldEntries
    <3>. QED
      BY <2>1, <3>1, HeldEntries
  <2>4. dq[1] \in Held /\ \A h \in Held : dq[1].seq <= h.seq
    <3>1. ASSUME NEW i \in 1..Len(dq) PROVE dq[1].seq <= dq[i].seq
      <4>0. dq[1] \in Frame /\ dq[i] \in Frame
        BY <1>1, <2>1
      <4>1. dq[1].seq \in Nat /\ dq[i].seq \in Nat
        BY <4>0 DEF Frame
      <4>2. i = 1 \/ dq[1].seq < dq[i].seq
        BY <1>1, <2>1 DEF IInv, FifoOrder
      <4>. QED
        BY <4>1, <4>2
    <3>. QED
      BY <2>1, <3>1 DEF Held
  <2>. QED
    BY <2>1, <2>3, <2>4, <2>5 DEF Fifo!Deliver, Fifo!Oldest
<1>3. CASE dq = <<>> /\ UNCHANGED <<dq, metricVars, got>>
  BY <1>3, HeldEntries DEF Fifo!vars, metricVars
<1>4. CASE got' = [got EXCEPT ![g] = None] /\ UNCHANGED <<dq, metricVars>>
  BY <1>4, HeldEntries DEF Fifo!ReturnNothing, metricVars
<1>. QED
  BY <1>2, <1>3, <1>4 DEF Get

\* Whatever the threads do, a user of the queue sees a lossy FIFO: frames come
\* out oldest first, and only a full queue sheds, motion last.
THEOREM ImplementsLossyFifo == Spec => IsLossyFifo
<1>1. Init => Fifo!Init
  BY DEF Init, Fifo!Init, Held
<1>2. IInv /\ [Next]_vars => [Fifo!Next]_(Fifo!vars)
  <2>. SUFFICES ASSUME IInv, [Next]_vars PROVE [Fifo!Next]_(Fifo!vars)
    OBVIOUS
  <2>1. CASE \E p \in Payloads, b \in BOOLEAN : Put(p, b)
    BY <2>1, PutAccepts DEF Fifo!Next
  <2>2. CASE \E g \in Getters : Get(g)
    BY <2>2, GetDelivers DEF Fifo!Next
  <2>3. CASE \E g \in Getters : Expire(g)
    BY <2>3, HeldEntries DEF Expire, queueVars, metricVars, Fifo!vars
  <2>4. CASE \E g \in Getters : GiveUp(g)
    BY <2>4, HeldEntries DEF GiveUp, queueVars, metricVars, Fifo!Next, Fifo!ReturnNothing
  <2>5. CASE Close
    BY <2>5, HeldEntries DEF Close, metricVars, Fifo!vars
  <2>6. CASE UNCHANGED vars
    BY <2>6, HeldEntries DEF vars, queueVars, metricVars, Fifo!vars
  <2>7. CASE \E g \in Getters : EnterGet(g) \/ EncodeRaises(g)
    BY <2>7, HeldEntries DEF EnterGet, EncodeRaises, queueVars, metricVars, Fifo!vars
  <2>8. CASE StopCapture
    BY <2>8, HeldEntries DEF StopCapture, queueVars, metricVars, Fifo!vars
  <2>. QED
    BY <2>1, <2>2, <2>3, <2>4, <2>5, <2>6, <2>7, <2>8 DEF Next, Work
<1>. QED
  BY <1>1, <1>2, Inductive, PTL DEF Spec, IsLossyFifo, Fifo!Spec

-----------------------------------------------------------------------------
(* MotionEvents: what becomes of the frames behind the queue.              *)

\* How far an event can reach into the past when it is closed.
Span == PreRoll + MaxDuration - 1 + MaxPollGap

\* The sizes for which the recorder keeps what it saw: frames are encoded within
\* the pre-roll and the post-roll, there is a post-roll, and the buffer reaches
\* back to the beginning of the longest event, in seconds and in frames, of which
\* there is one a second.  The defaults (EventRecorderConfig: 10, 30 and 180
\* seconds, a poll a second; RollingBuffer: 300 seconds, 1024 frames) are such.
EventSizes ==
  /\ MaxLag <= PreRoll /\ MaxLag <= PostRoll /\ PostRoll > 0
  /\ Span <= Horizon /\ Span < 2 * MaxEntries - MaxLag

\* A frame is decoded at an odd instant, one at each, and queued in the order of
\* time; what has left the queue is older than what is in it.
FramesInv ==
  /\ \A f \in InFlight \cup written : f.ts % 2 = 1 /\ f.ts <= clock
  /\ \A f \in InFlight : clock - f.ts <= MaxLag
  /\ \A i, j \in DOMAIN queued : i < j => queued[i].ts < queued[j].ts
  /\ \A i \in DOMAIN queued : \A f \in encoding \cup written : f.ts < queued[i].ts
  /\ \A f \in encoding, g \in written : f.ts # g.ts
  /\ \A f, g \in encoding : f.ts = g.ts => f = g

\* The buffer has each frame once, ordered but for the lag of the workers, and
\* misses only frames that are too old for any event.
BufferInv ==
  /\ \A i \in DOMAIN buf : buf[i] \in written
  /\ \A i, j \in DOMAIN buf : i < j =>
       buf[i].ts # buf[j].ts /\ buf[i].ts <= buf[j].ts + MaxLag
  /\ \A f \in written : f.ts + Span >= clock => \E i \in DOMAIN buf : buf[i] = f

\* The open event: it began before the last poll and was not due then.
RecorderInv ==
  /\ lastPoll % 2 = 0 /\ lastPoll <= clock
  /\ mode = "running" /\ lastPoll # 0 => clock - lastPoll <= MaxPollGap
  /\ lastPoll = 0 => trigger = 0 /\ closing = {} /\ seen = {}
  /\ trigger = 0 => lastMotion = 0
  /\ trigger # 0 => /\ trigger < lastPoll /\ lastPoll - trigger < MaxDuration
                    /\ trigger <= lastMotion + MaxLag

\* The events that are being closed are told apart by their triggers, all before
\* that of the open event; a new one is within the reach of the buffer.
ClosingInv ==
  /\ \A c \in closing :
       /\ c.trigger < lastPoll /\ (trigger # 0 => c.trigger < trigger)
       /\ c.stage = "new" => c.from < c.to /\ c.from + Span >= clock
       /\ c.stage = "enriching" =>
            /\ c.trigger \in DOMAIN disk
            /\ disk[c.trigger] = [files |-> c.frames, index |-> c.frames]
  /\ \A c, d \in closing : c.trigger = d.trigger => c = d
  /\ mode = "drained" => closing = {}

\* An event on disk that nothing will overwrite.
Settled(t) ==
  /\ t < lastPoll /\ (trigger # 0 => t < trigger)
  /\ \A c \in closing : c.trigger = t => c.stage = "enriching"

\* Covered, and by a directory only if that will stay.
Kept(f) ==
  \/ trigger # 0 /\ Within(f, trigger - PreRoll, lastMotion + PostRoll)
  \/ \E c \in closing : IF c.stage = "new" THEN Within(f, c.from, c.to)
                                          ELSE f \in c.frames
  \/ \E t \in DOMAIN disk : f \in disk[t].files /\ f \in disk[t].index /\ Settled(t)

SeenInv == seen \subseteq written /\ \A f \in seen \ abandoned : Kept(f)

EventTypes == EventsTypeOK /\ IsFiniteSet(encoding) /\ DOMAIN disk \subseteq Times

EventInv == EventTypes /\ FramesInv /\ BufferInv /\ RecorderInv /\ ClosingInv /\ SeenInv

LEMMA EventBounds ==
  /\ Workers \in Nat /\ Horizon \in Nat /\ MaxEntries \in Nat /\ MaxEntries > 0
  /\ PreRoll \in Nat /\ PostRoll \in Nat /\ MaxDuration \in Nat /\ MaxDuration > 0
  /\ PollInterval \in Nat /\ PollInterval > 0 /\ MaxPollGap \in Nat
  /\ PollInterval <= MaxPollGap /\ MaxLag \in Nat /\ MaxTime \in Nat
  /\ Span \in Nat
  BY MotionEventsAssumption DEF Span

-----------------------------------------------------------------------------
(* Positions.                                                              *)

LEMMA LeastPosition ==
  ASSUME NEW T \in SUBSET Nat, T # {}
  PROVE  Min(T) \in T /\ \A t \in T : Min(T) <= t
<1> DEFINE R == {ss \in Nat \X Nat : ss[1] < ss[2]}
<1>1. IsWellFoundedOn(R, Nat)
  BY NatLessThanWellFounded DEF OpToRel
<1>. HIDE DEF R
<1>2. PICK x \in T : \A y \in T : <<y, x>> \notin R
  BY <1>1, WFMin
<1>3. ASSUME NEW y \in T PROVE x <= y
  <2>1. x \in Nat /\ y \in Nat /\ ~ (y < x)
    BY <1>2 DEF R
  <2>. QED
    BY <2>1
<1>. QED
  BY <1>3 DEF Min

LEMMA LastPosition ==
  ASSUME NEW n \in Nat, NEW T \in SUBSET (1..n), T # {}
  PROVE  Max(T) \in T /\ \A t \in T : t <= Max(T)
<1> DEFINE M == {n - t : t \in T}
<1>1. \A t \in T : n - t \in Nat /\ t \in Nat
  OBVIOUS
<1>2. M \in SUBSET Nat /\ M # {}
  BY <1>1
<1>3. PICK m \in M : \A k \in M : m <= k
  <2>. HIDE DEF M
  <2>. QED
    BY <1>2, LeastPosition
<1>4. PICK x \in T : m = n - x
  BY DEF M
<1>5. ASSUME NEW t \in T PROVE t <= x
  <2>1. m <= n - t
    BY <1>3
  <2>. QED
    BY <1>1, <1>4, <2>1
<1>. QED
  BY <1>5 DEF Max

\* A second has one odd instant: so many frames take so long.
LEMMA FramesTakeTime ==
  ASSUME NEW s \in Seq(BufferedFrame), Len(s) > 0, NEW a \in Int, NEW b \in Int,
         \A i \in 1..Len(s) : s[i].ts % 2 = 1 /\ a <= s[i].ts /\ s[i].ts <= b,
         \A i, j \in 1..Len(s) : i < j => s[i].ts # s[j].ts
  PROVE  2 * (Len(s) - 1) <= b - a
<1> DEFINE h == [i \in 1..Len(s) |-> s[i].ts \div 2]
           lo == a \div 2
           hi == (b - 1) \div 2
<1>1. \A i \in 1..Len(s) : s[i].ts \in Nat
  <2>1. \A i \in 1..Len(s) : s[i] \in BufferedFrame
    OBVIOUS
  <2>. QED
    BY <2>1, EventBounds DEF BufferedFrame, Times
<1>2. lo \in Int /\ hi \in Int /\ 2 * hi <= b - 1 /\ 2 * lo >= a - 1
  OBVIOUS
<1>3. ASSUME NEW i \in 1..Len(s)
      PROVE  s[i].ts = 2 * h[i] + 1 /\ h[i] \in lo..hi
  <2>1. s[i].ts \in Nat /\ s[i].ts % 2 = 1 /\ a <= s[i].ts /\ s[i].ts <= b
    BY <1>1
  <2>2. h[i] = s[i].ts \div 2
    OBVIOUS
  <2>. QED
    BY <2>1, <2>2
<1>4. h \in Injection(1..Len(s), lo..hi)
  <2>1. h \in [1..Len(s) -> lo..hi]
    BY <1>3
  <2>2. ASSUME NEW i \in 1..Len(s), NEW j \in 1..Len(s), h[i] = h[j] PROVE i = j
    <3>1. s[i].ts = s[j].ts
      BY <1>3, <2>2
    <3>2. ~ (i < j) /\ ~ (j < i)
      BY <3>1
    <3>. QED
      BY <3>2
  <2>. HIDE DEF h
  <2>. QED
    BY <2>1, <2>2 DEF Injection, IsInjective
<1>. HIDE DEF h, lo, hi
<1>5. /\ IsFiniteSet(lo..hi)
      /\ Cardinality(lo..hi) = IF lo > hi THEN 0 ELSE hi - lo + 1
  BY <1>2, FS_Interval
<1>6. Cardinality(1..Len(s)) <= Cardinality(lo..hi)
  BY <1>4, <1>5, FS_Injection
<1>7. Cardinality(1..Len(s)) = Len(s)
  <2>1. Len(s) \in Int /\ 1 \in Int /\ ~ (1 > Len(s))
    OBVIOUS
  <2>2. Cardinality(1..Len(s)) = IF 1 > Len(s) THEN 0 ELSE Len(s) - 1 + 1
    BY <2>1, FS_Interval
  <2>. QED
    BY <2>1, <2>2
<1>. QED
  <2>1. Len(s) \in Nat
    OBVIOUS
  <2>2. Len(s) <= (IF lo > hi THEN 0 ELSE hi - lo + 1)
    BY <1>5, <1>6, <1>7
  <2>3. Len(s) <= hi - lo + 1
    BY <2>1, <2>2, <1>2
  <2>. QED
    BY <2>1, <2>3, <1>2

\* What RollingBuffer.write takes from the head: frames that are older than the
\* horizon, and one more if that still leaves the buffer full.
LEMMA WrittenFacts ==
  ASSUME NEW s \in Seq(BufferedFrame), Len(s) <= MaxEntries, NEW f \in BufferedFrame
  PROVE  \E k \in 0..Len(s) :
           /\ Written(s, f) = Append(SubSeq(s, k + 1, Len(s)), f)
           /\ Len(s) - k < MaxEntries
           /\ \A i \in 1..k : \/ s[i].ts < f.ts - Horizon
                              \/ i = k /\ Len(s) - k + 1 = MaxEntries
<1> DEFINE recent == {i \in DOMAIN s : s[i].ts >= f.ts - Horizon}
           kept == Evict(s, f.ts - Horizon)
<1>1. /\ \A i \in 1..Len(s) : s[i].ts \in Nat
      /\ f.ts \in Nat /\ Horizon \in Nat /\ MaxEntries \in Nat /\ MaxEntries > 0
  <2>1. \A i \in 1..Len(s) : s[i] \in BufferedFrame
    OBVIOUS
  <2>. QED
    BY <2>1, EventBounds DEF BufferedFrame, Times
<1>2. \E m \in 0..Len(s) :
        /\ kept = SubSeq(s, m + 1, Len(s))
        /\ \A i \in 1..m : s[i].ts < f.ts - Horizon
  <2>1. CASE recent = {}
    <3>1. kept = << >>
      BY <2>1 DEF Evict
    <3>2. SubSeq(s, Len(s) + 1, Len(s)) = << >>
      OBVIOUS
    <3>3. \A i \in 1..Len(s) : s[i].ts < f.ts - Horizon
      BY <1>1, <2>1
    <3>4. Len(s) \in 0..Len(s)
      OBVIOUS
    <3>. QED
      <4>. HIDE DEF kept, recent
      <4>. QED
        BY <3>1, <3>2, <3>3, <3>4
  <2>2. CASE recent # {}
    <3>1. recent \in SUBSET Nat
      OBVIOUS
    <3>2. Min(recent) \in recent /\ \A t \in recent : Min(recent) <= t
      <4>. HIDE DEF recent
      <4>. QED
        BY <2>2, <3>1, LeastPosition
    <3>3. kept = SubSeq(s, Min(recent), Len(s))
      BY <2>2 DEF Evict
    <3>4. Min(recent) \in 1..Len(s)
      BY <3>2
    <3>5. \A i \in 1..(Min(recent) - 1) : s[i].ts < f.ts - Horizon
      <4> SUFFICES ASSUME NEW i \in 1..(Min(recent) - 1) PROVE s[i].ts < f.ts - Horizon
        OBVIOUS
      <4>1. i \in 1..Len(s) /\ ~ (Min(recent) <= i)
        BY <3>4
      <4>2. i \notin recent
        BY <3>2, <4>1
      <4>. QED
        BY <1>1, <4>1, <4>2
    <3>6. Min(recent) - 1 \in 0..Len(s) /\ Min(recent) - 1 + 1 = Min(recent)
      BY <3>4
    <3>. QED
      <4>. HIDE DEF recent
      <4>. QED
        BY <3>3, <3>5, <3>6
  <2>. QED
    BY <2>1, <2>2
<1>. HIDE DEF kept
<1>3. PICK m \in 0..Len(s) :
        /\ kept = SubSeq(s, m + 1, Len(s))
        /\ \A i \in 1..m : s[i].ts < f.ts - Horizon
  BY <1>2
<1>4. Len(kept) = Len(s) - m /\ Len(s) \in Nat
  BY <1>3
<1>5. Written(s, f) = Append(IF Len(kept) = MaxEntries THEN Tail(kept) ELSE kept, f)
  BY DEF Written, kept
<1>6. CASE Len(kept) # MaxEntries
  <2>1. Len(s) - m < MaxEntries
    BY <1>1, <1>4, <1>6
  <2>2. Written(s, f) = Append(SubSeq(s, m + 1, Len(s)), f)
    BY <1>3, <1>5, <1>6
  <2>. QED
    BY <1>3, <2>1, <2>2
<1>7. CASE Len(kept) = MaxEntries
  <2>1. m + 1 \in 0..Len(s) /\ Len(s) - (m + 1) < MaxEntries
    BY <1>1, <1>4, <1>7
  <2>2. Tail(kept) = SubSeq(s, m + 1 + 1, Len(s))
    <3>1. m + 1 \in 1..Len(s)
      BY <1>1, <1>4, <1>7
    <3>. QED
      BY <1>3, <3>1
  <2>3. ASSUME NEW i \in 1..(m + 1)
        PROVE  \/ s[i].ts < f.ts - Horizon
               \/ i = m + 1 /\ Len(s) - (m + 1) + 1 = MaxEntries
    <3>1. i \in 1..m \/ i = m + 1
      OBVIOUS
    <3>. QED
      BY <1>3, <1>4, <1>7, <3>1
  <2>. QED
    BY <1>5, <1>7, <2>1, <2>2, <2>3
<1>. QED
  BY <1>6, <1>7

-----------------------------------------------------------------------------
(* Types and frames.                                                       *)

LEMMA EventsStart == EventsInit => EventInv
<1> SUFFICES ASSUME EventsInit PROVE EventInv
  OBVIOUS
<1>1. /\ clock = 0 /\ disk = << >> /\ queued = << >> /\ encoding = {} /\ buf = << >>
      /\ lastPoll = 0 /\ trigger = 0 /\ lastMotion = 0 /\ closing = {}
      /\ mode = "running" /\ written = {} /\ seen = {} /\ abandoned = {}
  BY DEF EventsInit, Started
<1>2. EventTypes
  <2>1. DOMAIN disk = {} /\ Len(buf) = 0
    BY <1>1
  <2>2. IsFiniteSet(encoding) /\ Cardinality(encoding) = 0
    BY <1>1, FS_EmptySet
  <2>. QED
    BY <1>1, <2>1, <2>2, EventBounds DEF EventTypes, EventsTypeOK, Times
<1>3. InFlight = {} /\ DOMAIN queued = {} /\ DOMAIN buf = {}
  BY <1>1 DEF InFlight, ToSet
<1>4. FramesInv /\ BufferInv
  BY <1>1, <1>3 DEF FramesInv, BufferInv
<1>5. RecorderInv /\ ClosingInv
  BY <1>1 DEF RecorderInv, ClosingInv
<1>6. SeenInv
  BY <1>1 DEF SeenInv
<1>. QED
  BY <1>2, <1>4, <1>5, <1>6 DEF EventInv

\* A restart begins as the first start did, but later and beside a disk.
LEMMA RestartStep ==
  ASSUME EventInv, Restart
  PROVE  EventInv'
<1>1. /\ UNCHANGED <<clock, disk>> /\ queued' = << >> /\ encoding' = {} /\ buf' = << >>
      /\ lastPoll' = 0 /\ trigger' = 0 /\ lastMotion' = 0 /\ closing' = {}
      /\ mode' = "running" /\ written' = {} /\ seen' = {} /\ abandoned' = {}
  BY DEF Restart
<1>2. EventTypes'
  <2>1. Len(buf') = 0
    BY <1>1
  <2>2. IsFiniteSet(encoding') /\ Cardinality(encoding') = 0
    BY <1>1, FS_EmptySet
  <2>3. /\ clock \in Times /\ DOMAIN disk \subseteq Times
        /\ \A t \in DOMAIN disk :
             disk[t].files \subseteq BufferedFrame /\ disk[t].index \subseteq BufferedFrame
    BY DEF EventInv, EventTypes, EventsTypeOK
  <2>. QED
    BY <1>1, <2>1, <2>2, <2>3, EventBounds DEF EventTypes, EventsTypeOK, Times
<1>3. InFlight' = {} /\ (DOMAIN queued)' = {} /\ (DOMAIN buf)' = {}
  BY <1>1 DEF InFlight, ToSet
<1>4. FramesInv' /\ BufferInv'
  BY <1>1, <1>3 DEF FramesInv, BufferInv
<1>5. RecorderInv' /\ ClosingInv'
  <2>1. clock \in Nat
    BY DEF EventInv, EventTypes, EventsTypeOK, Times
  <2>. QED
    BY <1>1, <2>1 DEF RecorderInv, ClosingInv
<1>6. SeenInv'
  BY <1>1 DEF SeenInv
<1>. QED
  BY <1>2, <1>4, <1>5, <1>6 DEF EventInv

\* What a step of the recorder leaves alone, and what a step of the capture does.
RecorderRests == UNCHANGED recorderVars
CaptureRests  == UNCHANGED <<clock, captureVars>>

LEMMA FrameTimes ==
  ASSUME EventInv
  PROVE  /\ clock \in Nat
         /\ \A i \in DOMAIN queued : queued[i] \in InFlight /\ queued[i].ts \in Nat
         /\ \A f \in encoding : f \in InFlight /\ f.ts \in Nat
         /\ \A f \in InFlight \cup written : f.ts \in Nat
         /\ \A f \in BufferedFrame : f.ts \in Nat
<1>1. \A f \in BufferedFrame : f.ts \in Nat
  BY EventBounds DEF BufferedFrame, Times
<1>2. /\ clock \in Times /\ queued \in Seq(BufferedFrame)
      /\ encoding \subseteq BufferedFrame /\ written \subseteq BufferedFrame
  BY DEF EventInv, EventTypes, EventsTypeOK
<1>3. \A i \in DOMAIN queued : queued[i] \in BufferedFrame /\ queued[i] \in ToSet(queued)
  BY <1>2 DEF ToSet
<1>4. InFlight \subseteq BufferedFrame
  BY <1>2 DEF InFlight, ToSet
<1>5. clock \in Nat
  BY <1>2, EventBounds DEF Times
<1>6. encoding \subseteq InFlight /\ \A i \in DOMAIN queued : queued[i] \in InFlight
  BY <1>3 DEF InFlight
<1>. QED
  BY <1>1, <1>2, <1>4, <1>5, <1>6

LEMMA TickFrames ==
  ASSUME EventInv, Tick
  PROVE  FramesInv' /\ queued' \in Seq(BufferedFrame) /\ clock' \in Times
         /\ UNCHANGED <<encoding, buf, written>> /\ RecorderRests
         /\ clock' = clock + 1 /\ \A c \in closing : c.stage # "new"
<1>1. /\ clock < MaxTime /\ clock' = clock + 1
      /\ \A f \in InFlight : clock + 1 - f.ts <= MaxLag
      /\ \A c \in closing : c.stage # "new"
      /\ UNCHANGED <<encoding, buf, written>> /\ RecorderRests
  BY DEF Tick, RecorderRests
<1>2. /\ clock \in Nat /\ clock' \in Times /\ queued \in Seq(BufferedFrame)
  <2>1. clock \in Times /\ queued \in Seq(BufferedFrame)
    BY DEF EventInv, EventTypes, EventsTypeOK
  <2>. QED
    BY <1>1, <2>1, EventBounds DEF Times
<1>3. FramesInv
  BY DEF EventInv
<1>4. CASE UNCHANGED queued
  <2>1. InFlight' = InFlight
    BY <1>1, <1>4 DEF InFlight
  <2>2. \A f \in InFlight \cup written : f.ts <= clock'
    <3>1. \A f \in InFlight \cup written : f.ts <= clock /\ f.ts \in Nat
      BY <1>3, FrameTimes DEF FramesInv
    <3>. QED
      BY <1>1, <1>2, <3>1
  <2>3. ASSUME NEW f \in InFlight PROVE clock' - f.ts <= MaxLag
    <3>1. clock + 1 - f.ts <= MaxLag /\ clock' = clock + 1
      BY <1>1
    <3>. QED
      BY <1>2, <3>1, FrameTimes, EventBounds
  <2>. QED
    BY <1>1, <1>2, <1>3, <1>4, <2>1, <2>2, <2>3 DEF FramesInv
<1>5. ASSUME NEW m \in BOOLEAN, clock' % 2 = 1,
             queued' = Append(queued, [ts |-> clock', motion |-> m])
      PROVE  FramesInv' /\ queued' \in Seq(BufferedFrame)
  <2> DEFINE new == [ts |-> clock', motion |-> m]
  <2>1. new \in BufferedFrame /\ new.ts = clock'
    BY <1>2 DEF BufferedFrame
  <2>2. queued' = Append(queued, new)
    BY <1>5
  <2>. HIDE DEF new
  <2>3. /\ queued' \in Seq(BufferedFrame) /\ Len(queued') = Len(queued) + 1
        /\ DOMAIN queued = 1..Len(queued) /\ DOMAIN queued' = 1..(Len(queued) + 1)
        /\ \A i \in DOMAIN queued : queued'[i] = queued[i]
        /\ queued'[Len(queued) + 1] = new /\ Len(queued) \in Nat
    BY <1>2, <2>1, <2>2
  <2>4. \A i \in DOMAIN queued' : i \in DOMAIN queued \/ i = Len(queued) + 1
    BY <2>3
  <2>5. InFlight' = InFlight \cup {new}
    <3>1. ToSet(queued') = ToSet(queued) \cup {new}
      <4>1. ASSUME NEW f \in ToSet(queued') PROVE f \in ToSet(queued) \cup {new}
        BY <2>3, <2>4, <4>1 DEF ToSet
      <4>2. ASSUME NEW f \in ToSet(queued) PROVE f \in ToSet(queued')
        <5>1. PICK i \in DOMAIN queued : f = queued[i]
          BY <4>2 DEF ToSet
        <5>2. i \in DOMAIN queued' /\ queued'[i] = f
          BY <2>3, <5>1
        <5>. QED
          BY <5>2 DEF ToSet
      <4>3. new \in ToSet(queued')
        <5>1. Len(queued) + 1 \in DOMAIN queued'
          BY <2>3
        <5>. QED
          BY <2>3, <5>1 DEF ToSet
      <4>. QED
        BY <4>1, <4>2, <4>3
    <3>. QED
      BY <1>1, <3>1 DEF InFlight
  <2>6. \A f \in InFlight \cup written : f.ts \in Nat /\ f.ts <= clock /\ f.ts % 2 = 1
    BY <1>3, FrameTimes DEF FramesInv, InFlight, ToSet
  <2>7. \A f \in InFlight' \cup written' : f.ts % 2 = 1 /\ f.ts <= clock'
    BY <1>1, <1>2, <1>5, <2>1, <2>5, <2>6
  <2>8. ASSUME NEW f \in InFlight' PROVE clock' - f.ts <= MaxLag
    <3>1. CASE f \in InFlight
      <4>1. clock + 1 - f.ts <= MaxLag /\ clock' = clock + 1
        BY <1>1, <3>1
      <4>2. f.ts \in Nat /\ MaxLag \in Nat
        BY <3>1, FrameTimes, EventBounds
      <4>. QED
        BY <1>2, <4>1, <4>2
    <3>2. CASE f = new
      BY <1>1, <1>2, <2>1, <3>2, EventBounds
    <3>. QED
      BY <2>5, <3>1, <3>2
  <2>9. \A i, j \in DOMAIN queued' : i < j => queued'[i].ts < queued'[j].ts
    <3> SUFFICES ASSUME NEW i \in DOMAIN queued', NEW j \in DOMAIN queued', i < j
                 PROVE  queued'[i].ts < queued'[j].ts
      OBVIOUS
    <3>1. i \in DOMAIN queued
      BY <2>3, <2>4
    <3>2. queued[i] \in InFlight
      BY <3>1, FrameTimes
    <3>3. queued[i].ts <= clock /\ queued[i].ts \in Nat
      BY <2>6, <3>2
    <3>4. CASE j \in DOMAIN queued
      BY <1>3, <2>3, <3>1, <3>4 DEF FramesInv
    <3>5. CASE j = Len(queued) + 1
      BY <1>1, <1>2, <2>1, <2>3, <3>1, <3>3, <3>5
    <3>. QED
      BY <2>4, <3>4, <3>5
  <2>10. \A i \in DOMAIN queued' : \A f \in encoding \cup written : f.ts < queued'[i].ts
    <3> SUFFICES ASSUME NEW i \in DOMAIN queued', NEW f \in encoding \cup written
                 PROVE  f.ts < queued'[i].ts
      OBVIOUS
    <3>1. CASE i \in DOMAIN queued
      BY <1>3, <2>3, <3>1 DEF FramesInv
    <3>2. CASE i = Len(queued) + 1
      <4>1. f.ts \in Nat /\ f.ts <= clock
        BY <2>6 DEF InFlight
      <4>. QED
        BY <1>1, <1>2, <2>1, <2>3, <3>2, <4>1
    <3>. QED
      BY <2>4, <3>1, <3>2
  <2>. QED
    BY <1>1, <1>3, <2>3, <2>7, <2>8, <2>9, <2>10 DEF FramesInv
<1>6. \/ UNCHANGED queued
      \/ clock' % 2 = 1 /\ \E m \in BOOLEAN : queued' = Append(queued, [ts |-> clock', motion |-> m])
  BY DEF Tick
<1>. QED
  BY <1>1, <1>2, <1>4, <1>5, <1>6

LEMMA TakeFrames ==
  ASSUME EventInv, TakeFrame
  PROVE  /\ FramesInv' /\ queued' \in Seq(BufferedFrame)
         /\ encoding' \subseteq BufferedFrame /\ IsFiniteSet(encoding')
         /\ Cardinality(encoding') <= Workers
         /\ UNCHANGED <<clock, buf, written>> /\ RecorderRests
<1>1. /\ queued # << >> /\ Cardinality(encoding) < Workers
      /\ encoding' = encoding \cup {Head(queued)} /\ queued' = Tail(queued)
      /\ UNCHANGED <<clock, buf, written>> /\ RecorderRests
  BY DEF TakeFrame, RecorderRests
<1>2. /\ queued \in Seq(BufferedFrame) /\ encoding \subseteq BufferedFrame
      /\ IsFiniteSet(encoding) /\ FramesInv
  BY DEF EventInv, EventTypes, EventsTypeOK
<1>3. /\ Head(queued) = queued[1] /\ Head(queued) \in BufferedFrame /\ 1 \in DOMAIN queued
      /\ queued' \in Seq(BufferedFrame) /\ Len(queued') = Len(queued) - 1
      /\ \A i \in DOMAIN queued' : i + 1 \in DOMAIN queued /\ queued'[i] = queued[i + 1]
                                   /\ i \in Nat /\ i >= 1
  BY <1>1, <1>2
<1>4. IsFiniteSet(encoding') /\ Cardinality(encoding') <= Workers
  <2>1. /\ IsFiniteSet(encoding')
        /\ Cardinality(encoding') =
             IF Head(queued) \in encoding THEN Cardinality(encoding) ELSE Cardinality(encoding) + 1
    BY <1>1, <1>2, FS_AddElement
  <2>2. Cardinality(encoding) \in Nat
    BY <1>2, FS_CardinalityType
  <2>. QED
    BY <1>1, <2>1, <2>2, EventBounds
<1>5. InFlight' \subseteq InFlight
  <2>1. ToSet(queued') \subseteq ToSet(queued)
    BY <1>3 DEF ToSet
  <2>2. Head(queued) \in ToSet(queued)
    BY <1>3 DEF ToSet
  <2>. QED
    BY <1>1, <2>1, <2>2 DEF InFlight
<1>6. \A i, j \in DOMAIN queued' : i < j => queued'[i].ts < queued'[j].ts
  <2> SUFFICES ASSUME NEW i \in DOMAIN queued', NEW j \in DOMAIN queued', i < j
               PROVE  queued'[i].ts < queued'[j].ts
    OBVIOUS
  <2>1. i + 1 < j + 1 /\ i + 1 \in DOMAIN queued /\ j + 1 \in DOMAIN queued
    BY <1>3
  <2>. QED
    BY <1>2, <1>3, <2>1 DEF FramesInv
<1>7. \A i \in DOMAIN queued' : \A f \in encoding' \cup written' : f.ts < queued'[i].ts
  <2> SUFFICES ASSUME NEW i \in DOMAIN queued', NEW f \in encoding' \cup written'
               PROVE  f.ts < queued'[i].ts
    OBVIOUS
  <2>1. CASE f \in encoding \cup written
    BY <1>2, <1>3, <2>1 DEF FramesInv
  <2>2. CASE f = queued[1]
    <3>1. 1 < i + 1
      BY <1>3
    <3>. QED
      BY <1>2, <1>3, <2>2, <3>1 DEF FramesInv
  <2>. QED
    BY <1>1, <1>3, <2>1, <2>2
<1>8. \A f \in encoding', g \in written' : f.ts # g.ts
  <2> SUFFICES ASSUME NEW f \in encoding', NEW g \in written PROVE f.ts # g.ts
    BY <1>1
  <2>1. CASE f \in encoding
    BY <1>2, <2>1 DEF FramesInv
  <2>2. CASE f = queued[1]
    <3>1. g.ts < f.ts
      BY <1>2, <1>3, <2>2 DEF FramesInv
    <3>2. g.ts \in Nat /\ f.ts \in Nat
      BY <1>3, <2>2, FrameTimes
    <3>. QED
      BY <3>1, <3>2
  <2>. QED
    BY <1>1, <1>3, <2>1, <2>2
<1>9. /\ \A f \in InFlight' \cup written' : f.ts % 2 = 1 /\ f.ts <= clock'
      /\ \A f \in InFlight' : clock' - f.ts <= MaxLag
  BY <1>1, <1>2, <1>5 DEF FramesInv
<1>10. \A f, g \in encoding' : f.ts = g.ts => f = g
  <2>1. ASSUME NEW f \in encoding PROVE f.ts # queued[1].ts
    <3>1. f.ts < queued[1].ts
      BY <1>2, <1>3 DEF FramesInv
    <3>2. f.ts \in Nat /\ queued[1].ts \in Nat
      BY <1>3, FrameTimes
    <3>. QED
      BY <3>1, <3>2
  <2>2. \A f, g \in encoding : f.ts = g.ts => f = g
    BY <1>2 DEF FramesInv
  <2>. QED
    BY <1>1, <1>3, <2>1, <2>2
<1>. QED
  BY <1>1, <1>2, <1>3, <1>4, <1>6, <1>7, <1>8, <1>9, <1>10 DEF FramesInv

LEMMA WriteFrames ==
  ASSUME EventInv, NEW f \in encoding, WriteFrame(f)
  PROVE  /\ FramesInv' /\ UNCHANGED <<clock, queued>> /\ RecorderRests
         /\ encoding' \subseteq BufferedFrame /\ IsFiniteSet(encoding')
         /\ Cardinality(encoding') <= Workers
         /\ written' = written \cup {f} /\ f \in BufferedFrame /\ buf' = Written(buf, f)
<1>1. /\ encoding' = encoding \ {f} /\ written' = written \cup {f}
      /\ UNCHANGED <<clock, queued>> /\ RecorderRests /\ buf' = Written(buf, f)
  BY DEF WriteFrame, RecorderRests
<1>2. /\ encoding \subseteq BufferedFrame /\ IsFiniteSet(encoding)
      /\ Cardinality(encoding) <= Workers /\ FramesInv
  BY DEF EventInv, EventTypes, EventsTypeOK
<1>3. IsFiniteSet(encoding') /\ Cardinality(encoding') <= Workers
  <2>1. /\ IsFiniteSet(encoding') /\ Cardinality(encoding') = Cardinality(encoding) - 1
    BY <1>1, <1>2, FS_RemoveElement
  <2>2. Cardinality(encoding) \in Nat
    BY <1>2, FS_CardinalityType
  <2>. QED
    BY <1>2, <2>1, <2>2, EventBounds
<1>4. InFlight' \subseteq InFlight /\ f \in InFlight
  BY <1>1 DEF InFlight
<1>5. /\ \A g \in InFlight' \cup written' : g.ts % 2 = 1 /\ g.ts <= clock'
      /\ \A g \in InFlight' : clock' - g.ts <= MaxLag
  BY <1>1, <1>2, <1>4 DEF FramesInv
<1>6. /\ \A i, j \in DOMAIN queued' : i < j => queued'[i].ts < queued'[j].ts
      /\ \A i \in DOMAIN queued' : \A g \in encoding' \cup written' : g.ts < queued'[i].ts
  BY <1>1, <1>2 DEF FramesInv
<1>7. /\ \A g \in encoding', h \in written' : g.ts # h.ts
      /\ \A g, h \in encoding' : g.ts = h.ts => g = h
  BY <1>1, <1>2 DEF FramesInv
<1>. QED
  BY <1>1, <1>2, <1>3, <1>5, <1>6, <1>7 DEF FramesInv

-----------------------------------------------------------------------------
(* The buffer.                                                             *)

LEMMA BufferFacts ==
  ASSUME EventInv
  PROVE  /\ buf \in Seq(BufferedFrame) /\ Len(buf) <= MaxEntries /\ Len(buf) \in Nat
         /\ DOMAIN buf = 1..Len(buf)
         /\ \A i \in DOMAIN buf : /\ buf[i] \in BufferedFrame /\ buf[i] \in written
                                  /\ buf[i].ts \in Nat /\ buf[i].ts % 2 = 1
                                  /\ buf[i].ts <= clock
<1>1. buf \in Seq(BufferedFrame) /\ Len(buf) <= MaxEntries
  BY DEF EventInv, EventTypes, EventsTypeOK
<1>2. DOMAIN buf = 1..Len(buf) /\ Len(buf) \in Nat
  BY <1>1
<1>3. \A i \in DOMAIN buf : buf[i] \in written /\ buf[i] \in BufferedFrame
  BY <1>1 DEF EventInv, BufferInv
<1>4. \A f \in written : f.ts % 2 = 1 /\ f.ts <= clock
  BY DEF EventInv, FramesInv
<1>. QED
  BY <1>1, <1>2, <1>3, <1>4, FrameTimes

LEMMA TickBuffer ==
  ASSUME EventInv, Tick
  PROVE  BufferInv'
<1>1. clock' = clock + 1 /\ UNCHANGED <<buf, written>>
  BY TickFrames
<1>2. BufferInv
  BY DEF EventInv
<1>3. \A f \in written : f.ts + Span >= clock' => f.ts + Span >= clock
  BY <1>1, FrameTimes, EventBounds
<1>. QED
  BY <1>1, <1>2, <1>3 DEF BufferInv

\* A buffer that was full before and after spans more than the longest event.
LEMMA FullBufferReaches ==
  ASSUME EventSizes, EventInv, NEW f \in encoding, NEW k \in 1..Len(buf),
         Len(buf) - k + 1 = MaxEntries
  PROVE  buf[k].ts + Span < clock
<1> DEFINE n == Len(buf)
           s == Append(SubSeq(buf, k, n), f)
<1>1. /\ buf \in Seq(BufferedFrame) /\ n \in Nat /\ k \in DOMAIN buf
      /\ \A i \in 1..n : /\ buf[i] \in BufferedFrame /\ buf[i] \in written
                         /\ buf[i].ts \in Nat /\ buf[i].ts % 2 = 1 /\ buf[i].ts <= clock
  BY BufferFacts
<1>2. /\ f \in BufferedFrame /\ f.ts \in Nat /\ f.ts % 2 = 1 /\ f.ts <= clock
      /\ clock - f.ts <= MaxLag /\ \A g \in written : f.ts # g.ts
  <2>1. encoding \subseteq BufferedFrame /\ FramesInv /\ encoding \subseteq InFlight
    BY DEF EventInv, EventTypes, EventsTypeOK, InFlight
  <2>. QED
    BY <2>1, FrameTimes DEF FramesInv
<1>3. /\ s \in Seq(BufferedFrame) /\ Len(s) = MaxEntries + 1
      /\ \A i \in 1..MaxEntries : s[i] = buf[k - 1 + i] /\ k - 1 + i \in 1..n
      /\ s[MaxEntries + 1] = f
  <2>1. /\ SubSeq(buf, k, n) \in Seq(BufferedFrame) /\ Len(SubSeq(buf, k, n)) = n - k + 1
        /\ \A i \in 1..(n - k + 1) : SubSeq(buf, k, n)[i] = buf[k - 1 + i] /\ k - 1 + i \in 1..n
    BY <1>1
  <2>2. n - k + 1 = MaxEntries
    OBVIOUS
  <2> DEFINE q == SubSeq(buf, k, n)
  <2>3. /\ q \in Seq(BufferedFrame) /\ Len(q) = MaxEntries
        /\ \A i \in 1..MaxEntries : q[i] = buf[k - 1 + i] /\ k - 1 + i \in 1..n
    BY <2>1, <2>2
  <2>4. s = Append(q, f)
    OBVIOUS
  <2>. HIDE DEF q, s, n
  <2>. QED
    BY <1>2, <2>3, <2>4
<1>4. MaxEntries \in Nat /\ MaxEntries > 0 /\ MaxLag \in Nat /\ clock \in Nat
  BY EventBounds, FrameTimes
<1>. HIDE DEF s
<1>5. \A i \in 1..Len(s) : i \in 1..MaxEntries \/ i = MaxEntries + 1
  BY <1>3, <1>4
<1>6. \A i, j \in 1..n : i < j => buf[i].ts # buf[j].ts /\ buf[i].ts <= buf[j].ts + MaxLag
  BY <1>1, BufferFacts DEF EventInv, BufferInv
<1>7. ASSUME NEW i \in 1..Len(s)
      PROVE  s[i].ts % 2 = 1 /\ buf[k].ts - MaxLag <= s[i].ts /\ s[i].ts <= clock
  <2>1. CASE i \in 1..MaxEntries
    <3>1. s[i] = buf[k - 1 + i] /\ k - 1 + i \in 1..n
      BY <1>3, <2>1
    <3>2. buf[k].ts <= buf[k - 1 + i].ts + MaxLag
      <4>1. k = k - 1 + i \/ k < k - 1 + i
        BY <2>1
      <4>2. CASE k = k - 1 + i
        <5>1. buf[k].ts \in Nat /\ buf[k - 1 + i] = buf[k]
          BY <1>1, <4>2
        <5>. QED
          BY <1>4, <5>1
      <4>. QED
        BY <1>1, <1>6, <3>1, <4>1, <4>2
    <3> DEFINE a == buf[k].ts
               b == buf[k - 1 + i].ts
    <3>3. a \in Nat /\ b \in Nat /\ a <= b + MaxLag /\ MaxLag \in Nat
      BY <1>1, <1>4, <3>1, <3>2
    <3>4. a - MaxLag <= b
      <4>. HIDE DEF a, b
      <4>. QED
        BY <3>3
    <3>. QED
      BY <1>1, <3>1, <3>4
  <2>2. CASE i = MaxEntries + 1
    <3>1. s[i] = f
      BY <1>3, <2>2
    <3> DEFINE a == buf[k].ts
               b == f.ts
    <3>2. /\ a \in Nat /\ b \in Nat /\ a <= clock /\ clock - b <= MaxLag
          /\ clock \in Nat /\ MaxLag \in Nat
      BY <1>1, <1>2, <1>4
    <3>3. a - MaxLag <= b
      <4>. HIDE DEF a, b
      <4>. QED
        BY <3>2
    <3>. QED
      BY <1>2, <3>1, <3>3
  <2>. QED
    BY <1>5, <2>1, <2>2
<1>8. ASSUME NEW i \in 1..Len(s), NEW j \in 1..Len(s), i < j
      PROVE  s[i].ts # s[j].ts
  <2>1. i \in 1..MaxEntries
    BY <1>3, <1>4, <1>8
  <2>2. s[i] = buf[k - 1 + i] /\ k - 1 + i \in 1..n
    BY <1>3, <2>1
  <2>3. CASE j \in 1..MaxEntries
    <3>1. s[j] = buf[k - 1 + j] /\ k - 1 + j \in 1..n /\ k - 1 + i < k - 1 + j
      BY <1>3, <1>8, <2>3
    <3>. QED
      BY <1>6, <2>2, <3>1
  <2>4. CASE j = MaxEntries + 1
    <3>1. s[j] = f /\ s[i] \in written
      BY <1>1, <1>3, <2>2, <2>4
    <3>. QED
      BY <1>2, <3>1
  <2>. QED
    BY <1>5, <2>3, <2>4
<1>9. buf[k].ts - MaxLag \in Int /\ clock \in Int /\ Len(s) > 0
  <2>1. buf[k].ts \in Nat
    BY <1>1
  <2>. QED
    BY <1>3, <1>4, <2>1
<1>10. 2 * (Len(s) - 1) <= clock - (buf[k].ts - MaxLag)
  BY <1>3, <1>7, <1>8, <1>9, FramesTakeTime
<1>11. buf[k].ts \in Nat /\ Span \in Nat /\ Span < 2 * MaxEntries - MaxLag
  BY <1>1, EventBounds DEF EventSizes
<1>12. Len(s) - 1 = MaxEntries
  BY <1>3, <1>4
<1>. QED
  BY <1>4, <1>10, <1>11, <1>12

LEMMA WriteBuffer ==
  ASSUME EventSizes, EventInv, NEW f \in encoding, WriteFrame(f)
  PROVE  BufferInv' /\ buf' \in Seq(BufferedFrame) /\ Len(buf') <= MaxEntries
<1> DEFINE n == Len(buf)
<1>1. /\ buf \in Seq(BufferedFrame) /\ n \in Nat /\ n <= MaxEntries /\ DOMAIN buf = 1..n
      /\ \A i \in 1..n : /\ buf[i] \in BufferedFrame /\ buf[i] \in written
                         /\ buf[i].ts \in Nat /\ buf[i].ts <= clock
  BY BufferFacts
<1>2. /\ f \in BufferedFrame /\ f.ts \in Nat /\ f.ts <= clock
      /\ clock - f.ts <= MaxLag /\ \A g \in written : f.ts # g.ts
  <2>1. encoding \subseteq BufferedFrame /\ FramesInv /\ encoding \subseteq InFlight
    BY DEF EventInv, EventTypes, EventsTypeOK, InFlight
  <2>. QED
    BY <2>1, FrameTimes DEF FramesInv
<1>3. /\ written' = written \cup {f} /\ buf' = Written(buf, f) /\ clock' = clock
  BY WriteFrames
<1>4. /\ MaxEntries \in Nat /\ MaxEntries > 0 /\ MaxLag \in Nat /\ clock \in Nat
      /\ Span \in Nat /\ Horizon \in Nat /\ Span <= Horizon
  BY EventBounds, FrameTimes DEF EventSizes
<1>5. PICK k \in 0..n :
        /\ buf' = Append(SubSeq(buf, k + 1, n), f)
        /\ n - k < MaxEntries
        /\ \A i \in 1..k : \/ buf[i].ts < f.ts - Horizon
                           \/ i = k /\ n - k + 1 = MaxEntries
  BY <1>1, <1>2, <1>3, WrittenFacts
<1> DEFINE q == SubSeq(buf, k + 1, n)
<1>6. /\ q \in Seq(BufferedFrame) /\ Len(q) = n - k
      /\ \A i \in 1..(n - k) : q[i] = buf[k + i] /\ k + i \in 1..n
  BY <1>1
<1>. HIDE DEF q
<1>7. n - k \in Nat
  BY <1>1
<1>8. /\ buf' \in Seq(BufferedFrame) /\ Len(buf') = n - k + 1
      /\ \A i \in 1..(n - k) : buf'[i] = buf[k + i] /\ k + i \in 1..n
      /\ buf'[n - k + 1] = f
  <2>1. buf' = Append(q, f)
    BY <1>5 DEF q
  <2>. QED
    BY <1>2, <1>6, <1>7, <2>1
<1>9. /\ DOMAIN buf' = 1..(n - k + 1)
      /\ \A i \in DOMAIN buf' : i \in 1..(n - k) \/ i = n - k + 1
  BY <1>7, <1>8
<1>10. \A i, j \in 1..n : i < j => buf[i].ts # buf[j].ts /\ buf[i].ts <= buf[j].ts + MaxLag
  BY <1>1 DEF EventInv, BufferInv
<1>11. \A i \in DOMAIN buf' : buf'[i] \in written'
  BY <1>1, <1>3, <1>8, <1>9
<1>12. \A i, j \in DOMAIN buf' : i < j =>
          buf'[i].ts # buf'[j].ts /\ buf'[i].ts <= buf'[j].ts + MaxLag
  <2> SUFFICES ASSUME NEW i \in DOMAIN buf', NEW j \in DOMAIN buf', i < j
               PROVE  buf'[i].ts # buf'[j].ts /\ buf'[i].ts <= buf'[j].ts + MaxLag
    OBVIOUS
  <2>1. i \in 1..(n - k)
    BY <1>7, <1>9
  <2>2. buf'[i] = buf[k + i] /\ k + i \in 1..n
    BY <1>8, <2>1
  <2>3. CASE j \in 1..(n - k)
    <3>1. buf'[j] = buf[k + j] /\ k + j \in 1..n /\ k + i < k + j
      BY <1>8, <2>1, <2>3
    <3>. QED
      BY <1>10, <2>2, <3>1
  <2>4. CASE j = n - k + 1
    <3>1. buf'[j] = f
      BY <1>8, <2>4
    <3>2. /\ buf[k + i] \in written /\ buf[k + i].ts \in Nat /\ buf[k + i].ts <= clock
      BY <1>1, <2>2
    <3>. QED
      BY <1>2, <1>4, <2>2, <3>1, <3>2
  <2>. QED
    BY <1>9, <2>3, <2>4
<1>13. \A g \in written' : g.ts + Span >= clock' => \E i \in DOMAIN buf' : buf'[i] = g
  <2> SUFFICES ASSUME NEW g \in written', g.ts + Span >= clock
               PROVE  \E i \in DOMAIN buf' : buf'[i] = g
    BY <1>3
  <2>1. CASE g = f
    <3>1. n - k + 1 \in DOMAIN buf'
      BY <1>7, <1>9
    <3>. QED
      BY <1>8, <2>1, <3>1
  <2>2. CASE g \in written
    <3>1. PICK i \in 1..n : buf[i] = g
      BY <1>1, <2>2 DEF EventInv, BufferInv
    <3>2. CASE i <= k
      <4>1. ~ (buf[i].ts < f.ts - Horizon)
        <5>1. buf[i].ts \in Nat /\ buf[i].ts + Span >= clock
          BY <1>1, <3>1
        <5>. QED
          BY <1>2, <1>4, <5>1
      <4>2. i \in 1..k
        BY <3>2
      <4>3. i = k /\ n - k + 1 = MaxEntries
        BY <1>5, <4>1, <4>2
      <4>4. buf[i].ts + Span < clock
        BY <4>3, FullBufferReaches
      <4>5. buf[i].ts \in Nat /\ buf[i].ts + Span >= clock
        BY <1>1, <3>1
      <4>. QED
        BY <1>4, <4>4, <4>5
    <3>3. CASE ~ (i <= k)
      <4>1. i - k \in 1..(n - k) /\ k + (i - k) = i
        BY <3>3
      <4>2. buf'[i - k] = g /\ i - k \in DOMAIN buf'
        BY <1>8, <1>9, <3>1, <4>1
      <4>. QED
        BY <4>2
    <3>. QED
      BY <3>2, <3>3
  <2>. QED
    BY <1>3, <2>1, <2>2
<1>14. Len(buf') <= MaxEntries
  BY <1>4, <1>5, <1>7, <1>8
<1>. QED
  BY <1>8, <1>11, <1>12, <1>13, <1>14 DEF BufferInv

-----------------------------------------------------------------------------
(* The recorder while the capture moves, and the capture while it rests.   *)

LEMMA EventTimes ==
  ASSUME EventInv
  PROVE  /\ clock \in Nat /\ lastPoll \in Nat /\ trigger \in Nat /\ lastMotion \in Nat
         /\ \A c \in closing : c \in CloseTask /\ c.trigger \in Nat /\ c.from \in Int /\ c.to \in Int
         /\ \A t \in DOMAIN disk : t \in Nat
<1>1. /\ clock \in Times /\ lastPoll \in Times /\ trigger \in Times /\ lastMotion \in Times
      /\ closing \subseteq CloseTask /\ DOMAIN disk \subseteq Times
  BY DEF EventInv, EventTypes, EventsTypeOK
<1>2. Times \subseteq Nat
  BY EventBounds DEF Times
<1>3. \A c \in CloseTask : c.trigger \in Times /\ c.from \in Int /\ c.to \in Int
  BY DEF CloseTask
<1>. QED
  BY <1>1, <1>2, <1>3

LEMMA RecorderResting ==
  ASSUME EventInv, RecorderRests, written \subseteq written',
         \/ clock' = clock
         \/ /\ clock' = clock + 1
            /\ mode = "running" => clock + 1 - lastPoll <= MaxPollGap
            /\ \A c \in closing : c.stage # "new"
  PROVE  RecorderInv' /\ ClosingInv' /\ SeenInv'
<1>1. /\ UNCHANGED <<lastPoll, trigger, lastMotion, closing, disk, mode, seen, abandoned>>
      /\ clock <= clock'
  BY EventTimes DEF RecorderRests, recorderVars
<1>2. RecorderInv /\ ClosingInv /\ SeenInv
  BY DEF EventInv
<1>3. RecorderInv'
  <2>1. lastPoll <= clock'
    BY <1>1, <1>2, EventTimes DEF RecorderInv
  <2>2. ASSUME mode = "running", lastPoll # 0 PROVE clock' - lastPoll <= MaxPollGap
    <3>1. clock - lastPoll <= MaxPollGap
      BY <1>2, <2>2 DEF RecorderInv
    <3>2. CASE clock' = clock
      BY <3>1, <3>2
    <3>3. CASE clock' = clock + 1 /\ clock + 1 - lastPoll <= MaxPollGap
      BY <3>3, EventTimes, EventBounds
    <3>. QED
      BY <2>2, <3>2, <3>3
  <2>. QED
    BY <1>1, <1>2, <2>1, <2>2 DEF RecorderInv
<1>4. ClosingInv'
  <2>1. \A c \in closing : c.stage = "new" => c.from < c.to /\ c.from + Span >= clock'
    BY <1>2 DEF ClosingInv
  <2>. QED
    BY <1>1, <1>2, <2>1 DEF ClosingInv
<1>5. SeenInv'
  BY <1>1, <1>2 DEF SeenInv, Kept, Settled, Within
<1>. QED
  BY <1>3, <1>4, <1>5

LEMMA CaptureResting ==
  ASSUME EventInv, CaptureRests
  PROVE  FramesInv' /\ BufferInv'
<1>1. UNCHANGED <<clock, queued, encoding, buf, written>>
  BY DEF CaptureRests, captureVars
<1>2. InFlight' = InFlight
  BY <1>1 DEF InFlight
<1>. QED
  BY <1>1, <1>2 DEF EventInv, FramesInv, BufferInv

\* The types that a step of the recorder has to keep.
LEMMA RecorderTypes ==
  ASSUME EventInv, CaptureRests,
         lastPoll' \in Times, trigger' \in Times, lastMotion' \in Times,
         closing' \subseteq CloseTask, DOMAIN disk' \subseteq Times,
         \A t \in DOMAIN disk' :
           disk'[t].files \subseteq BufferedFrame /\ disk'[t].index \subseteq BufferedFrame,
         mode' \in {"running", "stopping", "drained", "cut"}, seen' \subseteq BufferedFrame /\ abandoned' \subseteq seen'
  PROVE  EventTypes'
<1>1. UNCHANGED <<clock, queued, encoding, buf, written>>
  BY DEF CaptureRests, captureVars
<1>. QED
  BY <1>1 DEF EventInv, EventTypes, EventsTypeOK

LEMMA CaptureStep ==
  ASSUME EventSizes, EventInv, Tick \/ TakeFrame \/ \E f \in encoding : WriteFrame(f)
  PROVE  EventInv'
<1>1. CASE Tick
  <2>1. /\ FramesInv' /\ queued' \in Seq(BufferedFrame) /\ clock' \in Times
        /\ UNCHANGED <<encoding, buf, written>> /\ RecorderRests
        /\ clock' = clock + 1 /\ \A c \in closing : c.stage # "new"
    BY <1>1, TickFrames
  <2>2. mode = "running" => clock + 1 - lastPoll <= MaxPollGap
    BY <1>1 DEF Tick
  <2>3. RecorderInv' /\ ClosingInv' /\ SeenInv'
    BY <2>1, <2>2, RecorderResting
  <2>4. BufferInv'
    BY <1>1, TickBuffer
  <2>5. EventTypes'
    BY <2>1 DEF EventInv, EventTypes, EventsTypeOK, RecorderRests, recorderVars
  <2>. QED
    BY <2>1, <2>3, <2>4, <2>5 DEF EventInv
<1>2. CASE TakeFrame
  <2>1. /\ FramesInv' /\ queued' \in Seq(BufferedFrame)
        /\ encoding' \subseteq BufferedFrame /\ IsFiniteSet(encoding')
        /\ Cardinality(encoding') <= Workers
        /\ UNCHANGED <<clock, buf, written>> /\ RecorderRests
    BY <1>2, TakeFrames
  <2>2. RecorderInv' /\ ClosingInv' /\ SeenInv'
    BY <2>1, RecorderResting
  <2>3. BufferInv'
    BY <2>1 DEF EventInv, BufferInv
  <2>4. EventTypes'
    BY <2>1 DEF EventInv, EventTypes, EventsTypeOK, RecorderRests, recorderVars
  <2>. QED
    BY <2>1, <2>2, <2>3, <2>4 DEF EventInv
<1>3. ASSUME NEW f \in encoding, WriteFrame(f)
      PROVE  EventInv'
  <2>1. /\ FramesInv' /\ UNCHANGED <<clock, queued>> /\ RecorderRests
        /\ encoding' \subseteq BufferedFrame /\ IsFiniteSet(encoding')
        /\ Cardinality(encoding') <= Workers
        /\ written' = written \cup {f} /\ f \in BufferedFrame
    BY <1>3, WriteFrames
  <2>2. RecorderInv' /\ ClosingInv' /\ SeenInv'
    BY <2>1, RecorderResting
  <2>3. BufferInv' /\ buf' \in Seq(BufferedFrame) /\ Len(buf') <= MaxEntries
    BY <1>3, WriteBuffer
  <2>4. EventTypes'
    BY <2>1, <2>3 DEF EventInv, EventTypes, EventsTypeOK, RecorderRests, recorderVars
  <2>. QED
    BY <2>1, <2>2, <2>3, <2>4 DEF EventInv
<1>. QED
  BY <1>1, <1>2, <1>3

-----------------------------------------------------------------------------
(* The poll.                                                               *)

\* The task that a due poll starts.
NewClose(first, last) ==
  [trigger |-> first, from |-> first - PreRoll, to |-> last + PostRoll,
   stage |-> "new", frames |-> {}]

\* What a poll makes of the open event: its trigger, its last motion, and the
\* frames that the poll has seen, all within the window of the event.
PollOutcome(opened, last, news) ==
  /\ CaptureRests /\ UNCHANGED <<disk, mode, abandoned>> /\ mode = "running"
  /\ lastPoll' = clock /\ clock > 0 /\ clock % 2 = 0
  /\ seen' = seen \cup news
  /\ trigger # 0 => opened = trigger
  /\ opened = 0 => last = 0
  /\ lastMotion <= last
  /\ opened # 0 => /\ opened < clock /\ opened <= last + MaxLag
                   /\ clock - opened <= MaxDuration - 1 + MaxPollGap
  /\ trigger = 0 /\ opened # 0 => lastPoll <= opened
  /\ \A f \in news : opened # 0 /\ Within(f, opened - PreRoll, last + PostRoll)
  /\ \/ /\ opened # 0 /\ closing' = closing \cup {NewClose(opened, last)}
        /\ trigger' = 0 /\ lastMotion' = 0
     \/ /\ opened = 0 \/ clock - opened < MaxDuration
        /\ trigger' = opened /\ lastMotion' = last /\ UNCHANGED closing

LEMMA PollFacts ==
  ASSUME EventSizes, EventInv, Poll
  PROVE  \E opened, last \in Times : \E news \in SUBSET written : PollOutcome(opened, last, news)
<1> DEFINE since  == IF lastPoll = 0 THEN clock - PollInterval ELSE lastPoll
           motion == {i \in Window(since, clock) : buf[i].motion}
           opened == IF trigger = 0 /\ motion # {} THEN buf[Min(motion)].ts ELSE trigger
           last   == LatestMotion(motion)
           news   == FramesAt(motion)
<1>1. /\ mode = "running" /\ clock > 0 /\ clock % 2 = 0 /\ lastPoll' = clock
      /\ seen' = seen \cup news /\ CaptureRests /\ UNCHANGED <<disk, mode, abandoned>>
  BY DEF Poll, CaptureRests
<1>2. IF opened # 0 /\ Due(opened, last)
      THEN /\ closing' = closing \cup {NewClose(opened, last)}
           /\ trigger' = 0 /\ lastMotion' = 0
      ELSE trigger' = opened /\ lastMotion' = last /\ UNCHANGED closing
  BY DEF Poll, NewClose, WindowEnd
<1>3. /\ clock \in Nat /\ lastPoll \in Nat /\ trigger \in Nat /\ lastMotion \in Nat
      /\ trigger \in Times /\ lastMotion \in Times
  BY EventTimes DEF EventInv, EventTypes, EventsTypeOK
<1>4. RecorderInv
  BY DEF EventInv
<1>5. since \in Int /\ (lastPoll # 0 => since = lastPoll) /\ clock - since <= MaxPollGap
  BY <1>1, <1>3, <1>4, EventBounds DEF RecorderInv
<1>6. motion \subseteq 1..Len(buf) /\ Len(buf) \in Nat
  BY BufferFacts DEF Window
<1>7. \A i \in motion : since <= buf[i].ts /\ buf[i].ts <= clock
  BY DEF Window
<1>. HIDE DEF since
<1>8. \A i \in motion : /\ buf[i] \in written /\ buf[i] \in BufferedFrame
                        /\ buf[i].ts \in Times /\ buf[i].ts \in Nat /\ buf[i].ts % 2 = 1
                        /\ buf[i].ts < clock /\ buf[i].ts > 0
  <2> SUFFICES ASSUME NEW i \in motion
               PROVE  /\ buf[i] \in written /\ buf[i] \in BufferedFrame
                      /\ buf[i].ts \in Times /\ buf[i].ts \in Nat /\ buf[i].ts % 2 = 1
                      /\ buf[i].ts < clock /\ buf[i].ts > 0
    OBVIOUS
  <2>. HIDE DEF motion
  <2>1. /\ buf[i] \in written /\ buf[i] \in BufferedFrame /\ buf[i].ts \in Nat
        /\ buf[i].ts % 2 = 1 /\ buf[i].ts <= clock
    BY <1>6, BufferFacts
  <2>2. buf[i].ts \in Times
    BY <2>1 DEF BufferedFrame
  <2>3. buf[i].ts # clock /\ buf[i].ts # 0
    BY <1>1, <2>1
  <2>. QED
    BY <1>3, <2>1, <2>2, <2>3
<1>9. \A i, j \in motion : i <= j => buf[i].ts <= buf[j].ts + MaxLag
  <2> SUFFICES ASSUME NEW i \in motion, NEW j \in motion, i <= j
               PROVE  buf[i].ts <= buf[j].ts + MaxLag
    OBVIOUS
  <2>. HIDE DEF motion
  <2>1. i \in Nat /\ j \in Nat /\ i \in DOMAIN buf /\ j \in DOMAIN buf
    BY <1>6, BufferFacts
  <2>2. CASE i = j
    BY <1>8, <2>2, EventBounds
  <2>3. CASE i < j
    BY <2>1, <2>3 DEF EventInv, BufferInv
  <2>. QED
    BY <2>1, <2>2, <2>3
<1>10. ASSUME motion # {}
       PROVE  /\ Min(motion) \in motion /\ Max(motion) \in motion
              /\ \A i \in motion : Min(motion) <= i /\ i <= Max(motion)
  <2>. HIDE DEF motion
  <2>1. motion \in SUBSET Nat /\ motion \in SUBSET (1..Len(buf))
    BY <1>6
  <2>. QED
    BY <1>6, <1>10, <2>1, LeastPosition, LastPosition
<1>11. /\ motion = {} => last = lastMotion
       /\ motion # {} => last = (IF buf[Max(motion)].ts > lastMotion
                                 THEN buf[Max(motion)].ts ELSE lastMotion)
       /\ motion # {} /\ trigger = 0 => opened = buf[Min(motion)].ts
       /\ motion = {} \/ trigger # 0 => opened = trigger
  BY DEF LatestMotion
<1>12. \A f \in news : \E i \in motion : f = buf[i]
  BY DEF FramesAt
<1>. HIDE DEF motion, opened, last, news
<1>13. /\ last \in Times /\ last \in Nat /\ lastMotion <= last
       /\ \A i \in motion : buf[i].ts <= last + MaxLag
  <2>1. CASE motion = {}
    BY <1>3, <1>11, <2>1
  <2>2. CASE motion # {}
    <3> DEFINE m == Max(motion)
    <3>1. m \in motion /\ \A i \in motion : i <= m
      BY <1>10, <2>2
    <3>2. last = (IF buf[m].ts > lastMotion THEN buf[m].ts ELSE lastMotion)
      BY <1>11, <2>2
    <3>. HIDE DEF m
    <3>3. buf[m].ts \in Times /\ buf[m].ts \in Nat
      BY <1>8, <3>1
    <3>4. last \in Times /\ last \in Nat /\ lastMotion <= last /\ buf[m].ts <= last
      BY <1>3, <3>2, <3>3
    <3>5. ASSUME NEW i \in motion PROVE buf[i].ts <= last + MaxLag
      <4>1. buf[i].ts <= buf[m].ts + MaxLag /\ buf[i].ts \in Nat
        BY <1>8, <1>9, <3>1
      <4>. QED
        BY <3>3, <3>4, <4>1, EventBounds
    <3>. QED
      BY <3>4, <3>5
  <2>. QED
    BY <2>1, <2>2
<1>14. /\ opened \in Times /\ opened \in Nat
       /\ trigger # 0 => opened = trigger
       /\ opened = 0 => last = 0
       /\ trigger = 0 /\ opened # 0 => since <= opened
       /\ opened # 0 => opened < clock /\ opened <= last + MaxLag
       /\ \A i \in motion : opened # 0 /\ opened - PreRoll <= buf[i].ts
  <2>1. CASE trigger # 0
    <3>1. opened = trigger
      BY <1>11, <2>1
    <3>2. trigger < lastPoll /\ lastPoll <= clock /\ trigger <= lastMotion + MaxLag
      BY <1>4, <2>1 DEF RecorderInv
    <3>3. since = lastPoll
      BY <1>3, <1>5, <3>2
    <3>4. opened < clock /\ opened <= last + MaxLag
      BY <1>3, <1>13, <3>1, <3>2, EventBounds
    <3>5. ASSUME NEW i \in motion PROVE opened - PreRoll <= buf[i].ts
      <4>1. since <= buf[i].ts /\ buf[i].ts \in Nat
        BY <1>7, <1>8
      <4>. QED
        BY <1>3, <3>1, <3>2, <3>3, <4>1, EventBounds
    <3>. QED
      BY <1>3, <2>1, <3>1, <3>4, <3>5
  <2>2. CASE trigger = 0 /\ motion = {}
    <3>1. opened = 0 /\ last = lastMotion
      BY <1>11, <2>2
    <3>2. lastMotion = 0
      BY <1>4, <2>2 DEF RecorderInv
    <3>. QED
      BY <1>3, <2>2, <3>1, <3>2
  <2>3. CASE trigger = 0 /\ motion # {}
    <3> DEFINE m == Min(motion)
    <3>1. opened = buf[m].ts
      BY <1>11, <2>3
    <3>2. m \in motion /\ \A i \in motion : m <= i
      BY <1>10, <2>3
    <3>. HIDE DEF m
    <3>3. buf[m].ts \in Times /\ buf[m].ts \in Nat /\ buf[m].ts < clock /\ buf[m].ts > 0
      BY <1>8, <3>2
    <3>4. opened <= last + MaxLag /\ since <= opened
      BY <1>7, <1>13, <3>1, <3>2
    <3>5. ASSUME NEW i \in motion PROVE opened - PreRoll <= buf[i].ts
      <4>1. opened <= buf[i].ts + MaxLag /\ buf[i].ts \in Nat
        BY <1>8, <1>9, <3>1, <3>2
      <4>. QED
        BY <3>1, <3>3, <4>1, EventBounds DEF EventSizes
    <3>. QED
      BY <2>3, <3>1, <3>3, <3>4, <3>5
  <2>. QED
    BY <2>1, <2>2, <2>3
<1>15. ASSUME opened # 0
       PROVE  clock - opened <= MaxDuration - 1 + MaxPollGap
  <2>1. CASE trigger # 0
    <3>1. lastPoll - trigger < MaxDuration /\ trigger < lastPoll
      BY <1>4, <2>1 DEF RecorderInv
    <3>2. clock - lastPoll <= MaxPollGap
      BY <1>1, <1>3, <1>4, <3>1 DEF RecorderInv
    <3>3. opened = trigger
      BY <1>14, <2>1
    <3>. QED
      BY <1>3, <3>1, <3>2, <3>3, EventBounds
  <2>2. CASE trigger = 0
    <3>1. since <= opened
      BY <1>14, <1>15, <2>2
    <3>. QED
      BY <1>3, <1>5, <1>14, <3>1, EventBounds
  <2>. QED
    BY <2>1, <2>2
<1>16. trigger = 0 /\ opened # 0 => lastPoll <= opened
  <2>1. CASE lastPoll = 0
    BY <1>14, <2>1
  <2>2. CASE lastPoll # 0
    BY <1>5, <1>14, <2>2
  <2>. QED
    BY <2>1, <2>2
<1>17. ASSUME NEW f \in news
       PROVE  opened # 0 /\ Within(f, opened - PreRoll, last + PostRoll)
  <2>1. PICK i \in motion : f = buf[i]
    BY <1>12
  <2>2. buf[i].ts <= last + MaxLag /\ buf[i].ts \in Nat
    BY <1>8, <1>13
  <2>3. buf[i].ts <= last + PostRoll
    BY <1>13, <2>2, EventBounds DEF EventSizes
  <2>. QED
    BY <1>14, <2>1, <2>3 DEF Within
<1>18. \/ /\ opened # 0 /\ closing' = closing \cup {NewClose(opened, last)}
          /\ trigger' = 0 /\ lastMotion' = 0
       \/ /\ opened = 0 \/ clock - opened < MaxDuration
          /\ trigger' = opened /\ lastMotion' = last /\ UNCHANGED closing
  <2>1. ~ Due(opened, last) => clock - opened < MaxDuration
    BY <1>3, <1>14, EventBounds DEF Due
  <2>. QED
    BY <1>2, <2>1
<1>19. news \in SUBSET written
  BY <1>8, <1>12
<1>20. PollOutcome(opened, last, news)
  BY <1>1, <1>13, <1>14, <1>15, <1>16, <1>17, <1>18 DEF PollOutcome
<1>. QED
  BY <1>13, <1>14, <1>19, <1>20

LEMMA PollStep ==
  ASSUME EventSizes, EventInv, Poll
  PROVE  EventInv'
<1>1. PICK opened \in Times, last \in Times : \E news \in SUBSET written :
        PollOutcome(opened, last, news)
  BY PollFacts
<1>2. PICK news \in SUBSET written : PollOutcome(opened, last, news)
  BY <1>1
<1> DEFINE new == NewClose(opened, last)
<1>3. /\ CaptureRests /\ UNCHANGED <<disk, mode, abandoned>> /\ mode = "running"
      /\ lastPoll' = clock /\ clock > 0 /\ clock % 2 = 0
      /\ seen' = seen \cup news /\ clock' = clock /\ written' = written
  BY <1>2 DEF PollOutcome, CaptureRests, captureVars
<1>4. /\ trigger # 0 => opened = trigger
      /\ opened = 0 => last = 0
      /\ lastMotion <= last
      /\ opened # 0 => /\ opened < clock /\ opened <= last + MaxLag
                       /\ clock - opened <= MaxDuration - 1 + MaxPollGap
      /\ trigger = 0 /\ opened # 0 => lastPoll <= opened
      /\ \A f \in news : opened # 0 /\ Within(f, opened - PreRoll, last + PostRoll)
  BY <1>2 DEF PollOutcome
<1>5. \/ /\ opened # 0 /\ closing' = closing \cup {new}
         /\ trigger' = 0 /\ lastMotion' = 0
      \/ /\ opened = 0 \/ clock - opened < MaxDuration
         /\ trigger' = opened /\ lastMotion' = last /\ UNCHANGED closing
  BY <1>2 DEF PollOutcome
<1>6. /\ clock \in Nat /\ lastPoll \in Nat /\ trigger \in Nat /\ lastMotion \in Nat
      /\ opened \in Nat /\ last \in Nat /\ 0 \in Times
  BY EventTimes, EventBounds DEF Times
<1>7. /\ new \in CloseTask /\ new.trigger = opened /\ new.from = opened - PreRoll
      /\ new.to = last + PostRoll /\ new.stage = "new"
  BY <1>6, EventBounds DEF NewClose, CloseTask
<1>. HIDE DEF new
<1>8. RecorderInv /\ ClosingInv /\ SeenInv
  BY DEF EventInv
<1>9. EventTypes'
  <2>1. /\ closing \subseteq CloseTask /\ clock \in Times /\ seen \subseteq BufferedFrame /\ abandoned \subseteq seen
        /\ written \subseteq BufferedFrame /\ DOMAIN disk \subseteq Times
        /\ \A t \in DOMAIN disk :
             disk[t].files \subseteq BufferedFrame /\ disk[t].index \subseteq BufferedFrame
        /\ mode \in {"running", "stopping", "drained", "cut"}
    BY DEF EventInv, EventTypes, EventsTypeOK
  <2>2. /\ trigger' \in Times /\ lastMotion' \in Times /\ closing' \subseteq CloseTask
        /\ lastPoll' \in Times /\ seen' \subseteq BufferedFrame /\ abandoned' \subseteq seen'
    BY <1>3, <1>5, <1>6, <1>7, <2>1
  <2>. QED
    BY <1>3, <2>1, <2>2, RecorderTypes
<1>10. RecorderInv'
  <2>1. mode' = "running" /\ lastPoll' # 0 => clock' - lastPoll' <= MaxPollGap
    BY <1>3, <1>6, EventBounds
  <2>2. trigger' = 0 => lastMotion' = 0
    BY <1>4, <1>5
  <2>3. ASSUME trigger' # 0
        PROVE  /\ trigger' < lastPoll' /\ lastPoll' - trigger' < MaxDuration
               /\ trigger' <= lastMotion' + MaxLag
    <3>1. trigger' = opened /\ lastMotion' = last /\ opened # 0 /\ clock - opened < MaxDuration
      BY <1>5, <2>3
    <3>. QED
      BY <1>3, <1>4, <3>1
  <2>4. lastPoll' % 2 = 0 /\ lastPoll' <= clock' /\ lastPoll' # 0
    BY <1>3, <1>6
  <2>. QED
    BY <2>1, <2>2, <2>3, <2>4 DEF RecorderInv
<1>11. \A t \in Nat : t < lastPoll /\ (trigger # 0 => t < trigger) =>
         /\ t < lastPoll' /\ (trigger' # 0 => t < trigger')
         /\ opened # 0 => t < opened
  <2> SUFFICES ASSUME NEW t \in Nat, t < lastPoll, trigger # 0 => t < trigger
               PROVE  /\ t < lastPoll' /\ (trigger' # 0 => t < trigger')
                      /\ opened # 0 => t < opened
    OBVIOUS
  <2>1. t < lastPoll'
    BY <1>3, <1>6, <1>8 DEF RecorderInv
  <2>2. opened # 0 => t < opened
    BY <1>4, <1>6
  <2>. QED
    BY <1>5, <2>1, <2>2
<1>12. ClosingInv'
  <2>1. ASSUME NEW c \in closing
        PROVE  /\ c.trigger < lastPoll' /\ (trigger' # 0 => c.trigger < trigger')
               /\ c.stage = "new" => c.from < c.to /\ c.from + Span >= clock'
               /\ c.stage = "enriching" =>
                    /\ c.trigger \in DOMAIN disk'
                    /\ disk'[c.trigger] = [files |-> c.frames, index |-> c.frames]
               /\ opened # 0 => c.trigger < opened
    <3>1. c.trigger < lastPoll /\ (trigger # 0 => c.trigger < trigger) /\ c.trigger \in Nat
      BY <1>8, EventTimes DEF ClosingInv
    <3>2. /\ c.trigger < lastPoll' /\ (trigger' # 0 => c.trigger < trigger')
          /\ opened # 0 => c.trigger < opened
      BY <1>11, <3>1
    <3>3. /\ c.stage = "new" => c.from < c.to /\ c.from + Span >= clock'
          /\ c.stage = "enriching" =>
               /\ c.trigger \in DOMAIN disk'
               /\ disk'[c.trigger] = [files |-> c.frames, index |-> c.frames]
      BY <1>3, <1>8 DEF ClosingInv
    <3>. QED
      BY <3>2, <3>3
  <2>2. \A c, d \in closing : c.trigger = d.trigger => c = d
    BY <1>8 DEF ClosingInv
  <2>3. mode' # "drained"
    BY <1>3
  <2>4. CASE UNCHANGED closing
    BY <2>1, <2>2, <2>3, <2>4 DEF ClosingInv
  <2>5. CASE opened # 0 /\ closing' = closing \cup {new} /\ trigger' = 0
    <3>1. new.trigger < lastPoll' /\ new.from < new.to
      <4>1. opened < clock /\ opened <= last + MaxLag
        BY <1>4, <2>5
      <4>. QED
        BY <1>3, <1>6, <1>7, <4>1, EventBounds DEF EventSizes
    <3>2. new.from + Span >= clock'
      <4>1. clock - opened <= MaxDuration - 1 + MaxPollGap
        BY <1>4, <2>5
      <4>. QED
        BY <1>3, <1>6, <1>7, <4>1, EventBounds DEF Span
    <3>3. \A c \in closing : c.trigger # new.trigger
      <4> SUFFICES ASSUME NEW c \in closing PROVE c.trigger # new.trigger
        OBVIOUS
      <4>1. c.trigger < opened /\ c.trigger \in Nat
        BY <2>1, <2>5, EventTimes
      <4>. QED
        BY <1>6, <1>7, <4>1
    <3>4. \A c \in closing' :
            /\ c.trigger < lastPoll' /\ (trigger' # 0 => c.trigger < trigger')
            /\ c.stage = "new" => c.from < c.to /\ c.from + Span >= clock'
            /\ c.stage = "enriching" =>
                 /\ c.trigger \in DOMAIN disk'
                 /\ disk'[c.trigger] = [files |-> c.frames, index |-> c.frames]
      BY <1>7, <2>1, <2>5, <3>1, <3>2
    <3>5. \A c, d \in closing' : c.trigger = d.trigger => c = d
      BY <2>2, <2>5, <3>3
    <3>. QED
      BY <2>3, <3>4, <3>5 DEF ClosingInv
  <2>. QED
    BY <1>5, <2>4, <2>5
<1>13. closing \subseteq closing' /\ \A c \in closing' : c \in closing \/ (opened # 0 /\ c = new)
  BY <1>5
<1>14. ASSUME NEW f, opened # 0, Within(f, opened - PreRoll, last + PostRoll)
       PROVE  Kept(f)'
  <2>1. CASE trigger' = opened /\ lastMotion' = last
    BY <1>14, <2>1 DEF Kept, Within
  <2>2. CASE closing' = closing \cup {new}
    <3>1. new \in closing' /\ new.stage = "new" /\ Within(f, new.from, new.to)
      BY <1>7, <1>14, <2>2
    <3>. QED
      BY <3>1 DEF Kept, Within
  <2>. QED
    BY <1>5, <2>1, <2>2
<1>15. ASSUME NEW f \in seen \ abandoned
       PROVE  Kept(f)'
  <2>0. f.ts \in Nat
    <3>1. f \in written
      BY <1>8 DEF SeenInv
    <3>. QED
      BY <3>1, FrameTimes
  <2>1. CASE trigger # 0 /\ Within(f, trigger - PreRoll, lastMotion + PostRoll)
    <3>1. opened = trigger /\ opened # 0 /\ lastMotion <= last
      BY <1>4, <2>1
    <3>2. Within(f, opened - PreRoll, last + PostRoll)
      BY <1>6, <2>0, <2>1, <3>1, EventBounds DEF Within
    <3>. QED
      BY <1>14, <3>1, <3>2
  <2>2. ASSUME NEW c \in closing, IF c.stage = "new" THEN Within(f, c.from, c.to) ELSE f \in c.frames
        PROVE  Kept(f)'
    <3>1. c \in closing'
      BY <1>13
    <3>. QED
      BY <2>2, <3>1 DEF Kept, Within
  <2>3. ASSUME NEW t \in DOMAIN disk, f \in disk[t].files, f \in disk[t].index, Settled(t)
        PROVE  Kept(f)'
    <3>1. t \in Nat /\ t < lastPoll /\ (trigger # 0 => t < trigger)
      BY <2>3, EventTimes DEF Settled
    <3>2. t < lastPoll' /\ (trigger' # 0 => t < trigger') /\ (opened # 0 => t < opened)
      BY <1>11, <3>1
    <3>3. \A c \in closing' : c.trigger = t => c.stage = "enriching"
      <4>1. \A c \in closing : c.trigger = t => c.stage = "enriching"
        BY <2>3 DEF Settled
      <4>2. opened # 0 => new.trigger # t
        BY <1>6, <1>7, <3>1, <3>2
      <4>. QED
        BY <1>13, <4>1, <4>2
    <3>4. Settled(t)'
      BY <3>2, <3>3 DEF Settled
    <3>. QED
      BY <1>3, <2>3, <3>4 DEF Kept
  <2>. QED
    BY <1>8, <2>1, <2>2, <2>3 DEF SeenInv, Kept
<1>16. SeenInv'
  <2>1. seen' \subseteq written'
    BY <1>3, <1>8 DEF SeenInv
  <2>2. \A f \in news : Kept(f)'
    BY <1>4, <1>14
  <2>3. \A f \in seen' \ abandoned' : Kept(f)'
    BY <1>3, <1>15, <2>2
  <2>. QED
    BY <2>1, <2>3 DEF SeenInv
<1>. QED
  BY <1>3, <1>9, <1>10, <1>12, <1>16, CaptureResting DEF EventInv

-----------------------------------------------------------------------------
(* The close tasks and the shutdown.                                       *)

\* A step of a close task leaves the state of the camera alone.
CameraRests == CaptureRests /\ UNCHANGED <<lastPoll, trigger, lastMotion, mode, seen, abandoned>>

LEMMA CloseFacts ==
  ASSUME EventInv, NEW c \in closing
  PROVE  /\ c \in CloseTask /\ c.trigger \in Times /\ c.trigger \in Nat
         /\ c.from \in Int /\ c.to \in Int /\ c.frames \subseteq BufferedFrame
         /\ c.trigger < lastPoll /\ (trigger # 0 => c.trigger < trigger)
         /\ mode # "drained" /\ RecorderInv
         /\ \A d \in closing : d # c => d.trigger # c.trigger
<1>1. closing \subseteq CloseTask /\ RecorderInv /\ ClosingInv
  BY DEF EventInv, EventTypes, EventsTypeOK
<1>2. c.trigger \in Times /\ c.from \in Int /\ c.to \in Int /\ c.frames \subseteq BufferedFrame
  BY <1>1 DEF CloseTask
<1>. QED
  BY <1>1, <1>2, EventTimes DEF ClosingInv

\* The next stage of a task, and the frames it then holds.
Advanced(c, stage, frames) ==
  [trigger |-> c.trigger, from |-> c.from, to |-> c.to, stage |-> stage, frames |-> frames]

\* A task moves on: what the disk says of other events stays, and what it says of
\* this one is complete when the task has come to the enrichment.
LEMMA CloseStep ==
  ASSUME EventInv, CameraRests, NEW c \in closing,
         NEW stage \in {"writing", "listing", "enriching"},
         NEW frames \in SUBSET BufferedFrame,
         c.stage # "enriching",
         closing' = (closing \ {c}) \cup {Advanced(c, stage, frames)},
         DOMAIN disk' = DOMAIN disk \/ DOMAIN disk' = DOMAIN disk \cup {c.trigger},
         \A t \in DOMAIN disk : t # c.trigger => disk'[t] = disk[t],
         \A t \in DOMAIN disk' : disk'[t].files \subseteq BufferedFrame
                                 /\ disk'[t].index \subseteq BufferedFrame,
         stage = "enriching" =>
           c.trigger \in DOMAIN disk' /\ disk'[c.trigger] = [files |-> frames, index |-> frames],
         \A f \in seen : (IF c.stage = "new" THEN Within(f, c.from, c.to) ELSE f \in c.frames)
                           => f \in frames
  PROVE  EventInv'
<1> DEFINE d == Advanced(c, stage, frames)
<1>1. /\ d \in CloseTask /\ d.trigger = c.trigger /\ d.stage = stage /\ d.frames = frames
      /\ closing' = (closing \ {c}) \cup {d}
  BY CloseFacts DEF Advanced, CloseTask
<1>. HIDE DEF d
<1>2. /\ CaptureRests /\ UNCHANGED <<clock, written, lastPoll, trigger, lastMotion, mode, seen, abandoned>>
  BY DEF CameraRests, CaptureRests, captureVars
<1>3. /\ RecorderInv /\ ClosingInv /\ SeenInv /\ EventsTypeOK /\ DOMAIN disk \subseteq Times
  BY DEF EventInv, EventTypes
<1>4. EventTypes'
  <2>1. DOMAIN disk' \subseteq Times
    BY <1>3, CloseFacts
  <2>2. closing' \subseteq CloseTask
    BY <1>1, <1>3 DEF EventsTypeOK
  <2>3. /\ lastPoll' \in Times /\ trigger' \in Times /\ lastMotion' \in Times
        /\ mode' \in {"running", "stopping", "drained", "cut"} /\ seen' \subseteq BufferedFrame /\ abandoned' \subseteq seen'
    BY <1>2, <1>3 DEF EventsTypeOK
  <2>. QED
    BY <1>2, <2>1, <2>2, <2>3, RecorderTypes
<1>5. RecorderInv'
  <2>1. lastPoll # 0
    BY <1>3, CloseFacts, EventTimes
  <2>. QED
    BY <1>2, <1>3, <2>1 DEF RecorderInv
<1>6. ClosingInv'
  <2>1. ASSUME NEW e \in closing'
        PROVE  /\ e.trigger < lastPoll' /\ (trigger' # 0 => e.trigger < trigger')
               /\ e.stage = "new" => e.from < e.to /\ e.from + Span >= clock'
               /\ e.stage = "enriching" =>
                    /\ e.trigger \in DOMAIN disk'
                    /\ disk'[e.trigger] = [files |-> e.frames, index |-> e.frames]
    <3>1. CASE e \in closing /\ e # c
      <4>1. e.trigger # c.trigger
        BY <3>1, CloseFacts
      <4>2. /\ e.trigger < lastPoll /\ (trigger # 0 => e.trigger < trigger)
            /\ e.stage = "new" => e.from < e.to /\ e.from + Span >= clock
            /\ e.stage = "enriching" =>
                 /\ e.trigger \in DOMAIN disk
                 /\ disk[e.trigger] = [files |-> e.frames, index |-> e.frames]
        BY <1>3, <3>1 DEF ClosingInv
      <4>3. e.stage = "enriching" =>
              /\ e.trigger \in DOMAIN disk'
              /\ disk'[e.trigger] = [files |-> e.frames, index |-> e.frames]
        BY <4>1, <4>2
      <4>. QED
        BY <1>2, <4>2, <4>3
    <3>2. CASE e = d
      <4>1. c.trigger < lastPoll /\ (trigger # 0 => c.trigger < trigger)
        BY CloseFacts
      <4>2. e.stage # "new"
        BY <1>1, <3>2
      <4>3. e.stage = "enriching" =>
              /\ e.trigger \in DOMAIN disk'
              /\ disk'[e.trigger] = [files |-> e.frames, index |-> e.frames]
        BY <1>1, <3>2
      <4>. QED
        BY <1>1, <1>2, <3>2, <4>1, <4>2, <4>3
    <3>. QED
      BY <1>1, <3>1, <3>2
  <2>2. \A e, g \in closing' : e.trigger = g.trigger => e = g
    <3>1. \A e, g \in closing : e.trigger = g.trigger => e = g
      BY <1>3 DEF ClosingInv
    <3>2. \A e \in closing \ {c} : e.trigger # d.trigger
      BY <1>1, CloseFacts
    <3>. QED
      BY <1>1, <3>1, <3>2
  <2>3. mode' # "drained"
    BY <1>2, CloseFacts
  <2>. QED
    BY <2>1, <2>2, <2>3 DEF ClosingInv
<1>7. ASSUME NEW f \in seen \ abandoned
      PROVE  Kept(f)'
  <2>1. CASE trigger # 0 /\ Within(f, trigger - PreRoll, lastMotion + PostRoll)
    BY <1>2, <2>1 DEF Kept, Within
  <2>2. ASSUME NEW e \in closing, IF e.stage = "new" THEN Within(f, e.from, e.to) ELSE f \in e.frames
        PROVE  Kept(f)'
    <3>1. CASE e = c
      <4>1. f \in d.frames /\ d.stage # "new" /\ d \in closing'
        BY <1>1, <2>2, <3>1
      <4>. QED
        BY <4>1 DEF Kept
    <3>2. CASE e # c
      <4>1. e \in closing'
        BY <1>1, <3>2
      <4>. QED
        BY <2>2, <4>1 DEF Kept, Within
    <3>. QED
      BY <3>1, <3>2
  <2>3. ASSUME NEW t \in DOMAIN disk, f \in disk[t].files, f \in disk[t].index, Settled(t)
        PROVE  Kept(f)'
    <3>1. t # c.trigger
      BY <2>3 DEF Settled
    <3>2. t \in DOMAIN disk' /\ disk'[t] = disk[t]
      BY <3>1
    <3>3. Settled(t)'
      <4>1. \A e \in closing' : e.trigger = t => e.stage = "enriching"
        BY <1>1, <2>3, <3>1 DEF Settled
      <4>. QED
        BY <1>2, <2>3, <4>1 DEF Settled
    <3>. QED
      BY <2>3, <3>2, <3>3 DEF Kept
  <2>. QED
    BY <1>3, <2>1, <2>2, <2>3 DEF SeenInv, Kept
<1>8. SeenInv'
  BY <1>2, <1>3, <1>7 DEF SeenInv
<1>. QED
  BY <1>2, <1>4, <1>5, <1>6, <1>8, CaptureResting DEF EventInv

\* A task goes away: what it held is of no use, or complete on disk.
LEMMA CloseEnds ==
  ASSUME EventInv, CameraRests, UNCHANGED disk, NEW c \in closing,
         closing' = closing \ {c},
         \/ c.stage = "enriching"
         \/ c.stage = "new" /\ \A f \in seen : ~ Within(f, c.from, c.to)
  PROVE  EventInv'
<1>2. /\ CaptureRests /\ UNCHANGED <<clock, written, lastPoll, trigger, lastMotion, mode, seen, abandoned>>
  BY DEF CameraRests, CaptureRests, captureVars
<1>3. /\ RecorderInv /\ ClosingInv /\ SeenInv /\ EventsTypeOK /\ DOMAIN disk \subseteq Times
  BY DEF EventInv, EventTypes
<1>4. EventTypes'
  <2>3. /\ lastPoll' \in Times /\ trigger' \in Times /\ lastMotion' \in Times
        /\ mode' \in {"running", "stopping", "drained", "cut"} /\ seen' \subseteq BufferedFrame /\ abandoned' \subseteq seen'
        /\ closing' \subseteq CloseTask
        /\ \A t \in DOMAIN disk' : disk'[t].files \subseteq BufferedFrame
                                   /\ disk'[t].index \subseteq BufferedFrame
    BY <1>2, <1>3 DEF EventsTypeOK
  <2>. QED
    BY <1>2, <1>3, <2>3, RecorderTypes
<1>5. RecorderInv'
  <2>1. lastPoll # 0
    BY <1>3, CloseFacts, EventTimes
  <2>. QED
    BY <1>2, <1>3, <2>1 DEF RecorderInv
<1>6. ClosingInv'
  <2>1. mode' # "drained"
    BY <1>2, CloseFacts
  <2>. QED
    BY <1>2, <1>3, <2>1 DEF ClosingInv
<1>7. \A t : Settled(t) => Settled(t)'
  BY <1>2 DEF Settled
<1>8. ASSUME NEW f \in seen \ abandoned
      PROVE  Kept(f)'
  <2>1. CASE trigger # 0 /\ Within(f, trigger - PreRoll, lastMotion + PostRoll)
    BY <1>2, <2>1 DEF Kept, Within
  <2>2. ASSUME NEW e \in closing, IF e.stage = "new" THEN Within(f, e.from, e.to) ELSE f \in e.frames
        PROVE  Kept(f)'
    <3>1. CASE e = c
      <4>1. c.stage = "enriching" /\ f \in c.frames
        BY <2>2, <3>1
      <4>2. /\ c.trigger \in DOMAIN disk
            /\ disk[c.trigger] = [files |-> c.frames, index |-> c.frames]
        BY <1>3, <4>1 DEF ClosingInv
      <4>3. f \in disk[c.trigger].files /\ f \in disk[c.trigger].index
        BY <4>1, <4>2
      <4>4. Settled(c.trigger)'
        BY <1>2, CloseFacts DEF Settled
      <4>. QED
        BY <4>2, <4>3, <4>4 DEF Kept
    <3>2. CASE e # c
      <4>1. e \in closing'
        BY <3>2
      <4>. QED
        BY <2>2, <4>1 DEF Kept, Within
    <3>. QED
      BY <3>1, <3>2
  <2>3. ASSUME NEW t \in DOMAIN disk, f \in disk[t].files, f \in disk[t].index, Settled(t)
        PROVE  Kept(f)'
    BY <1>7, <2>3 DEF Kept
  <2>. QED
    BY <1>3, <2>1, <2>2, <2>3 DEF SeenInv, Kept
<1>9. SeenInv'
  BY <1>2, <1>3, <1>8 DEF SeenInv
<1>. QED
  BY <1>2, <1>4, <1>5, <1>6, <1>9, CaptureResting DEF EventInv

\* What a task copies when it starts is every frame of its window.
LEMMA SnapshotFacts ==
  ASSUME EventSizes, EventInv, NEW c \in closing, Snapshot(c)
  PROVE  LET frames == {f \in written : Within(f, c.from, c.to)} IN
         /\ CameraRests /\ UNCHANGED disk /\ c.stage = "new"
         /\ closing' = (closing \ {c}) \cup
              (IF frames = {} THEN {} ELSE {Advanced(c, "writing", frames)})
<1> DEFINE frames == {f \in written : Within(f, c.from, c.to)}
<1>1. /\ c.stage = "new" /\ CameraRests /\ UNCHANGED disk
      /\ closing' = (closing \ {c}) \cup
           (IF FramesAt(Window(c.from, c.to)) = {} THEN {}
            ELSE {[c EXCEPT !.stage = "writing", !.frames = FramesAt(Window(c.from, c.to))]})
  BY DEF Snapshot, CameraRests, CaptureRests
<1>2. c.from < c.to /\ c.from + Span >= clock /\ c.from \in Int /\ c.to \in Int
  BY <1>1, CloseFacts DEF EventInv, ClosingInv
<1>3. Window(c.from, c.to) = {i \in DOMAIN buf : c.from <= buf[i].ts /\ buf[i].ts <= c.to}
  BY <1>2 DEF Window
<1>4. ASSUME NEW f \in frames PROVE f \in FramesAt(Window(c.from, c.to))
  <2>1. f \in written /\ c.from <= f.ts /\ f.ts <= c.to
    BY DEF Within
  <2>2. f.ts \in Nat
    BY <2>1, FrameTimes
  <2>3. f.ts + Span >= clock
    BY <1>2, <2>1, <2>2, EventBounds, EventTimes
  <2>4. PICK i \in DOMAIN buf : buf[i] = f
    BY <2>1, <2>3 DEF EventInv, BufferInv
  <2>. QED
    BY <1>3, <2>1, <2>4 DEF FramesAt
<1>5. ASSUME NEW f \in FramesAt(Window(c.from, c.to)) PROVE f \in frames
  <2>1. PICK i \in DOMAIN buf : f = buf[i] /\ c.from <= buf[i].ts /\ buf[i].ts <= c.to
    BY <1>3 DEF FramesAt
  <2>. QED
    BY <2>1, BufferFacts DEF Within
<1>6. FramesAt(Window(c.from, c.to)) = frames
  BY <1>4, <1>5
<1>7. [c EXCEPT !.stage = "writing", !.frames = frames] = Advanced(c, "writing", frames)
  <2>. HIDE DEF frames
  <2> DEFINE d == [c EXCEPT !.stage = "writing"]
  <2>1. d = Advanced(c, "writing", c.frames)
    BY CloseFacts DEF Advanced, CloseTask
  <2>2. [c EXCEPT !.stage = "writing", !.frames = frames] = [d EXCEPT !.frames = frames]
    OBVIOUS
  <2>. HIDE DEF d
  <2>. QED
    BY <2>1, <2>2 DEF Advanced
<1>. QED
  BY <1>1, <1>6, <1>7

LEMMA SnapshotStep ==
  ASSUME EventSizes, EventInv, NEW c \in closing, Snapshot(c)
  PROVE  EventInv'
<1> DEFINE frames == {f \in written : Within(f, c.from, c.to)}
<1>1. /\ CameraRests /\ UNCHANGED disk /\ c.stage = "new"
      /\ closing' = (closing \ {c}) \cup
           (IF frames = {} THEN {} ELSE {Advanced(c, "writing", frames)})
  BY SnapshotFacts
<1>2. \A f \in seen : Within(f, c.from, c.to) => f \in frames
  BY DEF EventInv, SeenInv
<1>3. written \subseteq BufferedFrame
      /\ \A t \in DOMAIN disk : disk[t].files \subseteq BufferedFrame
                                /\ disk[t].index \subseteq BufferedFrame
  BY DEF EventInv, EventTypes, EventsTypeOK
<1>. frames \in SUBSET BufferedFrame
  BY <1>3
<1>. HIDE DEF frames
<1>4. CASE frames = {}
  <2>1. closing' = closing \ {c} /\ \A f \in seen : ~ Within(f, c.from, c.to)
    BY <1>1, <1>2, <1>4
  <2>. QED
    BY <1>1, <2>1, CloseEnds
<1>5. CASE frames # {}
  <2>1. closing' = (closing \ {c}) \cup {Advanced(c, "writing", frames)}
    BY <1>1, <1>5
  <2>2. \A f \in seen : (IF c.stage = "new" THEN Within(f, c.from, c.to) ELSE f \in c.frames)
                          => f \in frames
    BY <1>1, <1>2
  <2>3. "writing" \in {"writing", "listing", "enriching"} /\ "writing" # "enriching"
    OBVIOUS
  <2>4. c.stage # "enriching"
    BY <1>1
  <2>5. /\ DOMAIN disk' = DOMAIN disk
        /\ \A t \in DOMAIN disk : t # c.trigger => disk'[t] = disk[t]
        /\ \A t \in DOMAIN disk' : disk'[t].files \subseteq BufferedFrame
                                   /\ disk'[t].index \subseteq BufferedFrame
    BY <1>1, <1>3
  <2>. QED
    BY <1>1, <2>1, <2>2, <2>3, <2>4, <2>5, CloseStep
<1>. QED
  BY <1>4, <1>5

\* The two writes of the thread, and the end of the task.
LEMMA WriteStep ==
  ASSUME EventInv, NEW c \in closing, WriteFiles(c) \/ WriteManifest(c)
  PROVE  EventInv' /\ \E stage \in {"listing", "enriching"} :
                        closing' = (closing \ {c}) \cup {Advanced(c, stage, c.frames)}
<1>1. c.frames \in SUBSET BufferedFrame /\ c \in CloseTask /\ c.trigger \in Times
  BY CloseFacts
<1>2. \A t \in DOMAIN disk : disk[t].files \subseteq BufferedFrame
                             /\ disk[t].index \subseteq BufferedFrame
  BY DEF EventInv, EventTypes, EventsTypeOK
<1>3. PICK stage \in {"listing", "enriching"}, index \in {{}, c.frames} :
        /\ CameraRests /\ Advance(c, stage) /\ Stored(c.trigger, c.frames, index)
        /\ c.stage \in {"writing", "listing"}
        /\ stage = "enriching" => index = c.frames
  BY DEF WriteFiles, WriteManifest, CameraRests, CaptureRests
<1>4. closing' = (closing \ {c}) \cup {Advanced(c, stage, c.frames)}
  <2>1. [c EXCEPT !.stage = stage] = Advanced(c, stage, c.frames)
    BY <1>1 DEF Advanced, CloseTask
  <2>. QED
    BY <1>3, <2>1 DEF Advance
<1>5. /\ DOMAIN disk' = DOMAIN disk \cup {c.trigger}
      /\ \A t \in DOMAIN disk : t # c.trigger => disk'[t] = disk[t]
      /\ disk'[c.trigger] = [files |-> c.frames, index |-> index]
  BY <1>3 DEF Stored
<1>6. \A t \in DOMAIN disk' : disk'[t].files \subseteq BufferedFrame
                              /\ disk'[t].index \subseteq BufferedFrame
  <2> SUFFICES ASSUME NEW t \in DOMAIN disk'
               PROVE  disk'[t].files \subseteq BufferedFrame /\ disk'[t].index \subseteq BufferedFrame
    OBVIOUS
  <2>1. CASE t = c.trigger
    <3>1. disk'[t].files = c.frames /\ disk'[t].index = index
      BY <1>5, <2>1
    <3>. QED
      BY <1>1, <1>3, <3>1
  <2>2. CASE t # c.trigger
    BY <1>2, <1>5, <2>2
  <2>. QED
    BY <2>1, <2>2
<1>7. c.stage # "enriching" /\ c.stage # "new"
  BY <1>3
<1>8. stage = "enriching" =>
        /\ c.trigger \in DOMAIN disk'
        /\ disk'[c.trigger] = [files |-> c.frames, index |-> c.frames]
  BY <1>3, <1>5
<1>9. stage \in {"writing", "listing", "enriching"}
  OBVIOUS
<1>10. \A f \in seen : (IF c.stage = "new" THEN Within(f, c.from, c.to) ELSE f \in c.frames)
                         => f \in c.frames
  BY <1>7
<1>11. EventInv'
  BY <1>1, <1>3, <1>4, <1>5, <1>6, <1>7, <1>8, <1>9, <1>10, CloseStep
<1>. QED
  BY <1>4, <1>11

LEMMA EnrichedStep ==
  ASSUME EventInv, NEW c \in closing, Enriched(c)
  PROVE  EventInv'
<1>1. /\ CameraRests /\ UNCHANGED disk /\ c.stage = "enriching" /\ closing' = closing \ {c}
  BY DEF Enriched, CameraRests, CaptureRests
<1>. QED
  BY <1>1, CloseEnds

LEMMA ShutdownStep ==
  ASSUME EventInv, Stop \/ Drain
  PROVE  EventInv'
<1>1. /\ CaptureRests /\ UNCHANGED <<clock, written, lastPoll, trigger, lastMotion, closing, disk, seen, abandoned>>
      /\ \/ mode = "running" /\ mode' = "stopping"
         \/ mode = "stopping" /\ closing = {} /\ mode' = "drained"
  BY DEF Stop, Drain, CaptureRests, captureVars
<1>2. /\ RecorderInv /\ ClosingInv /\ SeenInv /\ EventsTypeOK /\ DOMAIN disk \subseteq Times
  BY DEF EventInv, EventTypes
<1>3. EventTypes'
  <2>1. /\ lastPoll' \in Times /\ trigger' \in Times /\ lastMotion' \in Times
        /\ mode' \in {"running", "stopping", "drained", "cut"} /\ seen' \subseteq BufferedFrame /\ abandoned' \subseteq seen'
        /\ closing' \subseteq CloseTask
        /\ \A t \in DOMAIN disk' : disk'[t].files \subseteq BufferedFrame
                                   /\ disk'[t].index \subseteq BufferedFrame
    BY <1>1, <1>2 DEF EventsTypeOK
  <2>. QED
    BY <1>1, <1>2, <2>1, RecorderTypes
<1>4. RecorderInv'
  BY <1>1, <1>2 DEF RecorderInv
<1>5. ClosingInv'
  BY <1>1, <1>2 DEF ClosingInv
<1>6. SeenInv'
  BY <1>1, <1>2 DEF SeenInv, Kept, Settled, Within
<1>. QED
  BY <1>1, <1>3, <1>4, <1>5, <1>6, CaptureResting DEF EventInv

\* The shutdown cancels tasks: what they held is complete on disk, or given up.
LEMMA CutStep ==
  ASSUME EventInv, CutShort
  PROVE  EventInv' /\ closing' \subseteq closing
<1>1. /\ CaptureRests /\ UNCHANGED <<clock, written, lastPoll, trigger, lastMotion, disk, seen>>
      /\ mode' = "cut" /\ closing # {}
  BY DEF CutShort, CaptureRests, captureVars
<1>2. /\ closing' \subseteq closing
      /\ \A c \in closing : c.stage = "listing" => c \in closing'
  BY DEF CutShort
<1>3. abandoned' = abandoned \cup
        {f \in seen : \E c \in closing \ closing' :
           IF c.stage = "new" THEN Within(f, c.from, c.to)
                              ELSE c.stage = "writing" /\ f \in c.frames}
  BY DEF CutShort
<1>4. /\ RecorderInv /\ ClosingInv /\ SeenInv /\ EventsTypeOK /\ DOMAIN disk \subseteq Times
  BY DEF EventInv, EventTypes
<1>5. EventTypes'
  <2>1. /\ lastPoll' \in Times /\ trigger' \in Times /\ lastMotion' \in Times
        /\ mode' \in {"running", "stopping", "drained", "cut"} /\ closing' \subseteq CloseTask
        /\ \A t \in DOMAIN disk' : disk'[t].files \subseteq BufferedFrame
                                   /\ disk'[t].index \subseteq BufferedFrame
    BY <1>1, <1>2, <1>4 DEF EventsTypeOK
  <2>2. seen' \subseteq BufferedFrame /\ abandoned' \subseteq seen'
    BY <1>1, <1>3, <1>4 DEF EventsTypeOK
  <2>. QED
    BY <1>1, <1>4, <2>1, <2>2, RecorderTypes
<1>6. RecorderInv'
  <2>1. lastPoll # 0
    BY <1>1, <1>4 DEF RecorderInv
  <2>. QED
    BY <1>1, <1>4, <2>1 DEF RecorderInv
<1>7. ClosingInv'
  BY <1>1, <1>2, <1>4 DEF ClosingInv
<1>8. \A t : Settled(t) => Settled(t)'
  BY <1>1, <1>2 DEF Settled
<1>9. ASSUME NEW f \in seen \ abandoned'
      PROVE  Kept(f)'
  <2>1. CASE trigger # 0 /\ Within(f, trigger - PreRoll, lastMotion + PostRoll)
    BY <1>1, <2>1 DEF Kept, Within
  <2>2. ASSUME NEW e \in closing, IF e.stage = "new" THEN Within(f, e.from, e.to) ELSE f \in e.frames
        PROVE  Kept(f)'
    <3>1. CASE e \in closing'
      BY <2>2, <3>1 DEF Kept, Within
    <3>2. CASE e \notin closing'
      <4>1. e.stage = "enriching" /\ f \in e.frames
        <5>1. e.stage \in {"new", "writing", "listing", "enriching"}
          BY <1>4 DEF EventsTypeOK, CloseTask
        <5>2. e.stage # "listing"
          BY <1>2, <3>2
        <5>3. ~ (IF e.stage = "new" THEN Within(f, e.from, e.to)
                                    ELSE e.stage = "writing" /\ f \in e.frames)
          BY <1>3, <3>2
        <5>. QED
          BY <2>2, <5>1, <5>2, <5>3
      <4>2. /\ e.trigger \in DOMAIN disk
            /\ disk[e.trigger] = [files |-> e.frames, index |-> e.frames]
        BY <1>4, <4>1 DEF ClosingInv
      <4>3. f \in disk[e.trigger].files /\ f \in disk[e.trigger].index
        BY <4>1, <4>2
      <4>4. Settled(e.trigger)'
        <5>1. \A d \in closing' : d.trigger = e.trigger => d.stage = "enriching"
          BY <1>2, <4>1, CloseFacts
        <5>2. e.trigger < lastPoll /\ (trigger # 0 => e.trigger < trigger)
          BY CloseFacts
        <5>. QED
          BY <1>1, <5>1, <5>2 DEF Settled
      <4>. QED
        BY <1>1, <4>2, <4>3, <4>4 DEF Kept
    <3>. QED
      BY <3>1, <3>2
  <2>3. ASSUME NEW t \in DOMAIN disk, f \in disk[t].files, f \in disk[t].index, Settled(t)
        PROVE  Kept(f)'
    BY <1>1, <1>8, <2>3 DEF Kept
  <2>4. Kept(f)
    BY <1>3, <1>4 DEF SeenInv
  <2>. QED
    BY <2>1, <2>2, <2>3, <2>4 DEF Kept
<1>10. SeenInv'
  BY <1>1, <1>4, <1>9 DEF SeenInv
<1>. QED
  BY <1>1, <1>2, <1>5, <1>6, <1>7, <1>10, CaptureResting DEF EventInv

LEMMA EventStutter ==
  ASSUME EventInv, UNCHANGED eventVars
  PROVE  EventInv'
<1>1. /\ CaptureRests /\ UNCHANGED <<clock, written, lastPoll, trigger, lastMotion, closing,
                                     disk, mode, seen, abandoned>>
  BY DEF eventVars, captureVars, recorderVars, CaptureRests
<1>2. RecorderRests /\ written \subseteq written' /\ clock' = clock
  BY <1>1 DEF RecorderRests, recorderVars
<1>3. RecorderInv' /\ ClosingInv' /\ SeenInv'
  BY <1>2, RecorderResting
<1>4. EventTypes'
  BY <1>1 DEF EventInv, EventTypes, EventsTypeOK, CaptureRests, captureVars
<1>. QED
  BY <1>1, <1>3, <1>4, CaptureResting DEF EventInv

\* With the sizes right, EventInv is an inductive invariant of the recorder.
LEMMA EventsSafe ==
  ASSUME EventSizes
  PROVE  EventsSpec => []EventInv
<1>1. EventInv /\ [EventsNext]_eventVars => EventInv'
  <2> SUFFICES ASSUME EventInv, [EventsNext]_eventVars PROVE EventInv'
    OBVIOUS
  <2>1. CASE Tick \/ TakeFrame \/ \E f \in encoding : WriteFrame(f)
    BY <2>1, CaptureStep
  <2>2. CASE Poll
    BY <2>2, PollStep
  <2>3. ASSUME NEW c \in closing, Snapshot(c) \/ WriteFiles(c) \/ WriteManifest(c) \/ Enriched(c)
        PROVE  EventInv'
    BY <2>3, SnapshotStep, WriteStep, EnrichedStep
  <2>4. CASE Stop \/ Drain
    BY <2>4, ShutdownStep
  <2>5. CASE CutShort
    BY <2>5, CutStep
  <2>6. CASE Restart
    BY <2>6, RestartStep
  <2>7. CASE UNCHANGED eventVars
    BY <2>7, EventStutter
  <2>. QED
    BY <2>1, <2>2, <2>3, <2>4, <2>5, <2>6, <2>7 DEF EventsNext
<1>. QED
  BY <1>1, EventsStart, PTL DEF EventsSpec

\* The durable sink keeps what it was given: whatever the order in which the
\* workers finish and whatever the buffer evicts, a motion frame that a poll has
\* returned (EventRecorder._tick) stays covered by the open event, by a close under
\* way or by an event on disk, and no later event overwrites that one; only the
\* bound on the shutdown (_run) takes one away, with its close task.
THEOREM SeenIsKept ==
  ASSUME EventSizes
  PROVE  EventsSpec => []SeenMotionIsKept
<1>1. EventInv => SeenMotionIsKept
  BY DEF EventInv, SeenInv, Kept, Covered, SeenMotionIsKept
<1>. QED
  BY <1>1, EventsSafe, PTL

\* The buffer still has every frame of an event's window when the event is
\* closed, however full it is: what _close_event copies is what was written.
THEOREM BufferServes ==
  ASSUME EventSizes
  PROVE  EventsSpec => BufferServesTheWindow
<1>1. EventInv /\ [EventsNext]_eventVars =>
        [\A c \in closing' \ closing : c.stage = "writing" =>
           c.frames = {f \in written : Within(f, c.from, c.to)}]_eventVars
  <2> SUFFICES ASSUME EventInv, [EventsNext]_eventVars, NEW c \in closing' \ closing,
                      c.stage = "writing"
               PROVE  c.frames = {f \in written : Within(f, c.from, c.to)}
    OBVIOUS
  <2>1. CASE \/ Tick \/ TakeFrame \/ \E f \in encoding : WriteFrame(f)
             \/ Stop \/ Drain \/ Restart \/ UNCHANGED eventVars
    <3>1. closing' \subseteq closing
      BY <2>1 DEF Tick, TakeFrame, WriteFrame, Stop, Drain, Restart, eventVars, recorderVars
    <3>. QED
      BY <3>1
  <2>6. CASE CutShort
    BY <2>6, CutStep
  <2>2. CASE Poll
    <3>1. PICK opened \in Times, last \in Times : \E news \in SUBSET written :
            PollOutcome(opened, last, news)
      BY <2>2, PollFacts
    <3>2. closing' \subseteq closing \cup {NewClose(opened, last)}
      BY <3>1 DEF PollOutcome
    <3>. QED
      BY <3>2 DEF NewClose
  <2>3. ASSUME NEW d \in closing, Snapshot(d)
        PROVE  c.frames = {f \in written : Within(f, c.from, c.to)}
    <3> DEFINE frames == {f \in written : Within(f, d.from, d.to)}
    <3>1. closing' = (closing \ {d}) \cup
            (IF frames = {} THEN {} ELSE {Advanced(d, "writing", frames)})
      BY <2>3, SnapshotFacts
    <3>2. c = Advanced(d, "writing", frames)
      BY <3>1
    <3>. QED
      BY <3>2 DEF Advanced
  <2>4. ASSUME NEW d \in closing, WriteFiles(d) \/ WriteManifest(d)
        PROVE  FALSE
    <3>1. PICK stage \in {"listing", "enriching"} :
            closing' = (closing \ {d}) \cup {Advanced(d, stage, d.frames)}
      BY <2>4, WriteStep
    <3>. QED
      BY <3>1 DEF Advanced
  <2>5. ASSUME NEW d \in closing, Enriched(d)
        PROVE  FALSE
    BY <2>5 DEF Enriched
  <2>. QED
    BY <2>1, <2>2, <2>3, <2>4, <2>5, <2>6 DEF EventsNext
<1>. QED
  BY <1>1, EventsSafe, PTL DEF EventsSpec, BufferServesTheWindow

\* Whatever the sizes and wherever a crash falls (Restart after any step), no
\* event.json lists a frame that is not there: _write_event writes it last.
THEOREM ManifestsAreTrue == EventsSpec => []ManifestIsTrue
<1>1. EventsInit => ManifestIsTrue
  BY DEF EventsInit, ManifestIsTrue
<1>2. ManifestIsTrue /\ [EventsNext]_eventVars => ManifestIsTrue'
  <2> SUFFICES ASSUME ManifestIsTrue, [EventsNext]_eventVars PROVE ManifestIsTrue'
    OBVIOUS
  <2>1. ASSUME UNCHANGED disk PROVE ManifestIsTrue'
    BY <2>1 DEF ManifestIsTrue
  <2>2. ASSUME NEW c, NEW index \in {{}, c.frames}, Stored(c.trigger, c.frames, index)
        PROVE  ManifestIsTrue'
    <3> SUFFICES ASSUME NEW t \in DOMAIN disk'
                 PROVE  disk'[t].index \subseteq disk'[t].files
      BY DEF ManifestIsTrue
    <3>1. CASE t = c.trigger
      <4>1. disk'[t] = [files |-> c.frames, index |-> index]
        BY <2>2, <3>1 DEF Stored
      <4>. QED
        BY <2>2, <4>1
    <3>2. CASE t # c.trigger
      <4>1. t \in DOMAIN disk /\ disk'[t] = disk[t]
        BY <2>2, <3>2 DEF Stored
      <4>. QED
        BY <4>1 DEF ManifestIsTrue
    <3>. QED
      BY <3>1, <3>2
  <2>3. CASE Tick \/ TakeFrame \/ \E f \in encoding : WriteFrame(f)
    BY <2>1, <2>3 DEF Tick, TakeFrame, WriteFrame, recorderVars
  <2>4. CASE Poll \/ Stop \/ Drain \/ CutShort \/ Restart \/ UNCHANGED eventVars
    BY <2>1, <2>4 DEF Poll, Stop, Drain, CutShort, Restart, eventVars, recorderVars
  <2>5. ASSUME NEW c \in closing, Snapshot(c) \/ WriteFiles(c) \/ WriteManifest(c) \/ Enriched(c)
        PROVE  ManifestIsTrue'
    BY <2>1, <2>2, <2>5 DEF Snapshot, WriteFiles, WriteManifest, Enriched
  <2>. QED
    BY <2>3, <2>4, <2>5 DEF EventsNext
<1>. QED
  BY <1>1, <1>2, PTL DEF EventsSpec

=============================================================================
