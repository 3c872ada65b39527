--------------------------- MODULE TriageBusProofs ---------------------------
(***************************************************************************)
(* Proofs about TriageBus: what an acknowledgement promises, and that the  *)
(* deque and the dict of the dedup cache say the same, through failures,   *)
(* redeliveries and restarts.                                              *)
(***************************************************************************)
EXTENDS TriageBus, FiniteSetTheorems, SequenceTheorems, TLAPS

Times   == 0..MaxTime
Entries == Sigs \X Times

----------------------------------------------------------------------------
(* The inductive invariant.                                                *)

\* What was not sent was not delivered.
UnsentInv == \A m \in Messages : stream[m] = "unsent" => delivered[m] = 0

\* What has used up its deliveries is not delivered again.
ReadyInv == \A m \in Messages : stream[m] = "ready" => delivered[m] < MaxDeliver

\* No signature has two entries, and they stand in the order of time.
SigsOf(c) == {c[i][1] : i \in 1..Len(c)}

Orderly(c, now) ==
  /\ c \in Seq(Entries)
  /\ \A i, j \in 1..Len(c) : i # j => c[i][1] # c[j][1]
  /\ \A i, j \in 1..Len(c) : i < j => c[i][2] <= c[j][2]
  /\ \A i \in 1..Len(c) : c[i][2] <= now

CacheInv ==
  /\ Orderly(entries, clock)
  /\ index = SigsOf(entries)
  /\ Len(entries) <= MaxEntries

\* What was handled accounts for a signature.
AccountsFor(x, sig) ==
  /\ Signature[x.msg[1]] = sig
  /\ x.what # "suppressed"
  /\ Score[x.msg[1]] = "sensor.bypass" => x.what \in {"sensor.bypass", "failed"}

Accounted(sig) == \E x \in log : AccountsFor(x, sig)

\* A signature is remembered before its event is published: in between the
\* loop, suspended in the publish, is what accounts for it.
IndexInv ==
  \A s \in index :
    \/ Accounted(s)
    \/ loop.at = "publish" /\ Signature[loop.msg[1]] = s

LoopInv ==
  /\ loop.at = "ack" => Accounted(Signature[loop.msg[1]])
  /\ loop.at = "publish" =>
       (Score[loop.msg[1]] = "sensor.bypass" => loop.tier = "sensor.bypass")

AckInv == IndexInv /\ LoopInv /\ AckedIsAccountedFor

IInv == TypeOK /\ UnsentInv /\ ReadyInv /\ CacheInv /\ AckInv

----------------------------------------------------------------------------
(* The cache: what is_dup does to deque and dict.                          *)

LEMMA NatMin ==
  ASSUME NEW S \in SUBSET Nat, S # {}
  PROVE  \E x \in S : \A y \in S : x <= y
  <1> DEFINE R == {ss \in Nat \X Nat : ss[1] < ss[2]}
  <1>1. IsWellFoundedOn(R, Nat)
    BY NatLessThanWellFounded DEF OpToRel
  <1> HIDE DEF R
  <1>2. PICK x \in S : \A y \in S : <<y, x>> \notin R
    BY <1>1, WFMin
  <1>3. ASSUME NEW y \in S PROVE x <= y
    <2>1. x \in Nat /\ y \in Nat
      OBVIOUS
    <2>2. ~ (y < x)
      BY <1>2, <2>1 DEF R
    <2>3. QED
      BY <2>1, <2>2
  <1>4. QED
    BY <1>3

\* What _evict leaves is an end of the deque.
LEMMA RecentIsAnEnd ==
  ASSUME NEW now, entries \in Seq(Entries)
  PROVE  \E k \in 0..Len(entries) : Recent(now) = SubSeq(entries, k + 1, Len(entries))
  <1> DEFINE I == {i \in 1..Len(entries) : entries[i][2] + Window >= now}
  <1>1. CASE I = {}
    <2>1. Recent(now) = << >>
      BY <1>1 DEF Recent, SelectInSeq
    <2>2. SubSeq(entries, Len(entries) + 1, Len(entries)) = << >>
      OBVIOUS
    <2>3. QED
      BY <2>1, <2>2
  <1>2. CASE I # {}
    <2>1. I \in SUBSET Nat
      BY DEF Entries
    <2>2. PICK m \in I : \A y \in I : m <= y
      <3> HIDE DEF I
      <3> QED BY <1>2, <2>1, NatMin
    <2>3. Min(I) \in I
      BY <2>2 DEF Min
    <2>5. Min(I) \in 1..Len(entries)
      BY <2>3
    <2>6. Recent(now) = SubSeq(entries, Min(I), Len(entries))
      <3> DEFINE first == SelectInSeq(entries, LAMBDA x : x[2] + Window >= now)
      <3>1. first = Min(I)
        BY <1>2 DEF SelectInSeq
      <3>2. Recent(now) = IF first = 0 THEN << >> ELSE SubSeq(entries, first, Len(entries))
        BY DEF Recent
      <3> HIDE DEF first, I
      <3>3. QED
        BY <3>1, <3>2, <2>5
    <2>7. Min(I) - 1 \in 0..Len(entries) /\ Min(I) = (Min(I) - 1) + 1
      BY <2>5
    <2>8. QED
      BY <2>6, <2>7
  <1>3. QED
    BY <1>1, <1>2

LEMMA RecentIsOrderly ==
  ASSUME NEW now \in Nat, Orderly(entries, now), index = SigsOf(entries)
  PROVE  /\ Orderly(Recent(now), now)
         /\ Len(Recent(now)) <= Len(entries)
         /\ Indexed(ToSet(entries) \ ToSet(Recent(now))) = SigsOf(Recent(now))
  <1>1. PICK k \in 0..Len(entries) : Recent(now) = SubSeq(entries, k + 1, Len(entries))
    BY RecentIsAnEnd DEF Orderly
  <1> DEFINE recent == Recent(now)
  <1> HIDE DEF recent
  <1>2. /\ recent \in Seq(Entries)
        /\ Len(recent) = Len(entries) - k
        /\ \A i \in 1..Len(recent) : recent[i] = entries[k + i]
    BY <1>1, SubSeqProperties DEF Orderly, recent
  <1>3. Orderly(recent, now)
    <2>1. \A i \in 1..Len(recent) : k + i \in 1..Len(entries)
      BY <1>2 DEF Orderly
    <2>2. ASSUME NEW i \in 1..Len(recent), NEW j \in 1..Len(recent), i # j
          PROVE  recent[i][1] # recent[j][1]
      <3>1. k + i # k + j /\ k + i \in 1..Len(entries) /\ k + j \in 1..Len(entries)
        BY <2>1, <2>2, <1>2
      <3>2. recent[i] = entries[k + i] /\ recent[j] = entries[k + j]
        BY <1>2
      <3>3. QED
        BY <3>1, <3>2 DEF Orderly
    <2>3. ASSUME NEW i \in 1..Len(recent), NEW j \in 1..Len(recent), i < j
          PROVE  recent[i][2] <= recent[j][2]
      <3>1. k + i < k + j
        BY <2>3, <1>2
      <3>2. QED
        BY <1>2, <2>1, <3>1 DEF Orderly
    <2>4. \A i \in 1..Len(recent) : recent[i][2] <= now
      BY <1>2, <2>1 DEF Orderly
    <2>5. QED
      BY <1>2, <2>2, <2>3, <2>4 DEF Orderly
  <1>4. Indexed(ToSet(entries) \ ToSet(recent)) = SigsOf(recent)
    <2>1. \A i \in 1..Len(entries) : i > k => entries[i] = recent[i - k] /\ i - k \in 1..Len(recent)
      BY <1>2 DEF Orderly
    <2>2. \A i \in 1..Len(recent) : k + i \in 1..Len(entries) /\ k + i > k /\ recent[i] = entries[k + i]
      BY <1>2 DEF Orderly
    <2>3. ASSUME NEW i \in 1..Len(entries), entries[i] \in ToSet(recent)
          PROVE  i > k
      <3>1. PICK j \in 1..Len(recent) : recent[j] = entries[i]
        BY <1>2, <2>3 DEF ToSet
      <3>2. k + j = i
        BY <3>1, <2>2 DEF Orderly
      <3>3. QED
        BY <3>2
    <2>4. \A i \in 1..Len(entries) : i > k => entries[i] \in ToSet(recent)
      BY <2>1, <1>2 DEF ToSet
    <2>5. ASSUME NEW s \in SigsOf(entries)
          PROVE  s \in {x[1] : x \in ToSet(entries) \ ToSet(recent)} <=> s \notin SigsOf(recent)
      <3>1. PICK i \in 1..Len(entries) : entries[i][1] = s
        BY DEF SigsOf
      <3>2. CASE i > k
        <4>1. s \in SigsOf(recent)
          BY <2>1, <3>1, <3>2 DEF SigsOf
        <4>2. ASSUME NEW x \in ToSet(entries) \ ToSet(recent) PROVE x[1] # s
          <5>1. PICK n \in 1..Len(entries) : x = entries[n]
            BY DEF ToSet, Orderly
          <5>2. ~ n > k
            BY <5>1, <2>4
          <5>3. QED
            BY <3>1, <3>2, <5>1, <5>2 DEF Orderly
        <4>3. QED
          BY <4>1, <4>2
      <3>3. CASE ~ i > k
        <4>1. entries[i] \in ToSet(entries) \ ToSet(recent)
          BY <2>3, <3>3 DEF ToSet, Orderly
        <4>2. ASSUME NEW n \in 1..Len(recent) PROVE recent[n][1] # s
          BY <2>2, <3>1, <3>3 DEF Orderly
        <4>3. QED
          BY <3>1, <4>1, <4>2 DEF SigsOf
      <3>4. QED
        BY <3>2, <3>3
    <2>6. SigsOf(recent) \subseteq SigsOf(entries)
      BY <2>2 DEF SigsOf
    <2>7. QED
      BY <2>5, <2>6 DEF Indexed
  <1>5. QED
    BY <1>2, <1>3, <1>4 DEF recent

LEMMA AppendOrderly ==
  ASSUME NEW c, NEW now \in Times, Orderly(c, now), NEW s \in Sigs, s \notin SigsOf(c)
  PROVE  Orderly(Append(c, <<s, now>>), now) /\ SigsOf(Append(c, <<s, now>>)) = SigsOf(c) \cup {s}
  <1> DEFINE d == Append(c, <<s, now>>)
  <1>1. /\ d \in Seq(Entries) /\ Len(d) = Len(c) + 1
        /\ \A i \in 1..Len(c) : d[i] = c[i]
        /\ d[Len(c) + 1] = <<s, now>>
    BY AppendProperties DEF Orderly, Entries
  <1>2. \A i \in 1..Len(d) : i \in 1..Len(c) \/ i = Len(c) + 1
    BY <1>1 DEF Orderly
  <1>3. 1..Len(c) \subseteq 1..Len(d) /\ Len(c) + 1 \in 1..Len(d)
    BY <1>1 DEF Orderly
  <1> HIDE DEF d
  <1>4. Orderly(d, now)
    <2>1. \A i, j \in 1..Len(d) : i # j => d[i][1] # d[j][1]
      BY <1>1, <1>2 DEF Orderly, SigsOf
    <2>2. \A i \in 1..Len(d) : d[i][2] <= now
      BY <1>1, <1>2 DEF Orderly, Times
    <2>3. ASSUME NEW i \in 1..Len(d), NEW j \in 1..Len(d), i < j
          PROVE  d[i][2] <= d[j][2]
      <3>1. i \in 1..Len(c) /\ d[i] = c[i]
        BY <1>1, <1>2, <2>3 DEF Orderly
      <3>2. CASE j \in 1..Len(c)
        BY <1>1, <2>3, <3>1, <3>2 DEF Orderly
      <3>3. CASE j = Len(c) + 1
        BY <1>1, <3>1, <3>3 DEF Orderly
      <3>4. QED
        BY <1>2, <3>2, <3>3
    <2>4. QED
      BY <1>1, <2>1, <2>2, <2>3 DEF Orderly
  <1>5. SigsOf(d) = SigsOf(c) \cup {s}
    BY <1>1, <1>2, <1>3 DEF SigsOf
  <1>6. QED
    BY <1>4, <1>5 DEF d

LEMMA TailOrderly ==
  ASSUME NEW c, NEW now \in Times, Orderly(c, now), Len(c) > 0
  PROVE  Orderly(Tail(c), now) /\ SigsOf(Tail(c)) = SigsOf(c) \ {Head(c)[1]}
  <1> DEFINE d == Tail(c)
  <1>1. /\ d \in Seq(Entries) /\ Len(d) = Len(c) - 1
        /\ \A i \in 1..Len(d) : d[i] = c[i + 1]
        /\ Head(c) = c[1]
    BY HeadTailProperties DEF Orderly
  <1>2. \A i \in 1..Len(c) : i = 1 \/ (i - 1 \in 1..Len(d) /\ c[i] = d[i - 1])
    BY <1>1 DEF Orderly
  <1>3. \A i \in 1..Len(d) : i + 1 \in 1..Len(c) /\ i + 1 # 1
    BY <1>1 DEF Orderly
  <1> HIDE DEF d
  <1>4. Orderly(d, now)
    <2>1. ASSUME NEW i \in 1..Len(d), NEW j \in 1..Len(d)
          PROVE  /\ i # j => d[i][1] # d[j][1]
                 /\ i < j => d[i][2] <= d[j][2]
                 /\ d[i][2] <= now
      <3>1. i + 1 \in 1..Len(c) /\ j + 1 \in 1..Len(c) /\ d[i] = c[i + 1] /\ d[j] = c[j + 1]
        BY <1>1, <1>3
      <3>2. (i # j => i + 1 # j + 1) /\ (i < j => i + 1 < j + 1)
        OBVIOUS
      <3>3. QED
        BY <3>1, <3>2 DEF Orderly
    <2>2. QED
      BY <1>1, <2>1 DEF Orderly
  <1>5. SigsOf(d) = SigsOf(c) \ {c[1][1]}
    <2>1. ASSUME NEW i \in 1..Len(d)
          PROVE  d[i][1] \in SigsOf(c) /\ d[i][1] # c[1][1]
      <3>1. i + 1 \in 1..Len(c) /\ 1 \in 1..Len(c) /\ i + 1 # 1 /\ d[i] = c[i + 1]
        BY <1>1, <1>3 DEF Orderly
      <3>2. QED
        BY <3>1 DEF SigsOf, Orderly
    <2>2. ASSUME NEW i \in 1..Len(c), c[i][1] # c[1][1]
          PROVE  c[i][1] \in SigsOf(d)
      BY <1>2, <2>2 DEF SigsOf
    <2>3. QED
      BY <2>1, <2>2 DEF SigsOf
  <1>6. QED
    BY <1>4, <1>5, <1>1 DEF d

\* is_dup.
LEMMA RememberStep ==
  ASSUME NEW s \in Sigs, clock \in Times, CacheInv, Remember(s, clock)
  PROVE  Orderly(entries', clock) /\ index' = SigsOf(entries') /\ Len(entries') <= MaxEntries
  <1> DEFINE recent == Recent(clock)
             known  == Indexed(ToSet(entries) \ ToSet(recent))
             added  == IF s \in known THEN recent ELSE Append(recent, <<s, clock>>)
             over   == Len(added) > MaxEntries
  <1>1. Orderly(recent, clock) /\ Len(recent) <= Len(entries) /\ known = SigsOf(recent)
    BY RecentIsOrderly DEF CacheInv, Times
  <1>2. /\ entries' = IF over THEN Tail(added) ELSE added
        /\ index' = (known \cup {s}) \ (IF over THEN {Head(added)[1]} ELSE {})
    BY DEF Remember
  <1> HIDE DEF recent, known
  <1>3. Orderly(added, clock) /\ SigsOf(added) = known \cup {s}
    BY <1>1, AppendOrderly DEF CacheInv, Times
  <1>4. Len(added) <= Len(recent) + 1
    BY <1>1, AppendProperties DEF Orderly
  <1> HIDE DEF added
  <1>5. CASE over
    <2>1. Len(added) > 0 /\ clock \in Times
      BY <1>3, <1>5, TriageBusAssumption DEF Orderly, CacheInv, Times
    <2>2. Orderly(Tail(added), clock) /\ SigsOf(Tail(added)) = SigsOf(added) \ {Head(added)[1]}
      BY <1>3, <2>1, TailOrderly
    <2>3. Len(Tail(added)) = Len(added) - 1
      BY <1>3, <2>1 DEF Orderly
    <2>4. Len(entries) \in Nat /\ Len(recent) \in Nat /\ Len(entries) <= MaxEntries
      BY <1>1 DEF CacheInv, Orderly
    <2>5. Len(Tail(added)) <= MaxEntries
      BY <1>1, <1>4, <2>3, <2>4, <1>3, TriageBusAssumption DEF Orderly
    <2>6. QED
      BY <1>2, <1>3, <1>5, <2>2, <2>5
  <1>6. CASE ~ over
    <2>1. entries' = added /\ index' = known \cup {s}
      BY <1>2, <1>6
    <2>2. Len(added) \in Nat /\ Len(added) <= MaxEntries
      BY <1>3, <1>6, TriageBusAssumption DEF Orderly
    <2>3. QED
      BY <1>3, <2>1, <2>2
  <1>7. QED
    BY <1>5, <1>6
----------------------------------------------------------------------------
(* One step of the inductive invariant, part by part.                      *)

LEMMA ShedTypes ==
  ASSUME NEW t \in Tiers, NEW u \in Shed(t)
  PROVE  u \in Tiers /\ (t = "sensor.bypass" => u = "sensor.bypass")
  <1>1. CASE t = "sensor.bypass"
    BY <1>1 DEF Shed
  <1>2. CASE t # "sensor.bypass"
    <2>1. PICK i \in SelectInSeq(DowngradeOrder, LAMBDA x : x = t)..Len(DowngradeOrder) :
            u = DowngradeOrder[i]
      BY <1>2 DEF Shed
    <2> DEFINE I == {n \in 1..Len(DowngradeOrder) : DowngradeOrder[n] = t}
    <2>2. Len(DowngradeOrder) = 3 /\ \A n \in 1..3 : DowngradeOrder[n] \in Tiers
      BY DEF DowngradeOrder, Tiers, ToSet
    <2>3. I # {}
      BY <1>2 DEF Tiers, ToSet
    <2>4. I \in SUBSET Nat /\ I \subseteq 1..3
      BY <2>2
    <2>5. PICK m \in I : \A y \in I : m <= y
      <3> HIDE DEF I
      <3> QED BY <2>3, <2>4, NatMin
    <2>6. Min(I) \in I
      BY <2>5 DEF Min
    <2>7. SelectInSeq(DowngradeOrder, LAMBDA x : x = t) \in 1..3
      <3> DEFINE first == SelectInSeq(DowngradeOrder, LAMBDA x : x = t)
      <3>1. first = Min(I)
        BY <2>3 DEF SelectInSeq
      <3> HIDE DEF first, I
      <3>2. QED
        BY <3>1, <2>4, <2>6 DEF first
    <2>8. i \in 1..3
      BY <2>1, <2>2, <2>7
    <2>9. QED
      BY <1>2, <2>1, <2>2, <2>8
  <1>3. QED
    BY <1>1, <1>2

LEMMA TypeStep == IInv /\ [Next]_vars => TypeOK'
  <1> SUFFICES ASSUME IInv, [Next]_vars PROVE TypeOK'
    OBVIOUS
  <1> USE DEF IInv, TypeOK
  <1>1. ASSUME NEW e \in Events, Send(e) PROVE TypeOK'
    BY <1>1 DEF Send
  <1>2. ASSUME NEW m \in Messages, AckWaitExpires(m) PROVE TypeOK'
    BY <1>2 DEF AckWaitExpires, Returned
  <1>3. ASSUME NEW m \in Messages, Fetch(m) PROVE TypeOK'
    BY <1>3, TriageBusAssumption DEF Fetch, At, Loop, ReadyInv
  <1>4. ASSUME NEW t \in Overload, Observe(t) PROVE TypeOK'
    BY <1>4 DEF Observe
  <1>5. CASE Tick
    BY <1>5, TriageBusAssumption DEF Tick
  <1>6. CASE Terminate
    BY <1>6 DEF Terminate, Idle, Loop
  <1>7. CASE Handle
    <2> DEFINE e == loop.msg[1]
    <2>1. loop.at = "handle" /\ loop.msg \in Messages /\ e \in Events
      BY <1>7 DEF Handle, Loop, Messages
    <2>2. Signature[e] \in Sigs /\ Score[e] \in Tiers
      BY <2>1, TriageBusAssumption DEF Sigs
    <2>3. Remember(Signature[e], clock)
      BY <1>7 DEF Handle
    <2>4. Orderly(entries', clock) /\ index' = SigsOf(entries')
      BY <2>2, <2>3, RememberStep DEF Times
    <2>5. /\ \A i \in 1..Len(entries') : entries'[i] \in Sigs \X (0..MaxTime)
          /\ index' \subseteq Sigs
      BY <2>4 DEF Orderly, SigsOf, Entries, Times
    <2>6. loop' \in Loop
      <3>1. CASE loop' = At("ack", loop.msg)
        BY <2>1, <3>1 DEF At, Loop
      <3>2. ASSUME NEW t \in Shed(Score[e]),
                   loop' = [at |-> "publish", msg |-> loop.msg, tier |-> t, since |-> clock]
            PROVE  loop' \in Loop
        BY <2>1, <2>2, <3>2, ShedTypes DEF Loop
      <3>3. QED
        BY <1>7, <3>1, <3>2 DEF Handle
    <2>7. log' \subseteq [msg : Messages, what : Tiers \cup {"dropped", "suppressed", "failed"},
                          since : 0..MaxTime, life : 0..MaxRestarts]
      BY <1>7, <2>1 DEF Handle, Logged
    <2>8. QED
      BY <1>7, <2>5, <2>6, <2>7 DEF Handle
  <1>8. CASE Publish
    <2>1. loop.at = "publish" /\ loop.msg \in Messages /\ loop.tier \in Tiers /\ loop.since \in 0..MaxTime
      BY <1>8 DEF Publish, Loop
    <2>2. PICK what \in {loop.tier, "failed"} : PublishEnds(what)
      BY <1>8 DEF Publish, Forwarded
    <2>3. log' \subseteq [msg : Messages, what : Tiers \cup {"dropped", "suppressed", "failed"},
                          since : 0..MaxTime, life : 0..MaxRestarts]
      BY <2>1, <2>2 DEF PublishEnds
    <2>4. stream' \in [Messages -> {"unsent", "ready", "out", "acked", "terminated", "exhausted"}]
      BY <1>8, <2>1 DEF Publish, Forwarded, Messages
    <2>5. loop' \in Loop
      BY <1>8, <2>1 DEF Publish, At, Loop
    <2>6. QED
      BY <1>8, <2>3, <2>4, <2>5 DEF Publish
  <1>9. CASE Ack
    BY <1>9 DEF Ack, At, Idle, Loop
  <1>10. CASE Nak
    BY <1>10 DEF Nak, At, Idle, Returned, Loop
  <1>11. CASE Restart
    BY <1>11, TriageBusAssumption DEF Restart, Idle, Loop
  <1>12. CASE UNCHANGED vars
    BY <1>12 DEF vars
  <1>13. QED
    BY <1>1, <1>2, <1>3, <1>4, <1>5, <1>6, <1>7, <1>8, <1>9, <1>10, <1>11, <1>12 DEF Next

LEMMA ReadyStep == IInv /\ [Next]_vars => ReadyInv'
  <1> SUFFICES ASSUME IInv, [Next]_vars PROVE ReadyInv'
    OBVIOUS
  <1> USE DEF IInv, TypeOK, ReadyInv
  <1>1. ASSUME NEW e \in Events, Send(e) PROVE ReadyInv'
    <2>1. \A m \in Messages : stream[m] = "unsent" => delivered[m] = 0
      BY DEF UnsentInv
    <2>2. /\ delivered' = delivered
          /\ \A m \in Messages : stream'[m] # stream[m] => stream[m] = "unsent"
      BY <1>1 DEF Send
    <2>3. QED
      BY <2>1, <2>2, TriageBusAssumption
  <1>2. ASSUME NEW m \in Messages, AckWaitExpires(m) PROVE ReadyInv'
    BY <1>2 DEF AckWaitExpires, Returned
  <1>3. ASSUME NEW m \in Messages, Fetch(m) PROVE ReadyInv'
    BY <1>3, TriageBusAssumption DEF Fetch
  <1>4. CASE Nak
    BY <1>4 DEF Nak, Returned
  <1>5. CASE Publish
    <2>1. \A m \in Messages : stream[m] = "unsent" => delivered[m] = 0
      BY DEF UnsentInv
    <2>2. /\ delivered' = delivered
          /\ \A m \in Messages : stream'[m] # stream[m] => stream[m] = "unsent"
      BY <1>5 DEF Publish, Forwarded
    <2>3. QED
      BY <2>1, <2>2, TriageBusAssumption
  <1>6. CASE Terminate
    BY <1>6 DEF Terminate
  <1>7. CASE Ack
    BY <1>7 DEF Ack
  <1>8. ASSUME UNCHANGED <<stream, delivered>> PROVE ReadyInv'
    BY <1>8
  <1>9. QED
    BY <1>1, <1>2, <1>3, <1>4, <1>5, <1>6, <1>7, <1>8 DEF Next, vars, Observe, Tick, Handle, Restart

LEMMA UnsentStep == IInv /\ [Next]_vars => UnsentInv'
  BY DEF IInv, TypeOK, UnsentInv, Next, vars, Send, AckWaitExpires, Returned, Fetch, Observe,
         Tick, Terminate, Handle, Publish, Forwarded, Ack, Nak, Restart

LEMMA CacheStep == IInv /\ [Next]_vars => CacheInv'
  <1> SUFFICES ASSUME IInv, [Next]_vars PROVE CacheInv'
    OBVIOUS
  <1> USE DEF IInv
  <1>1. CASE Handle
    <2> DEFINE e == loop.msg[1]
    <2>1. loop.at = "handle" /\ loop.msg \in Messages /\ e \in Events
      BY <1>1 DEF Handle, Loop, Messages, TypeOK
    <2>2. Signature[e] \in Sigs /\ clock \in Times /\ clock' = clock
      BY <1>1, <2>1 DEF Sigs, Handle, TypeOK, Times
    <2>3. Remember(Signature[e], clock)
      BY <1>1 DEF Handle
    <2>4. QED
      BY <2>2, <2>3, RememberStep DEF CacheInv
  <1>2. CASE Tick
    <2>1. UNCHANGED <<entries, index>> /\ clock \in Nat /\ clock' = clock + 1
      BY <1>2 DEF Tick, TypeOK
    <2>2. \A i \in 1..Len(entries) : entries[i][2] \in Nat
      BY DEF CacheInv, Orderly, Entries, Times
    <2>3. Orderly(entries, clock + 1)
      BY <2>1, <2>2 DEF CacheInv, Orderly
    <2>4. QED
      BY <2>1, <2>3 DEF CacheInv
  <1>3. CASE Restart
    BY <1>3, TriageBusAssumption DEF Restart, CacheInv, Orderly, SigsOf
  <1>4. ASSUME UNCHANGED <<entries, index, clock>> PROVE CacheInv'
    BY <1>4 DEF CacheInv
  <1>5. QED
    BY <1>1, <1>2, <1>3, <1>4
      DEF Next, vars, Observe, Send, AckWaitExpires, Fetch, Terminate, Publish, Ack, Nak

----------------------------------------------------------------------------
(* What an acknowledgement promises.                                       *)

\* The log only grows.
LEMMA StillAccounted ==
  ASSUME NEW s, Accounted(s), log \subseteq log'
  PROVE  Accounted(s)'
  BY DEF Accounted, AccountsFor

\* What the loop does for its event accounts for the event's signature.
LEMMA NowAccounted ==
  ASSUME NEW m, NEW what, NEW since, NEW life, what # "suppressed",
         Score[m[1]] = "sensor.bypass" => what \in {"sensor.bypass", "failed"},
         log' = log \cup {[msg |-> m, what |-> what, since |-> since, life |-> life]}
  PROVE  Accounted(Signature[m[1]])'
  <1> DEFINE x == [msg |-> m, what |-> what, since |-> since, life |-> life]
  <1>1. x \in log' /\ AccountsFor(x, Signature[m[1]])
    BY DEF AccountsFor
  <1>2. QED
    BY <1>1 DEF Accounted, AccountsFor

LEMMA AckStep == IInv /\ [Next]_vars => AckInv'
  <1> SUFFICES ASSUME IInv, [Next]_vars PROVE AckInv'
    OBVIOUS
  <1> USE DEF IInv, AckInv
  <1>1. ASSUME NEW e \in Events, Send(e) PROVE AckInv'
    BY <1>1 DEF Send, TypeOK, IndexInv, LoopInv, AckedIsAccountedFor, Accounted, AccountsFor, Messages
  <1>2. ASSUME NEW m \in Messages, AckWaitExpires(m) PROVE AckInv'
    BY <1>2 DEF AckWaitExpires, Returned, TypeOK, IndexInv, LoopInv, AckedIsAccountedFor, Accounted, AccountsFor, Messages
  <1>3. ASSUME NEW m \in Messages, Fetch(m) PROVE AckInv'
    BY <1>3 DEF Fetch, At, TypeOK, Loop, IndexInv, LoopInv, AckedIsAccountedFor, Accounted, AccountsFor, Messages
  <1>4. ASSUME NEW t \in Overload, Observe(t) PROVE AckInv'
    BY <1>4 DEF Observe, TypeOK, IndexInv, LoopInv, AckedIsAccountedFor, Accounted, AccountsFor, Messages
  <1>5. CASE Tick
    BY <1>5 DEF Tick, TypeOK, IndexInv, LoopInv, AckedIsAccountedFor, Accounted, AccountsFor, Messages
  <1>6. CASE Terminate
    BY <1>6 DEF Terminate, Idle, TypeOK, Loop, IndexInv, LoopInv, AckedIsAccountedFor, Accounted, AccountsFor, Messages
  <1>8. CASE Ack
    BY <1>8 DEF Ack, At, Idle, TypeOK, Loop, IndexInv, LoopInv, AckedIsAccountedFor, Accounted, AccountsFor, Messages
  <1>9. CASE Nak
    BY <1>9 DEF Nak, At, Idle, Returned, TypeOK, Loop, IndexInv, LoopInv, AckedIsAccountedFor, Accounted, AccountsFor, Messages
  <1>10. CASE Restart
    BY <1>10 DEF Restart, Idle, TypeOK, Loop, IndexInv, LoopInv, AckedIsAccountedFor, Accounted, AccountsFor, Messages
  <1>11. CASE UNCHANGED vars
    BY <1>11 DEF vars, TypeOK, IndexInv, LoopInv, AckedIsAccountedFor, Accounted, AccountsFor, Messages
  <1>12. CASE Handle
    <2> DEFINE e == loop.msg[1]
               sig == Signature[e]
    <2>1. loop.at = "handle" /\ loop.msg \in Messages /\ e \in Events
      BY <1>12 DEF Handle, TypeOK, Loop, Messages
    <2>2. log \subseteq log' /\ UNCHANGED stream
      BY <1>12 DEF Handle, Logged
    <2>3. index' \subseteq index \cup {sig}
      BY <1>12 DEF Handle, Remember, Indexed
    <2>4. CASE IsDup(sig, clock)
      <3>1. Accounted(sig)
        BY <2>1, <2>4 DEF IsDup, Indexed, IndexInv
      <3>2. loop' = At("ack", loop.msg)
        BY <1>12, <2>4 DEF Handle
      <3>3. QED
        BY <2>1, <2>2, <2>3, <3>1, <3>2, StillAccounted
          DEF At, TypeOK, Loop, IndexInv, LoopInv, AckedIsAccountedFor, Accounted, AccountsFor
    <2>5. CASE ~ IsDup(sig, clock) /\ Shed(Score[e]) = {}
      <3>1. Score[e] # "sensor.bypass"
        BY <2>5 DEF Shed
      <3>2. loop' = At("ack", loop.msg) /\ Logged("dropped")
        BY <1>12, <2>5 DEF Handle
      <3>3. Accounted(sig)'
        <4>1. loop'.msg = loop.msg
          BY <3>2 DEF At
        <4>2. QED
          BY <3>1, <3>2, <4>1, NowAccounted DEF Logged
      <3>4. QED
        BY <2>1, <2>2, <2>3, <3>2, <3>3, StillAccounted
          DEF At, TypeOK, Loop, IndexInv, LoopInv, AckedIsAccountedFor, Accounted, AccountsFor
    <2>6. CASE ~ IsDup(sig, clock) /\ Shed(Score[e]) # {}
      <3>1. PICK t \in Shed(Score[e]) :
              loop' = [at |-> "publish", msg |-> loop.msg, tier |-> t, since |-> clock]
        BY <1>12, <2>6 DEF Handle
      <3>2. Score[e] = "sensor.bypass" => t = "sensor.bypass"
        BY DEF Shed
      <3>3. IndexInv'
        BY <2>2, <2>3, <2>1, <3>1, StillAccounted DEF IndexInv
      <3>4. LoopInv'
        BY <3>1, <3>2 DEF LoopInv
      <3>5. AckedIsAccountedFor'
        BY <2>2 DEF AckedIsAccountedFor
      <3>6. QED
        BY <3>3, <3>4, <3>5
    <2>7. QED
      BY <2>4, <2>5, <2>6
  <1>13. CASE Publish
    <2>1. loop.at = "publish" /\ loop.msg \in Messages
      BY <1>13 DEF Publish, TypeOK, Loop
    <2>2. PICK what :
            /\ PublishEnds(what)
            /\ what \in {loop.tier, "failed"}
      BY <1>13 DEF Publish, Forwarded
    <2>3. Accounted(Signature[loop.msg[1]])' /\ log \subseteq log'
      <3>1. loop.tier \in Tiers
        BY <2>1 DEF TypeOK, Loop
      <3>2. what # "suppressed"
        BY <2>2, <3>1 DEF Tiers, DowngradeOrder, ToSet
      <3>3. loop'.msg = loop.msg
        BY <1>13 DEF Publish, At
      <3>4. log' = log \cup {[msg |-> loop.msg, what |-> what, since |-> loop.since,
                              life |-> restarts]}
        BY <2>2 DEF PublishEnds
      <3>5. Score[loop.msg[1]] = "sensor.bypass" => what \in {"sensor.bypass", "failed"}
        BY <2>1, <2>2 DEF LoopInv
      <3>6. QED
        BY <3>2, <3>3, <3>4, <3>5, NowAccounted
    <2>4. \A m \in Messages : stream'[m] = "acked" => stream[m] = "acked"
      BY <1>13, <2>1 DEF Publish, Forwarded, TypeOK
    <2>5. loop' \in {At("ack", loop.msg), At("nak", loop.msg)} /\ index' = index
      BY <1>13 DEF Publish
    <2>6. loop'.msg = loop.msg /\ loop'.at \in {"ack", "nak"}
      BY <2>5 DEF At
    <2>7. LoopInv'
      BY <2>3, <2>6 DEF LoopInv
    <2>8. IndexInv'
      <3>1. ASSUME NEW s \in index' PROVE Accounted(s)'
        <4>1. CASE Accounted(s)
          BY <2>3, <4>1, StillAccounted
        <4>2. CASE Signature[loop.msg[1]] = s
          BY <2>3, <2>6, <4>2
        <4>3. QED
          BY <2>5, <3>1, <4>1, <4>2 DEF IndexInv
      <3>2. QED
        BY <3>1 DEF IndexInv
    <2>9. AckedIsAccountedFor'
      BY <2>3, <2>4 DEF AckedIsAccountedFor
    <2>10. QED
      BY <2>7, <2>8, <2>9
  <1>14. QED
    BY <1>1, <1>2, <1>3, <1>4, <1>5, <1>6, <1>8, <1>9, <1>10, <1>11, <1>12, <1>13 DEF Next

----------------------------------------------------------------------------
(* The theorems.                                                           *)

LEMMA Initially == Init => IInv
  <1> SUFFICES ASSUME Init PROVE IInv
    OBVIOUS
  <1> USE DEF Init
  <1>1. TypeOK
    BY TriageBusAssumption DEF TypeOK, Idle, Loop
  <1>2. UnsentInv /\ ReadyInv
    BY DEF UnsentInv, ReadyInv
  <1>3. CacheInv
    BY TriageBusAssumption DEF CacheInv, Orderly, SigsOf
  <1>4. AckInv
    BY DEF AckInv, IndexInv, LoopInv, AckedIsAccountedFor, Idle
  <1>5. QED
    BY <1>1, <1>2, <1>3, <1>4 DEF IInv

LEMMA Inductive == Spec => []IInv
  <1>1. IInv /\ [Next]_vars => IInv'
    BY TypeStep, UnsentStep, ReadyStep, CacheStep, AckStep DEF IInv
  <1>2. QED
    BY Initially, <1>1, PTL DEF Spec

\* The state of the stream, the cache and the loop keeps its shape: no event is
\* delivered more than MaxDeliver times, whatever is lost or redelivered.
THEOREM Typing == Spec => []TypeOK
  <1>1. IInv => TypeOK
    BY DEF IInv
  <1>2. QED
    BY Inductive, <1>1, PTL

\* For any events, scores, signatures, failures and restarts: an acknowledged
\* event is accounted for by what became of one with its signature, and a
\* safety event is never shed.
THEOREM AcknowledgedIsAccountedFor == Spec => []AckedIsAccountedFor
  <1>1. IInv => AckedIsAccountedFor
    BY DEF IInv, AckInv
  <1>2. QED
    BY Inductive, <1>1, PTL

\* The signatures of the deque, one entry each, are counted by its length.
LEMMA CountedBySigs == CacheInv => Cardinality(index) = Len(entries)
  <1> SUFFICES ASSUME CacheInv PROVE Cardinality(index) = Len(entries)
    OBVIOUS
  <1> DEFINE n == Len(entries)
             f == [i \in 1..n |-> entries[i][1]]
  <1>1. n \in Nat
    BY DEF CacheInv, Orderly
  <1>2. f \in Bijection(1..n, index)
    BY DEF CacheInv, Orderly, SigsOf, Bijection, Injection, Surjection, IsInjective
  <1>3. ExistsBijection(1..n, index)
    BY <1>2 DEF ExistsBijection
  <1>4. QED
    BY <1>1, <1>3, FS_CountingElements

\* Deque and dict agree for any window, size of the cache and order of events:
\* a signature is indexed iff it has an entry, and it has only one.
THEOREM CacheAgrees == Spec => []CacheIsConsistent
  <1>1. IInv => CacheIsConsistent
    <2> SUFFICES ASSUME CacheInv PROVE CacheIsConsistent
      BY DEF IInv
    <2>1. index = {x[1] : x \in ToSet(entries)}
      BY DEF CacheInv, SigsOf, ToSet, Orderly
    <2>2. QED
      BY <2>1, CountedBySigs DEF CacheInv, Orderly, CacheIsConsistent
  <1>2. QED
    BY Inductive, <1>1, PTL

============================================================================
