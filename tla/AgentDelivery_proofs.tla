-------------------------- MODULE AgentDelivery_proofs --------------------------
(***************************************************************************)
(* Proofs about AgentDelivery, for any bounds.                             *)
(***************************************************************************)
EXTENDS AgentDelivery, FiniteSetTheorems, SequenceTheorems, TLAPS

Entry == Events \cup {Beat}

LEMMA BeatIsNoEvent == Beat \notin Events
<1> QED
  BY DEF Beat, Events, Lines

-----------------------------------------------------------------------------
(* Sequences.                                                              *)

\* What holds of 0 and of each successor holds up to n.
LEMMA UpTo ==
  ASSUME NEW n \in Nat, NEW S, 0 \in S,
         \A k \in 1..n : k - 1 \in S => k \in S
  PROVE  0..n \subseteq S
<1> DEFINE T == (0..n) \ S
<1>1. T \subseteq Nat
  OBVIOUS
<1> SUFFICES ASSUME T # {} PROVE FALSE
  OBVIOUS
<1>2. PICK m \in T : \A y \in T : ~(<<y, m>> \in OpToRel(<, Nat))
  <2> HIDE DEF T
  <2> QED
    BY <1>1, NatLessThanWellFounded, WFMin
<1>3. m \in T
  BY <1>2
<1>4. m \in 1..n /\ m - 1 \in Nat /\ m - 1 < m
  BY <1>3
<1>5. <<m - 1, m>> \in OpToRel(<, Nat)
  BY <1>4 DEF OpToRel
<1>6. m - 1 \notin T
  BY <1>2, <1>5
<1> QED
  BY <1>3, <1>4, <1>6

\* The heartbeats fall out of an outbox, and the rest keeps its order.
LEMMA EvidenceOf ==
  ASSUME NEW s \in Seq(Entry)
  PROVE  /\ Evidence(s) \in Seq(Events) /\ Len(Evidence(s)) <= Len(s)
         /\ ToSet(Evidence(s)) = ToSet(s) \ {Beat}
         /\ Ordered(s) => \A i, j \in DOMAIN Evidence(s) : i < j => Evidence(s)[i].id < Evidence(s)[j].id
<1> DEFINE L == Len(s)
           Next1(f, n) == IF n = 0 THEN <<>>
                          ELSE IF s[n] = Beat THEN f[n - 1]
                          ELSE Append(f[n - 1], s[n])
           Keeps(f, m) == f = [n \in 0..m |-> Next1(f, n)]
           Built == {m \in 0..L : \E f : Keeps(f, m)}
<1>1. L \in Nat /\ DOMAIN s = 1..L
  OBVIOUS
<1>2. 0 \in Built
  <2>1. Keeps([n \in 0..0 |-> <<>>], 0)
    OBVIOUS
  <2> HIDE DEF Keeps
  <2> QED
    BY <2>1, <1>1
<1>3. ASSUME NEW k \in 1..L, k - 1 \in Built PROVE k \in Built
  <2>1. PICK f : Keeps(f, k - 1)
    BY <1>3
  <2> DEFINE g == [n \in 0..k |-> IF n < k THEN f[n] ELSE Next1(f, k)]
  <2>2. \A n \in 0..k : g[n] = Next1(g, n)
    <3> SUFFICES ASSUME NEW n \in 0..k PROVE g[n] = Next1(g, n)
      OBVIOUS
    <3>1. CASE n = 0
      BY <3>1, <2>1, <1>1
    <3>2. CASE n # 0 /\ n < k
      <4>1. n \in 0..(k - 1) /\ n - 1 \in 0..k /\ n - 1 < k
        BY <3>2, <1>1
      <4>2. f[n] = Next1(f, n)
        BY <4>1, <2>1
      <4>3. g[n] = f[n] /\ g[n - 1] = f[n - 1]
        BY <4>1, <3>2
      <4> HIDE DEF g
      <4> QED
        BY <4>2, <4>3
    <3>3. CASE n = k
      <4>1. k - 1 \in 0..k /\ k - 1 < k /\ ~(k < k)
        BY <1>1
      <4>2. g[k] = Next1(f, k) /\ g[k - 1] = f[k - 1]
        BY <4>1, <3>3
      <4> HIDE DEF g
      <4> QED
        BY <4>2, <3>3
    <3> QED
      BY <3>1, <3>2, <3>3, <1>1
  <2>3. Keeps(g, k)
    <3>1. g = [n \in 0..k |-> g[n]]
      OBVIOUS
    <3> HIDE DEF g
    <3> QED
      BY <2>2, <3>1
  <2> HIDE DEF g, Keeps
  <2> QED
    BY <2>3, <1>1
<1>4. L \in Built
  <2> HIDE DEF Built, L
  <2> QED
    BY <1>1, <1>2, <1>3, UpTo
<1> DEFINE kept == CHOOSE f : Keeps(f, L)
<1>5. Keeps(kept, L)
  BY <1>4
<1>6. Evidence(s) = kept[L]
  BY DEF Evidence
<1> DEFINE
      Sorted == \A i, j \in 1..L : i < j /\ s[i] # Beat /\ s[j] # Beat => s[i].id < s[j].id
      Good(e, n) ==
        /\ e \in Seq(Events) /\ Len(e) <= n
        /\ \A i \in 1..n : s[i] # Beat => \E k \in 1..Len(e) : e[k] = s[i]
        /\ \A k \in 1..Len(e) : \E i \in 1..n : e[k] = s[i]
        /\ Sorted => \A i, j \in 1..Len(e) : i < j => e[i].id < e[j].id
      Fine == {n \in 0..L : Good(kept[n], n)}
<1> HIDE DEF kept
<1>7. /\ kept[0] = <<>>
      /\ \A n \in 1..L : kept[n] = IF s[n] = Beat THEN kept[n - 1]
                                                 ELSE Append(kept[n - 1], s[n])
  <2>1. \A n \in 0..L : kept[n] = Next1(kept, n)
    BY <1>5
  <2>2. Next1(kept, 0) = <<>> /\ 0 \in 0..L
    BY <1>1
  <2>3. \A n \in 1..L : n \in 0..L /\ n # 0
    BY <1>1
  <2> HIDE DEF Keeps, L
  <2> QED
    BY <2>1, <2>2, <2>3
<1> HIDE DEF Keeps, Next1
<1>8. 0 \in Fine
  <2>1. kept[0] = <<>> /\ 0 \in 0..L
    BY <1>7, <1>1
  <2>2. Good(<<>>, 0)
    OBVIOUS
  <2> HIDE DEF Good
  <2> QED
    BY <2>1, <2>2
<1>9. ASSUME NEW n \in 1..L, n - 1 \in Fine PROVE n \in Fine
  <2> DEFINE d == kept[n - 1]
             e == kept[n]
  <2>1. Good(d, n - 1) /\ n \in 0..L
    <3> HIDE DEF Good
    <3> QED
      BY <1>9, <1>1
  <2>2. s[n] \in Entry /\ e = IF s[n] = Beat THEN d ELSE Append(d, s[n])
    BY <1>7, <1>1
  <2> SUFFICES Good(e, n)
    <3> HIDE DEF Good
    <3> QED
      BY <2>1
  <2> HIDE DEF d, e
  <2>3. CASE s[n] = Beat
    <3>1. e = d /\ \A i \in 1..n : s[i] # Beat => i \in 1..(n - 1)
      BY <2>2, <2>3, <1>1
    <3>2. 1..(n - 1) \subseteq 1..n
      BY <1>1
    <3>3. e \in Seq(Events) /\ Len(e) <= n
      BY <3>1, <2>1, <1>1
    <3>4. \A i \in 1..n : s[i] # Beat => \E k \in 1..Len(e) : e[k] = s[i]
      BY <3>1, <2>1
    <3>5. \A k \in 1..Len(e) : \E i \in 1..n : e[k] = s[i]
      BY <3>1, <3>2, <2>1
    <3>6. Sorted => \A i, j \in 1..Len(e) : i < j => e[i].id < e[j].id
      BY <3>1, <2>1
    <3> HIDE DEF Sorted
    <3> QED
      BY <3>3, <3>4, <3>5, <3>6
  <2>4. CASE s[n] # Beat
    <3>1. s[n] \in Events
      BY <2>2, <2>4 DEF Entry
    <3>2. /\ e \in Seq(Events) /\ Len(e) = Len(d) + 1 /\ e[Len(e)] = s[n]
          /\ \A k \in 1..Len(d) : e[k] = d[k]
      BY <2>1, <2>2, <2>4, <3>1
    <3>3. \A i \in 1..n : s[i] # Beat => \E k \in 1..Len(e) : e[k] = s[i]
      <4> SUFFICES ASSUME NEW i \in 1..n, s[i] # Beat
                   PROVE  \E k \in 1..Len(e) : e[k] = s[i]
        OBVIOUS
      <4>1. CASE i = n
        BY <3>2, <4>1
      <4>2. CASE i # n
        <5>1. i \in 1..(n - 1)
          BY <4>2, <1>1
        <5>2. PICK k \in 1..Len(d) : d[k] = s[i]
          BY <5>1, <2>1
        <5> QED
          BY <5>2, <3>2, <2>1
      <4> QED
        BY <4>1, <4>2
    <3>4. \A k \in 1..Len(e) : \E i \in 1..n : e[k] = s[i]
      <4> SUFFICES ASSUME NEW k \in 1..Len(e) PROVE \E i \in 1..n : e[k] = s[i]
        OBVIOUS
      <4>1. CASE k = Len(e)
        BY <3>2, <4>1, <1>1
      <4>2. CASE k # Len(e)
        <5>1. k \in 1..Len(d)
          BY <4>2, <3>2, <2>1
        <5>2. PICK i \in 1..(n - 1) : d[k] = s[i]
          BY <5>1, <2>1
        <5> QED
          BY <5>1, <5>2, <3>2, <1>1
      <4> QED
        BY <4>1, <4>2
    <3>5. ASSUME Sorted, NEW i \in 1..Len(e), NEW j \in 1..Len(e), i < j
          PROVE  e[i].id < e[j].id
      <4>1. CASE j = Len(e)
        <5>1. i \in 1..Len(d) /\ e[i] = d[i]
          BY <3>2, <3>5, <4>1, <2>1
        <5>2. PICK k \in 1..(n - 1) : d[i] = s[k]
          BY <5>1, <2>1
        <5>3. d[i] \in Events /\ d[i] # Beat
          BY <5>1, <2>1, BeatIsNoEvent
        <5>4. k \in 1..L /\ k < n
          BY <1>1
        <5>5. s[k].id < s[n].id
          BY <5>2, <5>3, <5>4, <2>4, <3>5
        <5> QED
          BY <5>1, <5>2, <5>5, <3>2, <4>1
      <4>2. CASE j # Len(e)
        <5>1. i \in 1..Len(d) /\ j \in 1..Len(d) /\ e[i] = d[i] /\ e[j] = d[j]
          BY <3>2, <3>5, <4>2, <2>1
        <5> QED
          BY <5>1, <3>5, <2>1
      <4> QED
        BY <4>1, <4>2
    <3>6. Len(e) <= n
      BY <3>2, <2>1, <1>1
    <3> HIDE DEF Sorted
    <3> QED
      BY <3>2, <3>3, <3>4, <3>5, <3>6
  <2> QED
    BY <2>3, <2>4
<1>10. L \in Fine
  <2> HIDE DEF Fine, L
  <2> QED
    BY <1>1, <1>8, <1>9, UpTo
<1> DEFINE e == Evidence(s)
<1>11. Good(e, L)
  BY <1>10, <1>6
<1>12. DOMAIN e = 1..Len(e)
  BY <1>11
<1>13. ToSet(e) = ToSet(s) \ {Beat}
  <2>1. ASSUME NEW x \in ToSet(e) PROVE x \in ToSet(s) \ {Beat}
    <3>1. PICK k \in 1..Len(e) : x = e[k]
      BY <1>12, <2>1 DEF ToSet
    <3>2. x \in Events /\ x # Beat
      BY <3>1, <1>11, BeatIsNoEvent
    <3>3. \E i \in 1..L : e[k] = s[i]
      BY <1>11
    <3> QED
      BY <3>1, <3>2, <3>3, <1>1 DEF ToSet
  <2>2. ASSUME NEW x \in ToSet(s) \ {Beat} PROVE x \in ToSet(e)
    <3>1. PICK i \in 1..L : x = s[i]
      BY <1>1 DEF ToSet
    <3>2. \E k \in 1..Len(e) : e[k] = s[i]
      BY <3>1, <1>11
    <3> QED
      BY <3>1, <3>2, <1>12 DEF ToSet
  <2> QED
    BY <2>1, <2>2
<1> QED
  BY <1>1, <1>11, <1>12, <1>13 DEF Ordered

\* Two outboxes, one after the other.
LEMMA Joined ==
  ASSUME NEW s \in Seq(Entry), NEW t \in Seq(Entry)
  PROVE  /\ s \o t \in Seq(Entry) /\ Len(s \o t) = Len(s) + Len(t)
         /\ ToSet(s \o t) = ToSet(s) \cup ToSet(t)
         /\ \A i \in 1..Len(s) : (s \o t)[i] = s[i]
         /\ \A i \in 1..Len(t) : (s \o t)[Len(s) + i] = t[i]
<1>1. /\ s \o t \in Seq(Entry) /\ Len(s \o t) = Len(s) + Len(t)
      /\ Len(s) \in Nat /\ Len(t) \in Nat
      /\ \A i \in 1..Len(s) : (s \o t)[i] = s[i]
      /\ \A i \in 1..Len(t) : (s \o t)[Len(s) + i] = t[i]
  OBVIOUS
<1> DEFINE r == s \o t
<1>2. r \in Seq(Entry) /\ DOMAIN r = 1..(Len(s) + Len(t))
  BY <1>1
<1> HIDE DEF r
<1>3. ASSUME NEW x \in ToSet(r) PROVE x \in ToSet(s) \cup ToSet(t)
  <2>1. PICK i \in 1..(Len(s) + Len(t)) : x = r[i]
    BY <1>2 DEF ToSet
  <2>2. CASE i <= Len(s)
    <3>1. i \in 1..Len(s) /\ x = s[i]
      BY <1>1, <2>1, <2>2 DEF r
    <3> QED
      BY <3>1 DEF ToSet
  <2>3. CASE i > Len(s)
    <3>1. i - Len(s) \in 1..Len(t) /\ i = Len(s) + (i - Len(s))
      BY <1>1, <2>3
    <3>2. x = t[i - Len(s)]
      BY <1>1, <2>1, <3>1 DEF r
    <3> QED
      BY <3>1, <3>2 DEF ToSet
  <2> QED
    BY <1>1, <2>2, <2>3
<1>4. ASSUME NEW x \in ToSet(s) PROVE x \in ToSet(r)
  <2>1. PICK i \in 1..Len(s) : x = s[i]
    BY <1>4 DEF ToSet
  <2>2. i \in DOMAIN r /\ r[i] = x
    BY <1>1, <1>2, <2>1 DEF r
  <2> QED
    BY <2>2 DEF ToSet
<1>5. ASSUME NEW x \in ToSet(t) PROVE x \in ToSet(r)
  <2>1. PICK i \in 1..Len(t) : x = t[i]
    BY <1>5 DEF ToSet
  <2>2. Len(s) + i \in DOMAIN r /\ r[Len(s) + i] = x
    BY <1>1, <1>2, <2>1 DEF r
  <2> QED
    BY <2>2 DEF ToSet
<1>6. ToSet(r) = ToSet(s) \cup ToSet(t)
  BY <1>3, <1>4, <1>5
<1> QED
  BY <1>1, <1>6 DEF r

\* The first entries of an outbox and the others.
LEMMA Parted ==
  ASSUME NEW s \in Seq(Entry), NEW k \in 0..Len(s)
  PROVE  /\ SubSeq(s, 1, k) \in Seq(Entry) /\ Len(SubSeq(s, 1, k)) = k
         /\ \A i \in 1..k : SubSeq(s, 1, k)[i] = s[i]
         /\ SubSeq(s, k + 1, Len(s)) \in Seq(Entry)
         /\ Len(SubSeq(s, k + 1, Len(s))) = Len(s) - k
         /\ \A i \in 1..(Len(s) - k) : SubSeq(s, k + 1, Len(s))[i] = s[k + i]
         /\ ToSet(s) = ToSet(SubSeq(s, 1, k)) \cup ToSet(SubSeq(s, k + 1, Len(s)))
<1> DEFINE a == SubSeq(s, 1, k)
           b == SubSeq(s, k + 1, Len(s))
<1>1. Len(s) \in Nat /\ DOMAIN s = 1..Len(s)
  OBVIOUS
<1>2. a \in Seq(Entry) /\ Len(a) = k /\ \A i \in 1..k : a[i] = s[i]
  BY <1>1
<1>3. /\ b \in Seq(Entry) /\ Len(b) = Len(s) - k
      /\ \A i \in 1..(Len(s) - k) : b[i] = s[k + i]
  <2>1. /\ k + 1 \in 1..(Len(s) + 1) /\ Len(s) \in k..Len(s)
        /\ Len(s) - (k + 1) + 1 = Len(s) - k
        /\ \A i \in 1..(Len(s) - k) : (k + 1) + i - 1 = k + i
    BY <1>1
  <2>2. /\ b \in Seq(Entry)
        /\ Len(b) = IF k + 1 <= Len(s) THEN Len(s) - (k + 1) + 1 ELSE 0
        /\ \A i \in 1..(Len(s) - (k + 1) + 1) : b[i] = s[(k + 1) + i - 1]
    BY <2>1, <1>1, SubSeqProperties
  <2> HIDE DEF b
  <2>3. Len(b) = Len(s) - k
    <3>1. Len(b) = IF k + 1 <= Len(s) THEN Len(s) - (k + 1) + 1 ELSE 0
      BY <2>2
    <3>2. Len(s) \in Nat /\ k \in Nat /\ k <= Len(s)
      BY <1>1
    <3>3. CASE k + 1 <= Len(s)
      BY <3>1, <3>2, <3>3
    <3>4. CASE k = Len(s)
      BY <3>1, <3>2, <3>4
    <3> QED
      BY <3>2, <3>3, <3>4
  <2>4. ASSUME NEW i \in 1..(Len(s) - k) PROVE b[i] = s[k + i]
    <3>1. b[i] = s[(k + 1) + i - 1]
      BY <2>1, <2>2
    <3> QED
      BY <2>1, <3>1
  <2> QED
    BY <2>2, <2>3, <2>4
<1>4. \A i \in 1..(Len(s) - k) : b[i] = s[k + i]
  BY <1>3
<1>5. DOMAIN a = 1..k /\ DOMAIN b = 1..(Len(s) - k)
  BY <1>2, <1>3
<1> HIDE DEF a, b
<1>6. ASSUME NEW x \in ToSet(s) PROVE x \in ToSet(a) \cup ToSet(b)
  <2>1. PICK i \in 1..Len(s) : x = s[i]
    BY <1>1, <1>6 DEF ToSet
  <2>2. CASE i <= k
    BY <1>2, <1>5, <2>1, <2>2 DEF ToSet
  <2>3. CASE i > k
    <3>1. i - k \in 1..(Len(s) - k) /\ k + (i - k) = i
      BY <1>1, <2>3
    <3>2. b[i - k] = x
      BY <1>4, <2>1, <3>1
    <3> QED
      BY <1>5, <3>1, <3>2 DEF ToSet
  <2> QED
    BY <1>1, <2>2, <2>3
<1>7. ASSUME NEW x \in ToSet(a) \cup ToSet(b) PROVE x \in ToSet(s)
  <2>1. CASE x \in ToSet(a)
    <3>1. PICK i \in 1..k : x = a[i]
      BY <1>5, <2>1 DEF ToSet
    <3>2. i \in DOMAIN s /\ s[i] = x
      BY <1>1, <1>2, <3>1
    <3> QED
      BY <3>2 DEF ToSet
  <2>2. CASE x \in ToSet(b)
    <3>1. PICK i \in 1..(Len(s) - k) : x = b[i]
      BY <1>5, <2>2 DEF ToSet
    <3>2. k + i \in DOMAIN s /\ s[k + i] = x
      BY <1>1, <1>4, <3>1
    <3> QED
      BY <3>2 DEF ToSet
  <2> QED
    BY <1>7, <2>1, <2>2
<1>8. ToSet(s) = ToSet(a) \cup ToSet(b)
  BY <1>6, <1>7
<1> QED
  BY <1>2, <1>3, <1>4, <1>8 DEF a, b

\* The outbox of a collection that left room for it: its evidence and a heartbeat.
LEMMA Beating ==
  ASSUME NEW s \in Seq(Entry), Len(s) <= Limit
  PROVE  /\ WithHeartbeat(s) \in Seq(Entry) /\ Bounded(WithHeartbeat(s))
         /\ ToSet(WithHeartbeat(s)) \ {Beat} = ToSet(s) \ {Beat}
         /\ Ordered(s) => Ordered(WithHeartbeat(s))
<1> DEFINE e == Evidence(s)
           t == <<Beat>>
<1>1. /\ e \in Seq(Events) /\ Len(e) <= Len(s) /\ Len(s) \in Nat /\ Len(e) \in Nat
      /\ ToSet(e) = ToSet(s) \ {Beat}
      /\ Ordered(s) => \A i, j \in DOMAIN e : i < j => e[i].id < e[j].id
  BY EvidenceOf
<1>2. e \in Seq(Entry) /\ t \in Seq(Entry) /\ ToSet(t) = {Beat} /\ Len(t) = 1
  BY <1>1 DEF Entry, ToSet
<1> HIDE DEF e, t
<1> DEFINE w == e \o t
<1>3. /\ w \in Seq(Entry) /\ Len(w) = Len(e) + 1 /\ ToSet(w) = ToSet(e) \cup {Beat}
      /\ \A i \in 1..Len(e) : w[i] = e[i]
  <2>1. /\ w \in Seq(Entry) /\ Len(w) = Len(e) + Len(t) /\ ToSet(w) = ToSet(e) \cup ToSet(t)
        /\ \A i \in 1..Len(e) : w[i] = e[i]
    BY <1>2, Joined
  <2> HIDE DEF w
  <2> QED
    BY <2>1, <1>2
<1>4. w[Len(e) + 1] = Beat
  BY <1>1, <1>2, Joined DEF t
<1>5. WithHeartbeat(s) = w
  BY <1>1, DeliveryAssumption DEF WithHeartbeat, e, t
<1> HIDE DEF w
<1>6. DOMAIN w = 1..(Len(e) + 1)
  BY <1>1, <1>3
<1>7. Bounded(w)
  BY <1>1, <1>3, <1>4, <1>6, DeliveryAssumption DEF Bounded
<1>8. ASSUME Ordered(s) PROVE Ordered(w)
  <2> SUFFICES ASSUME NEW i \in 1..(Len(e) + 1), NEW j \in 1..(Len(e) + 1), i < j,
                      w[i] # Beat, w[j] # Beat
               PROVE  w[i].id < w[j].id
    BY <1>6 DEF Ordered
  <2>1. i \in 1..Len(e) /\ j \in 1..Len(e) /\ DOMAIN e = 1..Len(e)
    BY <1>1, <1>4
  <2> QED
    BY <2>1, <1>1, <1>3, <1>8
<1> QED
  BY <1>1, <1>3, <1>5, <1>7, <1>8

-----------------------------------------------------------------------------
(* What steps do to a state of the agent.                                  *)

\* The lines that a state answers for are those of the events it knows.
LEMMA TakenOf ==
  ASSUME NEW s \in State, NEW st \in SUBSET Events
  PROVE  /\ LinesOf(ToSet(s.outbox)) \cup LinesOf(st)
              = {e.line : e \in (ToSet(s.outbox) \cup st) \ {Beat}}
         /\ (ToSet(s.outbox) \cup st) \ {Beat} \subseteq Events
<1>1. s.outbox \in Seq(Entry)
  BY DEF State, Entry
<1>2. ToSet(s.outbox) \subseteq Entry
  BY <1>1 DEF ToSet
<1>3. \A e \in Events : e.line # 0
  BY DEF Events, Lines
<1>4. Beat.line = 0
  BY DEF Beat
<1> QED
  BY <1>2, <1>3, <1>4 DEF LinesOf, Entry

\* Nothing changes for a state while the file and the table stay, and late requests
\* only become fewer.
LEMMA Steady ==
  ASSUME TypeOK, NEW s \in State, StateInv(s), UNCHANGED <<fileVars, stored>>,
         issued' \in Nat, issued <= issued', late' \subseteq late
  PROVE  StateInv(s)' /\ Known(s)' = Known(s)
<1>1. Known(s)' = Known(s) /\ Taken(s)' = Taken(s) /\ Known(s) \subseteq Events
  BY TakenOf DEF Known, Taken, TypeOK
<1>2. UNCHANGED <<log, inode, written, truncated>>
  BY DEF fileVars
<1>3. issued \in Nat /\ \A e \in Events : e.id \in Nat
  BY DEF TypeOK, Events
<1>4. OutboxInv(s)'
  BY <1>1, <1>2, <1>3 DEF StateInv, OutboxInv, Reached
<1>5. OffsetInv(s)'
  BY <1>1, <1>2 DEF StateInv, OffsetInv, OffsetHolds
<1>6. OrderInv(s)'
  BY <1>1 DEF StateInv, OrderInv, Precedes
<1> QED
  BY <1>1, <1>4, <1>5, <1>6 DEF StateInv

\* What is stored may leave the outbox.
LEMMA Shorter ==
  ASSUME TypeOK, stored' \in SUBSET Events, NEW s \in State, StateInv(s)',
         NEW t \in State, t.inode = s.inode, t.pos = s.pos, Ordered(t.outbox),
         ToSet(t.outbox) \subseteq ToSet(s.outbox),
         ToSet(s.outbox) \subseteq ToSet(t.outbox) \cup stored' \cup {Beat}
  PROVE  StateInv(t)' /\ Known(t)' = Known(s)'
<1>1. Known(t)' = Known(s)'
  BY DEF Known
<1>2. Taken(t)' = Taken(s)'
  BY <1>1, TakenOf DEF Known, Taken
<1>3. OutboxInv(t)'
  BY <1>1, <1>2 DEF StateInv, OutboxInv, Reached
<1>4. OffsetInv(t)'
  BY <1>2 DEF StateInv, OffsetInv, OffsetHolds
<1>5. OrderInv(t)'
  BY <1>1 DEF StateInv, OrderInv, Precedes
<1> QED
  BY <1>1, <1>3, <1>4, <1>5 DEF StateInv

\* A batch of known events goes to the table, with all that is older.
LEMMA Ingested ==
  ASSUME TypeOK, NEW batch \in Seq(Entry), Ingest(batch),
         NEW s \in State, StateInv(s),
         ToSet(batch) \subseteq Known(s) \cup {Beat}, Precedes(ToSet(batch), s),
         UNCHANGED <<fileVars, issued>>, late' \subseteq late
  PROVE  /\ StateInv(s)' /\ Known(s)' = Known(s)
         /\ stored \subseteq stored' /\ ToSet(batch) \ {Beat} \subseteq stored'
         /\ stored' \in SUBSET Events
<1>1. stored' = stored \cup (ToSet(batch) \ {Beat})
  BY DEF Ingest, New
<1>2. Known(s) \subseteq Events /\ stored \in SUBSET Events
  BY TakenOf DEF Known, TypeOK
<1>3. stored' \in SUBSET Events
  BY <1>1, <1>2
<1>4. Known(s)' = Known(s)
  BY <1>1, <1>2, BeatIsNoEvent DEF Known
<1>5. Taken(s)' = Taken(s)
  BY <1>2, <1>3, <1>4, TakenOf DEF Known, Taken
<1>6. UNCHANGED <<log, inode, written, truncated>>
  BY DEF fileVars
<1>7. OutboxInv(s)'
  BY <1>4, <1>5, <1>6 DEF StateInv, OutboxInv, Reached
<1>8. OffsetInv(s)'
  BY <1>5, <1>6 DEF StateInv, OffsetInv, OffsetHolds
<1>9. Precedes(stored, s)'
  <2> SUFFICES ASSUME NEW e \in stored', NEW f \in ToSet(s.outbox),
                      e # Beat, f # Beat, f.id <= e.id
               PROVE  f \in stored'
    BY DEF Precedes
  <2>1. CASE e \in stored
    BY <1>1, <2>1 DEF StateInv, OrderInv, Precedes
  <2>2. CASE e \in ToSet(batch)
    BY <1>1, <2>2 DEF Precedes
  <2> QED
    BY <1>1, <2>1, <2>2
<1>10. OrderInv(s)'
  BY <1>1, <1>4, <1>9 DEF StateInv, OrderInv, Precedes
<1> QED
  BY <1>1, <1>3, <1>4, <1>7, <1>8, <1>10 DEF StateInv

\* The head of an outbox has nothing older behind it.
LEMMA HeadPrecedes ==
  ASSUME NEW s \in State, Ordered(s.outbox), NEW k \in 0..Len(s.outbox)
  PROVE  Precedes(ToSet(SubSeq(s.outbox, 1, k)), s)
<1> DEFINE b == SubSeq(s.outbox, 1, k)
<1>1. s.outbox \in Seq(Entry) /\ \A i \in DOMAIN s.outbox : s.outbox[i] \in Entry
  BY DEF State, Entry
<1>2. b \in Seq(Entry) /\ Len(b) = k /\ \A i \in 1..k : b[i] = s.outbox[i]
  BY <1>1, Parted
<1>3. DOMAIN b = 1..k /\ DOMAIN s.outbox = 1..Len(s.outbox) /\ Len(s.outbox) \in Nat
  BY <1>1, <1>2
<1> HIDE DEF b
<1> SUFFICES ASSUME NEW e \in ToSet(b), NEW f \in ToSet(s.outbox),
                    e # Beat, f # Beat, f.id <= e.id
             PROVE  f \in ToSet(b)
  BY DEF Precedes, b
<1>a. PICK i \in 1..k : e = s.outbox[i]
  BY <1>2, <1>3 DEF ToSet
<1>b. PICK j \in DOMAIN s.outbox : f = s.outbox[j]
  BY DEF ToSet
<1>4. s.outbox[i].id \in Nat /\ s.outbox[j].id \in Nat
  BY <1>1, <1>3, <1>a, <1>b DEF Entry, Events
<1>5. ~(i < j)
  BY <1>3, <1>4, <1>a, <1>b DEF Ordered
<1>6. j \in 1..k
  BY <1>3, <1>5
<1> QED
  BY <1>2, <1>3, <1>6, <1>b DEF ToSet

\* The log grows by a line that no event has,
LEMMA Written ==
  ASSUME TypeOK, FileInv, NEW s \in State, StateInv(s), WriteLine
  PROVE  FileInv' /\ StateInv(s)' /\ Known(s)' = Known(s)
<1>1. /\ log \in Seq(Lines) /\ written \in Nat /\ Len(log) \in Nat /\ s.pos \in Nat
      /\ written' = written + 1 /\ written' \in Lines
      /\ UNCHANGED <<inode, truncated, issued, stored, late>>
  BY DeliveryAssumption DEF TypeOK, WriteLine, Lines, agentVars, serverVars, State
<1>2. /\ DOMAIN log = 1..Len(log) /\ DOMAIN log' = 1..(Len(log) + 1)
      /\ Len(log') = Len(log) + 1 /\ log'[Len(log) + 1] = written + 1
      /\ \A i \in 1..Len(log) : log'[i] = log[i]
  BY <1>1 DEF WriteLine
<1>3. \A i \in 1..Len(log) : log[i] \in Nat
  <2>1. \A i \in 1..Len(log) : log[i] \in Lines
    BY <1>1
  <2> QED
    BY <2>1 DEF Lines
<1>4. FileInv'
  <2>1. inode' > 0
    BY <1>1 DEF FileInv
  <2>2. \A i \in DOMAIN log' : log'[i] <= written'
    BY <1>1, <1>2, <1>3 DEF FileInv
  <2>3. ASSUME NEW i \in 1..(Len(log) + 1), NEW j \in 1..(Len(log) + 1), i < j
        PROVE  log'[i] < log'[j]
    <3>1. i \in 1..Len(log) /\ log'[i] = log[i] /\ log[i] <= written
      BY <1>1, <1>2, <2>3 DEF FileInv
    <3>2. CASE j = Len(log) + 1
      BY <1>1, <1>2, <1>3, <3>1, <3>2
    <3>3. CASE j # Len(log) + 1
      BY <1>1, <1>2, <2>3, <3>1, <3>3, SMTT(30) DEF FileInv
    <3> QED
      BY <3>2, <3>3
  <2> QED
    BY <1>2, <2>1, <2>2, <2>3 DEF FileInv
<1>5. /\ Known(s)' = Known(s) /\ Taken(s)' = Taken(s)
      /\ Known(s) \subseteq Events /\ Taken(s) = {e.line : e \in Known(s)}
  BY <1>1, TakenOf DEF Known, Taken, TypeOK
<1>6. \A e \in Known(s) : e.line \in Nat /\ e.line <= written
  BY <1>5 DEF Events, Lines, StateInv, OutboxInv
<1>7. OutboxInv(s)'
  <2>1. \A e \in Known(s)' : e.line <= written' /\ e.id <= issued'
    BY <1>1, <1>5, <1>6 DEF StateInv, OutboxInv
  <2>2. ASSUME NEW i \in 1..(Len(log) + 1), i > Reached(s)' PROVE log'[i] \notin Taken(s)
    <3>1. CASE i = Len(log) + 1
      BY <1>1, <1>2, <1>5, <1>6, <3>1
    <3>2. CASE i # Len(log) + 1
      <4>1. i \in 1..Len(log)
        BY <1>1, <3>2
      <4>2. i > Reached(s)
        BY <1>1, <1>2, <2>2, <4>1 DEF Reached
      <4> QED
        BY <1>2, <4>1, <4>2 DEF StateInv, OutboxInv
    <3> QED
      BY <3>1, <3>2
  <2> QED
    BY <1>2, <1>5, <2>1, <2>2 DEF StateInv, OutboxInv
<1>8. OffsetInv(s)'
  <2> SUFFICES ASSUME truncated = 0, s.inode = inode
               PROVE  s.pos <= Len(log) /\ OffsetHolds(s)'
    BY <1>1, <1>2 DEF StateInv, OffsetInv, OffsetHolds
  <2>1. s.pos <= Len(log) /\ OffsetHolds(s)
    BY DEF StateInv, OffsetInv
  <2>2. \A i \in 1..s.pos : i \in 1..Len(log) /\ 1..i \subseteq 1..Len(log)
    BY <1>1, <2>1
  <2>3. OffsetHolds(s)'
    BY <1>1, <1>2, <1>5, <2>1, <2>2 DEF OffsetHolds
  <2> QED
    BY <2>1, <2>3
<1>9. OrderInv(s)'
  BY <1>1, <1>5 DEF StateInv, OrderInv, Precedes
<1> QED
  BY <1>4, <1>5, <1>7, <1>8, <1>9 DEF StateInv

\* or starts anew, in another file or in the same.
LEMMA Emptied ==
  ASSUME TypeOK, FileInv, NEW s \in State, StateInv(s), Rotate \/ Truncate
  PROVE  FileInv' /\ StateInv(s)' /\ Known(s)' = Known(s)
<1>1. /\ log' = <<>> /\ inode \in Nat /\ truncated \in Nat /\ s.inode \in Nat /\ s.pos \in Nat
      /\ \/ inode' = inode + 1 /\ truncated' = truncated
         \/ inode' = inode /\ truncated' = truncated + 1
      /\ UNCHANGED <<written, issued, stored, late>>
  BY SMTT(30) DEF TypeOK, Rotate, Truncate, agentVars, serverVars, State
<1>2. DOMAIN log' = {} /\ Len(log') = 0
  BY <1>1
<1>3. FileInv'
  BY <1>1, <1>2 DEF FileInv
<1>4. /\ Known(s)' = Known(s) /\ Taken(s)' = Taken(s)
  BY <1>1 DEF Known, Taken
<1>5. OutboxInv(s)'
  BY <1>1, <1>2, <1>4 DEF StateInv, OutboxInv
<1>6. s.inode <= inode
  BY DEF StateInv, OffsetInv
<1>7. OffsetInv(s)'
  <2>1. s.inode <= inode' /\ (truncated' = 0 => s.inode # inode')
    BY <1>1, <1>6
  <2> QED
    BY <2>1 DEF OffsetInv, OffsetHolds
<1>8. OrderInv(s)'
  BY <1>1, <1>4 DEF StateInv, OrderInv, Precedes
<1> QED
  BY <1>3, <1>4, <1>5, <1>7, <1>8 DEF StateInv

\* The events of a collection: the next lines of the file, with the next numbers.
Gathers(new, p, n) ==
  /\ ToSet(new) = {new[i] : i \in 1..n}
  /\ \A i \in 1..n : /\ p + i \in DOMAIN log /\ log[p + i] <= written
                     /\ new[i].line = log[p + i] /\ new[i].id = issued + i
                     /\ new[i] \in Events

LEMMA Fresh ==
  ASSUME TypeOK, FileInv, NEW p \in Nat, p <= Len(log), NEW n \in 0..(Len(log) - p),
         NEW new, new = [i \in 1..n |-> [line |-> log[p + i], id |-> issued + i]]
  PROVE  new \in Seq(Entry) /\ Len(new) = n /\ Gathers(new, p, n)
<1>1. log \in Seq(Lines) /\ issued \in Nat /\ Len(log) \in Nat /\ DOMAIN log = 1..Len(log)
  BY DEF TypeOK
<1>2. \A i \in 1..n : p + i \in 1..Len(log)
  BY <1>1
<1>3. \A i \in 1..n : log[p + i] \in Lines /\ log[p + i] <= written
  BY <1>1, <1>2, SMTT(30) DEF FileInv
<1>4. \A i \in 1..n : issued + i \in Nat
  BY <1>1
<1>5. \A i \in 1..n : new[i] = [line |-> log[p + i], id |-> issued + i]
  OBVIOUS
<1>6. \A i \in 1..n : new[i] \in Events /\ new[i] \in Entry
  BY <1>3, <1>4, <1>5 DEF Events, Entry
<1>7. n \in Nat /\ DOMAIN new = 1..n
  BY <1>1
<1>8. new \in Seq(Entry) /\ Len(new) = n
  <2>1. new \in [1..n -> Entry]
    BY <1>6, <1>7
  <2> QED
    BY <2>1, <1>7
<1>9. ToSet(new) = {new[i] : i \in 1..n}
  BY <1>7 DEF ToSet
<1> QED
  BY <1>1, <1>2, <1>3, <1>5, <1>6, <1>8, <1>9 DEF Gathers


\* Where the collection of a state starts.
StartsAt(s, p) ==
  IF s.inode = inode /\ s.pos <= Len(log) THEN p = s.pos
  ELSE p = 0 \/ (~ReadFromStart /\ p = Len(log))

\* A state that takes the events, and whose offset is past them.
Takes(s, t, new, p, n) ==
  /\ t.inode = inode /\ t.pos = p + n /\ Ordered(t.outbox)
  /\ ToSet(t.outbox) \ {Beat} = (ToSet(s.outbox) \cup ToSet(new)) \ {Beat}

\* Such a state answers for them as well.
LEMMA Collected ==
  ASSUME TypeOK, FileInv, NEW s \in State, StateInv(s), NEW p \in Nat, StartsAt(s, p),
         NEW n \in Nat, p + n <= Len(log), NEW new, Gathers(new, p, n),
         NEW t \in State, Takes(s, t, new, p, n),
         issued' = issued + n, UNCHANGED <<fileVars, stored, late>>
  PROVE  StateInv(t)' /\ Known(s) \subseteq Known(t)'
<1>1. /\ issued \in Nat /\ Len(log) \in Nat /\ log \in Seq(Lines)
      /\ DOMAIN log = 1..Len(log) /\ stored \in SUBSET Events
  BY DEF TypeOK
<1>2. /\ UNCHANGED <<log, inode, written, truncated>>
      /\ issued' \in Nat /\ issued <= issued' /\ Len(log) \in Nat
      /\ DOMAIN log = 1..Len(log) /\ stored \in SUBSET Events
  BY <1>1 DEF fileVars
<1>a. \A i \in 1..n : new[i] \in Events /\ new[i] \in ToSet(new)
  BY DEF Gathers
<1>b. \A e \in ToSet(new) : \E i \in 1..n : e = new[i]
  BY DEF Gathers
<1>c. \A i \in 1..n : /\ p + i \in DOMAIN log /\ log[p + i] <= written
                      /\ new[i].line = log[p + i] /\ new[i].id = issued + i
  BY DEF Gathers
<1>d. t.inode = inode /\ t.pos = p + n
  BY DEF Takes
<1>3. /\ Known(t)' = Known(s) \cup ToSet(new)
      /\ Known(s) \subseteq Events /\ Taken(s) = {e.line : e \in Known(s)}
      /\ Known(t)' \subseteq Events /\ Taken(t)' = {e.line : e \in Known(t)'}
  <2>1. ToSet(new) \subseteq Events
    BY <1>a, <1>b
  <2>2. Known(t)' = Known(s) \cup ToSet(new)
    BY <2>1, <1>2, BeatIsNoEvent DEF Known, Takes
  <2> QED
    BY <1>2, <2>2, TakenOf DEF Known, Taken
<1>4. Taken(t)' = Taken(s) \cup {log[p + i] : i \in 1..n}
  <2>1. {e.line : e \in ToSet(new)} = {log[p + i] : i \in 1..n}
    <3>1. \A e \in ToSet(new) : \E i \in 1..n : e.line = log[p + i]
      BY <1>b, <1>c
    <3>2. \A i \in 1..n : new[i] \in ToSet(new) /\ new[i].line = log[p + i]
      BY <1>a, <1>c
    <3> QED
      BY <3>1, <3>2, SMTT(30)
  <2> QED
    BY <1>3, <2>1
<1>5. p >= Reached(s) /\ Reached(s) \in Nat
  BY DEF Reached, StartsAt, State
<1>6. \A i \in 1..n : log[p + i] \notin Taken(s)
  <2>1. \A i \in 1..n : p + i \in DOMAIN log /\ p + i > Reached(s)
    BY <1>5, <1>c
  <2> QED
    BY <2>1 DEF StateInv, OutboxInv
<1>7. \A i, j \in DOMAIN log : log[i] = log[j] => i = j
  <2>1. \A i \in DOMAIN log : log[i] \in Lines
    BY <1>1
  <2>2. \A i \in DOMAIN log : log[i] \in Nat
    BY <2>1 DEF Lines
  <2>3. \A i, j \in DOMAIN log : ~(i < j) => i = j \/ j < i
    BY <1>1
  <2> QED
    BY <2>2, <2>3 DEF FileInv
<1>8. ASSUME NEW e \in Known(t)' PROVE e.line <= written' /\ e.id <= issued'
  <2>1. CASE e \in Known(s)
    <3>1. e.line <= written /\ e.id <= issued /\ e.id \in Nat
      BY <1>3, <2>1 DEF StateInv, OutboxInv, Events
    <3> QED
      BY <3>1, <1>1, <1>2
  <2>2. CASE e \in ToSet(new)
    <3>1. PICK i \in 1..n : e = new[i]
      BY <2>2, <1>b
    <3> QED
      BY <3>1, <1>c, <1>1, <1>2
  <2> QED
    BY <1>3, <2>1, <2>2
<1>9. ASSUME NEW e \in Known(t)', NEW f \in Known(t)', e.line = f.line PROVE e = f
  <2>1. CASE e \in Known(s) /\ f \in Known(s)
    BY <1>9, <2>1 DEF StateInv, OutboxInv
  <2>2. CASE e \in ToSet(new) /\ f \in ToSet(new)
    <3>1. PICK i \in 1..n, j \in 1..n : e = new[i] /\ f = new[j]
      BY <2>2, <1>b
    <3>2. p + i = p + j
      BY <3>1, <1>c, <1>7, <1>9
    <3>3. i = j
      BY <3>2
    <3> QED
      BY <3>1, <3>3
  <2>3. CASE e \in Known(s) /\ f \in ToSet(new)
    <3>1. e.line \in Taken(s)
      BY <1>3, <2>3
    <3>2. PICK i \in 1..n : f = new[i]
      BY <2>3, <1>b
    <3> QED
      BY <3>1, <3>2, <1>6, <1>9, <1>c
  <2>4. CASE e \in ToSet(new) /\ f \in Known(s)
    <3>1. f.line \in Taken(s)
      BY <1>3, <2>4
    <3>2. PICK i \in 1..n : e = new[i]
      BY <2>4, <1>b
    <3> QED
      BY <3>1, <3>2, <1>6, <1>9, <1>c
  <2> QED
    BY <1>3, <2>1, <2>2, <2>3, <2>4
<1>10. Reached(t)' = p + n
  BY <1>2, <1>d DEF Reached
<1>11. ASSUME NEW i \in DOMAIN log, i > p + n PROVE log[i] \notin Taken(t)'
  <2>1. log[i] \notin Taken(s)
    <3>1. i > Reached(s)
      BY <1>1, <1>5, <1>11
    <3> QED
      BY <3>1 DEF StateInv, OutboxInv
  <2>2. ASSUME NEW j \in 1..n PROVE log[i] # log[p + j]
    <3>1. p + j \in DOMAIN log /\ p + j # i
      BY <1>c, <1>1, <1>11
    <3> QED
      BY <3>1, <1>7
  <2> QED
    BY <1>4, <2>1, <2>2
<1>12. OutboxInv(t)'
  BY <1>2, <1>8, <1>9, <1>10, <1>11 DEF OutboxInv, Takes
<1>13. ASSUME truncated = 0, NEW i \in 1..(p + n)
       PROVE  \/ log[i] \in Taken(t)'
              \/ ~ReadFromStart /\ \A k \in 1..i : log[k] \notin Taken(t)'
  <2>1. CASE i > p
    <3>1. i - p \in 1..n /\ p + (i - p) = i
      BY <2>1, <1>2
    <3> QED
      BY <3>1, <1>4
  <2>2. CASE i <= p
    <3>1. \A k \in 1..i : k \in DOMAIN log
      BY <2>2, <1>2
    <3>2. \A k \in 1..i, j \in 1..n : log[k] # log[p + j]
      <4>1. \A k \in 1..i, j \in 1..n : p + j \in DOMAIN log /\ k # p + j
        BY <2>2, <1>c
      <4> QED
        BY <3>1, <4>1, <1>7
    <3>3. CASE s.inode = inode /\ s.pos <= Len(log)
      <4>1. \/ log[i] \in Taken(s)
            \/ ~ReadFromStart /\ \A k \in 1..i : log[k] \notin Taken(s)
        BY <1>13, <2>2, <3>3 DEF StateInv, OffsetInv, OffsetHolds, StartsAt
      <4> QED
        BY <4>1, <3>2, <1>4
    <3>4. CASE ~(s.inode = inode /\ s.pos <= Len(log))
      <4>1. ~ReadFromStart
        BY <2>2, <3>4 DEF StartsAt
      <4>2. \A k \in 1..i : log[k] \notin Taken(s)
        BY <3>1, <3>4 DEF StateInv, OutboxInv, Reached
      <4> QED
        BY <4>1, <4>2, <3>2, <1>4
    <3> QED
      BY <3>3, <3>4
  <2> QED
    BY <2>1, <2>2
<1>14. OffsetInv(t)'
  <2>1. t.inode <= inode /\ t.pos <= Len(log)
    BY <1>2, <1>d DEF State
  <2> QED
    BY <1>2, <1>13, <1>d, <2>1 DEF OffsetInv, OffsetHolds
<1>15. ASSUME NEW E, E \subseteq Known(s) \cup {Beat}, Precedes(E, s)
       PROVE  Precedes(E, t)'
  <2> SUFFICES ASSUME NEW e \in E, NEW f \in ToSet(t.outbox), e # Beat, f # Beat, f.id <= e.id
               PROVE  f \in stored \cup E
    BY <1>2 DEF Precedes
  <2>1. e \in Known(s) /\ e.id <= issued /\ e.id \in Nat
    BY <1>3, <1>15 DEF StateInv, OutboxInv, Events
  <2>2. f \notin ToSet(new)
    <3> SUFFICES ASSUME NEW i \in 1..n, f = new[i] PROVE FALSE
      BY <1>b
    <3> QED
      BY <1>c, <1>1, <2>1
  <2>3. f \in ToSet(s.outbox)
    BY <2>2 DEF Takes
  <2> QED
    BY <2>3, <1>15 DEF Precedes
<1>16. stored \subseteq Known(s)
  BY <1>2, BeatIsNoEvent DEF Known
<1>17. OrderInv(t)'
  BY <1>2, <1>3, <1>15, <1>16 DEF StateInv, OrderInv
<1> QED
  BY <1>3, <1>12, <1>14, <1>17 DEF StateInv

\* Each line of a batch that goes to the table is counted once.
LEMMA Counted ==
  ASSUME TypeOK, RecordInv, NEW s \in State, StateInv(s),
         NEW batch \in Seq(Entry), Ingest(batch), ToSet(batch) \subseteq Known(s) \cup {Beat}
  PROVE  RecordInv' /\ recorded' \in [Lines -> Nat]
<1> DEFINE new == ToSet(batch) \ ({Beat} \cup stored)
           At(l) == {e \in new : e.line = l}
<1>1. /\ Known(s) \subseteq Events /\ stored \subseteq Known(s) /\ stored \in SUBSET Events
  BY TakenOf, BeatIsNoEvent DEF Known, TypeOK
<1>2. new \subseteq Known(s)
  BY <1>1
<1>3. {e \in ToSet(batch) : New(e)} = new
  BY DEF New
<1>4. stored' = stored \cup new /\ recorded' = [l \in Lines |-> recorded[l] + Cardinality(At(l))]
  BY <1>3 DEF Ingest
<1> HIDE DEF new
<1>5. ASSUME NEW l \in Lines
      PROVE  Cardinality(At(l)) = IF l \in LinesOf(new) THEN 1 ELSE 0
  <2>1. CASE l \in LinesOf(new)
    <3>1. PICK e \in new : e.line = l
      BY <2>1 DEF LinesOf
    <3>2. At(l) = {e}
      BY <3>1, <1>2 DEF StateInv, OutboxInv
    <3> QED
      BY <2>1, <3>2, FS_Singleton
  <2>2. CASE l \notin LinesOf(new)
    <3>1. l # 0
      BY DEF Lines
    <3>2. At(l) = {}
      BY <2>2, <3>1 DEF LinesOf
    <3> QED
      BY <2>2, <3>2, FS_EmptySet
  <2> QED
    BY <2>1, <2>2
<1> HIDE DEF At
<1>6. \A l \in Lines : recorded[l] = IF l \in LinesOf(stored) THEN 1 ELSE 0
  BY DEF RecordInv
<1>7. ASSUME NEW l \in Lines, l \in LinesOf(stored), l \in LinesOf(new) PROVE FALSE
  <2>1. PICK e \in stored, f \in new : e.line = l /\ f.line = l
    BY <1>7 DEF LinesOf
  <2>2. e = f
    BY <1>1, <1>2, <2>1 DEF StateInv, OutboxInv
  <2> QED
    BY <2>1, <2>2 DEF new
<1>8. LinesOf(stored') = LinesOf(stored) \cup LinesOf(new)
  BY <1>4 DEF LinesOf
<1>9. ASSUME NEW l \in Lines
      PROVE  recorded'[l] = IF l \in LinesOf(stored') THEN 1 ELSE 0
  <2>1. recorded'[l] = recorded[l] + Cardinality(At(l))
    BY <1>4
  <2> QED
    BY <1>5, <1>6, <1>7, <1>8, <2>1
<1>10. recorded' = [l \in Lines |-> recorded'[l]]
  BY <1>4
<1>11. \A l \in Lines : recorded'[l] \in Nat
  BY <1>9
<1>12. recorded' \in [Lines -> Nat]
  BY <1>10, <1>11
<1> QED
  BY <1>9, <1>12 DEF RecordInv

-----------------------------------------------------------------------------
(* The invariant holds, action by action.                                  *)

LEMMA InitInv == Init => IInv
<1> SUFFICES ASSUME Init PROVE IInv
  OBVIOUS
<1>1. disk \in State /\ disk.outbox = <<>> /\ disk.inode = 0 /\ disk.pos = 0
  BY DEF Init, State
<1>a. Bounded(<<>>)
  BY DeliveryAssumption DEF Bounded
<1>b. 0 \in 0..MaxLines /\ 0 \in 0..MaxResets /\ 0 \in 0..MaxStale /\ 0 \in 0..MaxFaults
  BY DeliveryAssumption
<1>c. log \in Seq(Lines) /\ recorded \in [Lines -> Nat] /\ inode \in Nat /\ issued \in Nat
  BY DEF Init
<1>2. TypeOK
  BY <1>1, <1>a, <1>b, <1>c DEF Init, TypeOK
<1>3. FileInv /\ AgentInv
  BY DEF Init, FileInv, AgentInv
<1>4. RecordInv
  BY DEF Init, RecordInv, LinesOf
<1>5. ASSUME NEW s \in Current PROVE StateInv(s)
  <2>1. s = disk /\ Known(s) = {} /\ Taken(s) = {}
    BY <1>1 DEF Init, Current, Known, Taken, LinesOf, ToSet
  <2>2. OutboxInv(s)
    BY <1>1, <2>1 DEF Init, OutboxInv, Ordered
  <2>3. OffsetInv(s)
    BY <1>1, <2>1 DEF Init, OffsetInv, OffsetHolds
  <2>4. OrderInv(s)
    BY <1>1, <2>1 DEF Init, OrderInv, Precedes
  <2> QED
    BY <2>2, <2>3, <2>4 DEF StateInv
<1> QED
  BY <1>2, <1>3, <1>4, <1>5 DEF IInv

LEMMA FileStep ==
  ASSUME IInv, WriteLine \/ Rotate \/ Truncate
  PROVE  IInv'
<1>1. TypeOK /\ FileInv /\ AgentInv /\ RecordInv /\ mem \in State /\ disk \in State
  BY DEF IInv, TypeOK
<1>2. UNCHANGED <<mem, disk, pc, recovering, issued, horizon, stored, recorded, late, heard, faults>>
  BY DEF WriteLine, Rotate, Truncate, agentVars, serverVars
<1>3. /\ log' \in Seq(Lines) /\ inode' \in Nat /\ written' \in 0..MaxLines
      /\ truncated' \in 0..MaxResets
  <2>1. CASE WriteLine
    <3>1. written + 1 \in Lines /\ written' = written + 1
      BY <1>1, <2>1, DeliveryAssumption DEF TypeOK, WriteLine, Lines
    <3> QED
      BY <1>1, <2>1, <3>1 DEF TypeOK, WriteLine, Lines
  <2>2. CASE Rotate
    BY <1>1, <2>2 DEF TypeOK, Rotate
  <2>3. CASE Truncate
    <3>1. /\ inode - 1 \in Nat /\ truncated \in Nat /\ (inode - 1) + truncated < MaxResets
          /\ truncated' = truncated + 1
      BY <1>1, <2>3 DEF TypeOK, FileInv, Truncate
    <3>2. truncated' \in 0..MaxResets
      BY <3>1, DeliveryAssumption
    <3> QED
      BY <1>1, <2>3, <3>2 DEF TypeOK, Truncate
  <2> QED
    BY <2>1, <2>2, <2>3
<1>4. TypeOK'
  BY <1>1, <1>2, <1>3 DEF TypeOK
<1>5. FileInv' /\ \A s \in State : StateInv(s) => StateInv(s)'
  BY <1>1, Written, Emptied DEF IInv, Current
<1>6. AgentInv' /\ RecordInv'
  BY <1>1, <1>2 DEF AgentInv, Known, RecordInv
<1>7. \A s \in Current' : s \in State /\ StateInv(s)
  BY <1>1, <1>2 DEF IInv, Current
<1> QED
  BY <1>4, <1>5, <1>6, <1>7 DEF IInv

\* Two states with the same offset and outbox.
Alike(s, t) == t.inode = s.inode /\ t.pos = s.pos /\ t.outbox = s.outbox

\* A step that only passes states between memory and disk.
Passes ==
  /\ UNCHANGED fileVars /\ UNCHANGED issued
  /\ UNCHANGED stored /\ UNCHANGED recorded /\ UNCHANGED late
  /\ mem' \in State /\ Bounded(mem'.outbox)
  /\ disk' = disk \/ disk' = mem \/ disk' = mem'
  /\ mem' = mem \/ mem' = disk \/ (pc # "asleep" /\ Alike(mem, mem'))
  /\ pc = "asleep" => disk' = disk /\ (mem' = disk \/ pc' = "asleep")
  /\ pc' \in {"asleep", "collect", "save", "health", "send", "sent", "recovered",
               "finish", "failed"}
  /\ recovering' \in BOOLEAN /\ horizon' \in 0..MaxStale /\ heard' \in BOOLEAN
  /\ faults' \in 0..MaxFaults

LEMMA Quiet ==
  ASSUME IInv, Passes, AgentInv'
  PROVE  IInv'
<1> USE DEF Passes
<1>1. TypeOK /\ FileInv /\ RecordInv /\ mem \in State /\ disk \in State
  BY DEF IInv, TypeOK
<1>2. disk' \in State /\ Bounded(disk'.outbox)
  BY <1>1 DEF TypeOK
<1>3. UNCHANGED <<log, inode, written, truncated>>
  BY DEF fileVars
<1>4. TypeOK'
  BY <1>1, <1>2, <1>3 DEF TypeOK
<1>5. FileInv' /\ RecordInv'
  BY <1>1, <1>3 DEF FileInv, RecordInv
<1>6. ASSUME NEW t \in Current'
      PROVE  \E s \in Current : s \in State /\ t \in State /\ Alike(s, t)
  <2>1. \/ t = disk /\ disk \in Current
        \/ t = mem /\ mem \in Current
        \/ t = mem' /\ mem \in Current /\ Alike(mem, mem')
    BY <1>6 DEF Current, Alike
  <2> QED
    BY <1>1, <2>1 DEF Alike
<1>7. ASSUME NEW t \in Current' PROVE StateInv(t)'
  <2>1. PICK s \in Current : s \in State /\ t \in State /\ Alike(s, t)
    BY <1>6
  <2>2. StateInv(s) /\ StateInv(s)'
    BY <1>1, <2>1, Steady DEF IInv, TypeOK
  <2>3. Ordered(t.outbox) /\ stored' \in SUBSET Events
    BY <1>1, <2>1, <2>2 DEF StateInv, OutboxInv, Alike, TypeOK
  <2> QED
    BY <1>1, <2>1, <2>2, <2>3, Shorter DEF Alike
<1> QED
  BY <1>4, <1>5, <1>7 DEF IInv

\* A state with another flag or status is alike.
LEMMA Flagged ==
  ASSUME TypeOK, NEW p \in BOOLEAN, NEW x \in {"none", "ok", "error"},
         mem' = [mem EXCEPT !.status = x] \/ mem' = [mem EXCEPT !.paused = p]
  PROVE  mem' \in State /\ Alike(mem, mem') /\ Bounded(mem'.outbox)
<1>1. mem \in State /\ Bounded(mem.outbox)
  BY DEF TypeOK
<1>2. mem' \in State /\ Alike(mem, mem')
  BY <1>1 DEF State, Alike
<1> QED
  BY <1>1, <1>2 DEF Alike

LEMMA LoseStep ==
  ASSUME TypeOK, Lose
  PROVE  mem' \in State /\ Alike(mem, mem') /\ Bounded(mem'.outbox) /\ faults' \in 0..MaxFaults
<1>1. faults' \in 0..MaxFaults
  BY DeliveryAssumption, SMTT(30) DEF TypeOK, Lose
<1> QED
  BY <1>1, Flagged DEF Lose

LEMMA QuietStep ==
  ASSUME IInv,
         \/ Load \/ Save \/ SendHealth \/ SaveSent \/ Drained \/ SendRecovered \/ Finish
         \/ Outlive \/ Crash \/ UNCHANGED vars
  PROVE  IInv'
<1>1. TypeOK /\ AgentInv
  BY DEF IInv
<1>2. /\ mem \in State /\ disk \in State /\ Bounded(mem.outbox) /\ Bounded(disk.outbox)
      /\ pc \in {"asleep", "collect", "save", "health", "send", "sent", "recovered",
                 "finish", "failed"}
      /\ recovering \in BOOLEAN /\ horizon \in 0..MaxStale /\ heard \in BOOLEAN
      /\ faults \in 0..MaxFaults
  BY <1>1 DEF TypeOK
<1>3. CASE Load
  <2>1. AgentInv'
    BY <1>3 DEF Load, AgentInv, Known
  <2>9. Passes
    BY <1>2, <1>3, <2>1 DEF Passes, Load, serverVars
  <2> QED
    BY <2>9, <2>1, Quiet
<1>4. CASE Save
  <2>1. AgentInv'
    BY <1>4 DEF Save, AgentInv, Known
  <2>2. recovering' \in BOOLEAN
    BY <1>2, <1>4 DEF Save, Recovering, State
  <2>9. Passes
    BY <1>2, <1>4, <2>1, <2>2 DEF Passes, Save, serverVars
  <2> QED
    BY <2>9, <2>1, Quiet
<1>5. CASE SendHealth
  <2>1. AgentInv' /\ mem' \in State /\ Bounded(mem'.outbox) /\ faults' \in 0..MaxFaults
        /\ heard' \in BOOLEAN /\ pc' \in {"send", "failed"} /\ Alike(mem, mem')
    <3>1. CASE heard' = TRUE /\ pc' = "send" /\ UNCHANGED <<mem, faults>>
      BY <1>1, <1>2, <1>5, <3>1 DEF SendHealth, AgentInv, Known, serverVars, Alike
    <3>2. CASE Lose /\ heard' \in {heard, TRUE}
      <4>1. mem' \in State /\ Alike(mem, mem') /\ Bounded(mem'.outbox) /\ faults' \in 0..MaxFaults
        BY <1>1, <3>2, LoseStep
      <4>2. AgentInv'
        BY <1>1, <1>5, <3>2, <4>1 DEF SendHealth, Lose, AgentInv, Known, serverVars, Alike
      <4> QED
        BY <1>2, <3>2, <4>1, <4>2 DEF Lose
    <3> QED
      BY <1>5, <3>1, <3>2 DEF SendHealth
  <2>9. Passes
    BY <1>2, <1>5, <2>1 DEF Passes, SendHealth, serverVars
  <2> QED
    BY <2>9, <2>1, Quiet
<1>6. CASE SaveSent
  <2>1. AgentInv'
    BY <1>6 DEF SaveSent, AgentInv, Known
  <2>9. Passes
    BY <1>2, <1>6, <2>1 DEF Passes, SaveSent, serverVars
  <2> QED
    BY <2>9, <2>1, Quiet
<1>7. CASE Drained
  <2>1. CASE recovering
    <3>1. /\ mem' = [mem EXCEPT !.paused = FALSE] /\ disk' = mem' /\ pc' = "recovered"
          /\ pc = "send"
      BY <1>7, <2>1 DEF Drained
    <3>2. mem' \in State /\ Alike(mem, mem') /\ Bounded(mem'.outbox)
      BY <1>1, <3>1, Flagged
    <3>3. AgentInv'
      BY <3>1 DEF AgentInv, Known
    <3>9. Passes
      BY <1>2, <1>7, <3>1, <3>2, <3>3 DEF Passes, Drained, serverVars
    <3> QED
      BY <3>9, <3>3, Quiet
  <2>2. CASE ~recovering
    <3>1. AgentInv'
      BY <1>1, <1>7, <2>2 DEF Drained, AgentInv, Known, serverVars
    <3>9. Passes
      BY <1>2, <1>7, <2>2, <3>1 DEF Passes, Drained, serverVars
    <3> QED
      BY <3>9, <3>1, Quiet
  <2> QED
    BY <2>1, <2>2
<1>8. CASE SendRecovered
  <2>1. AgentInv' /\ mem' \in State /\ Bounded(mem'.outbox) /\ faults' \in 0..MaxFaults
        /\ heard' \in BOOLEAN /\ pc' \in {"finish", "failed"} /\ Alike(mem, mem')
    <3>1. mem' \in State /\ Bounded(mem'.outbox) /\ faults' \in 0..MaxFaults
          /\ heard' \in BOOLEAN /\ pc' \in {"finish", "failed"} /\ Alike(mem, mem')
      BY <1>1, <1>2, <1>8, LoseStep, Flagged DEF SendRecovered, Lose
    <3>2. AgentInv'
      BY <1>1, <1>8, <3>1 DEF SendRecovered, AgentInv, Known, serverVars, Alike
    <3> QED
      BY <3>1, <3>2
  <2>9. Passes
    BY <1>2, <1>8, <2>1 DEF Passes, SendRecovered, serverVars
  <2> QED
    BY <2>9, <2>1, Quiet
<1>9. CASE Finish
  <2>1. AgentInv'
    BY <1>9 DEF Finish, AgentInv
  <2>9. Passes
    BY <1>2, <1>9, <2>1 DEF Passes, Finish, serverVars
  <2> QED
    BY <2>9, <2>1, Quiet
<1>10. CASE Outlive
  <2>1. AgentInv'
    BY <1>1, <1>10 DEF Outlive, AgentInv, Known, agentVars
  <2>2. horizon' \in 0..MaxStale
    BY <1>2, <1>10, DeliveryAssumption DEF Outlive
  <2>9. Passes
    BY <1>2, <1>10, <2>1, <2>2 DEF Passes, Outlive, agentVars, Alike
  <2> QED
    BY <2>9, <2>1, Quiet
<1>11. CASE Crash
  <2>1. AgentInv'
    BY <1>11 DEF Crash, AgentInv
  <2>2. faults' \in 0..MaxFaults
    BY <1>2, <1>11, DeliveryAssumption DEF Crash
  <2>9. Passes
    BY <1>2, <1>11, <2>1, <2>2 DEF Passes, Crash, serverVars
  <2> QED
    BY <2>9, <2>1, Quiet
<1>12. CASE UNCHANGED vars
  <2>1. AgentInv'
    BY <1>1, <1>12 DEF vars, AgentInv, Known, agentVars, serverVars
  <2>9. Passes
    BY <1>2, <1>12, <2>1 DEF Passes, vars, agentVars, serverVars
  <2> QED
    BY <2>9, <2>1, Quiet
<1> QED
  BY <1>3, <1>4, <1>5, <1>6, <1>7, <1>8, <1>9, <1>10, <1>11, <1>12

\* A batch that may go to the table: every state knows it, with all that is older.
Sendable(batch) ==
  \A s \in Current : /\ ToSet(batch) \subseteq Known(s) \cup {Beat}
                     /\ Precedes(ToSet(batch), s)

LEMMA Tabled ==
  ASSUME IInv, NEW batch \in Seq(Entry), Sendable(batch), Ingest(batch),
         UNCHANGED <<fileVars, issued>>, late' \subseteq late
  PROVE  /\ stored' \in SUBSET Events /\ stored \subseteq stored'
         /\ ToSet(batch) \ {Beat} \subseteq stored'
         /\ RecordInv' /\ recorded' \in [Lines -> Nat]
         /\ \A s \in Current : StateInv(s)' /\ Known(s)' = Known(s)
<1>1. TypeOK /\ RecordInv /\ disk \in Current
  BY DEF IInv, Current
<1>2. \A s \in Current : s \in State /\ StateInv(s)
  BY DEF IInv, Current, TypeOK
<1>3. ASSUME NEW s \in Current
      PROVE  /\ StateInv(s)' /\ Known(s)' = Known(s)
             /\ stored \subseteq stored' /\ ToSet(batch) \ {Beat} \subseteq stored'
             /\ stored' \in SUBSET Events
             /\ RecordInv' /\ recorded' \in [Lines -> Nat]
  <2>1. ToSet(batch) \subseteq Known(s) \cup {Beat} /\ Precedes(ToSet(batch), s)
    BY DEF Sendable
  <2>2. s \in State /\ StateInv(s)
    BY <1>2
  <2>3. RecordInv' /\ recorded' \in [Lines -> Nat]
    BY <1>1, <2>1, <2>2, Counted
  <2> QED
    BY <1>1, <2>1, <2>2, <2>3, Ingested
<1> QED
  BY <1>1, <1>3

LEMMA LateStep ==
  ASSUME IInv, LateIngest
  PROVE  IInv'
<1>1. TypeOK /\ FileInv /\ AgentInv /\ RecordInv /\ late \subseteq Seq(Entry)
  BY DEF IInv, TypeOK, Entry
<1>2. PICK batch \in late :
        /\ late' = late \ {batch}
        /\ Ingest(batch) \/ UNCHANGED <<stored, recorded>>
  BY DEF LateIngest
<1>3. UNCHANGED <<log, inode, written, truncated, mem, disk, pc, recovering, issued, horizon,
                  heard, faults>>
  BY DEF LateIngest, fileVars, agentVars
<1>4. \A s \in Current : s \in State /\ StateInv(s)
  BY DEF IInv, Current, TypeOK
<1>5. Sendable(batch)
  BY <1>2, <1>4 DEF Sendable, StateInv, OrderInv
<1>6. /\ stored' \in SUBSET Events /\ stored \subseteq stored'
      /\ RecordInv' /\ recorded' \in [Lines -> Nat]
      /\ \A s \in Current : StateInv(s)'
  <2>1. UNCHANGED <<fileVars, issued>> /\ late' \subseteq late /\ batch \in Seq(Entry)
    BY <1>1, <1>2, <1>3 DEF fileVars
  <2>2. CASE Ingest(batch)
    BY <1>5, <2>1, <2>2, Tabled
  <2>3. CASE UNCHANGED <<stored, recorded>>
    <3>1. RecordInv' /\ stored' \in SUBSET Events /\ recorded' \in [Lines -> Nat]
      BY <1>1, <2>3 DEF RecordInv, TypeOK
    <3>2. issued' \in Nat /\ issued <= issued'
      BY <1>1, <2>1 DEF TypeOK
    <3>3. \A s \in Current : StateInv(s)'
      BY <1>1, <1>4, <2>1, <2>3, <3>2, Steady
    <3> QED
      BY <2>3, <3>1, <3>3
  <2> QED
    BY <1>2, <2>2, <2>3
<1>7. TypeOK'
  BY <1>1, <1>2, <1>3, <1>6 DEF TypeOK
<1>8. FileInv' /\ AgentInv'
  BY <1>1, <1>3, <1>6 DEF FileInv, AgentInv, Known
<1>9. Current' = Current
  BY <1>3 DEF Current
<1> QED
  BY <1>6, <1>7, <1>8, <1>9 DEF IInv

\* What Send sends is the head of the outbox on disk, and may go to the table.
LEMMA TheBatch ==
  ASSUME IInv, pc = "send", mem.outbox # <<>>
  PROVE  \E k \in 1..Len(mem.outbox) :
           /\ Batch = SubSeq(mem.outbox, 1, k) /\ Batch \in Seq(Entry)
           /\ Rest(mem.outbox, Batch) = SubSeq(mem.outbox, k + 1, Len(mem.outbox))
           /\ Sendable(Batch)
<1> DEFINE k == Least(BatchSize, Len(mem.outbox))
<1>1. /\ mem \in State /\ mem.outbox \in Seq(Entry) /\ disk.outbox = mem.outbox
      /\ \A s \in Current : s \in State /\ StateInv(s)
  BY DEF IInv, TypeOK, State, Entry, AgentInv, Current
<1>2. Len(mem.outbox) \in Nat \ {0}
  BY <1>1
<1>3. k \in 1..Len(mem.outbox) /\ k \in 0..Len(mem.outbox)
  BY <1>2, DeliveryAssumption DEF Least
<1>4. Batch = SubSeq(mem.outbox, 1, k)
  BY DEF Batch
<1> HIDE DEF k
<1>5. /\ Batch \in Seq(Entry) /\ Len(Batch) = k
      /\ ToSet(Batch) \subseteq ToSet(mem.outbox)
  <2>1. /\ SubSeq(mem.outbox, 1, k) \in Seq(Entry) /\ Len(SubSeq(mem.outbox, 1, k)) = k
        /\ ToSet(SubSeq(mem.outbox, 1, k)) \subseteq ToSet(mem.outbox)
    BY <1>1, <1>3, Parted
  <2> QED
    BY <1>4, <2>1
<1>6. Rest(mem.outbox, Batch) = SubSeq(mem.outbox, k + 1, Len(mem.outbox))
  BY <1>5 DEF Rest
<1>7. Sendable(Batch)
  <2> SUFFICES ASSUME NEW s \in Current
               PROVE  /\ ToSet(Batch) \subseteq Known(s) \cup {Beat}
                      /\ Precedes(ToSet(Batch), s)
    BY DEF Sendable
  <2>1. s \in State /\ s.outbox = mem.outbox /\ Ordered(s.outbox)
    BY <1>1 DEF Current, StateInv, OutboxInv
  <2>2. Precedes(ToSet(SubSeq(s.outbox, 1, k)), s)
    BY <1>3, <2>1, HeadPrecedes
  <2> QED
    BY <1>4, <1>5, <2>1, <2>2 DEF Known
<1> QED
  BY <1>3, <1>4, <1>5, <1>6, <1>7

\* It is sent, and the agent hears so.
LEMMA Acknowledged ==
  ASSUME IInv, Send, pc' = "sent"
  PROVE  IInv'
<1>1. /\ TypeOK /\ FileInv /\ pc = "send" /\ mem.outbox # <<>>
      /\ mem \in State /\ mem.outbox \in Seq(Entry) /\ Bounded(mem.outbox)
      /\ disk.outbox = mem.outbox /\ mem \in Current /\ disk \in Current
  BY DEF IInv, Send, TypeOK, State, Entry, AgentInv, Current
<1>2. /\ Ingest(Batch) /\ heard' = TRUE
      /\ mem' = [mem EXCEPT !.outbox = Rest(mem.outbox, Batch), !.status = "ok"]
      /\ UNCHANGED <<late, faults, disk, recovering, issued, horizon, fileVars>>
  BY DEF Send, Lose
<1>3. PICK k \in 1..Len(mem.outbox) :
        /\ Batch = SubSeq(mem.outbox, 1, k) /\ Batch \in Seq(Entry)
        /\ Rest(mem.outbox, Batch) = SubSeq(mem.outbox, k + 1, Len(mem.outbox))
        /\ Sendable(Batch)
  BY <1>1, TheBatch
<1> DEFINE r == SubSeq(mem.outbox, k + 1, Len(mem.outbox))
           n == Len(mem.outbox)
<1>4. /\ r \in Seq(Entry) /\ Len(r) = n - k /\ n \in Nat /\ k \in 1..n
      /\ \A i \in 1..(n - k) : r[i] = mem.outbox[k + i]
      /\ ToSet(mem.outbox) = ToSet(Batch) \cup ToSet(r)
  <2>1. n \in Nat /\ k \in 0..n
    BY <1>1
  <2>2. /\ r \in Seq(Entry) /\ Len(r) = n - k
        /\ \A i \in 1..(n - k) : r[i] = mem.outbox[k + i]
        /\ ToSet(mem.outbox) = ToSet(SubSeq(mem.outbox, 1, k)) \cup ToSet(r)
    BY <1>1, <2>1, Parted
  <2> QED
    BY <1>3, <2>1, <2>2
<1>5. mem' = [mem EXCEPT !.outbox = r, !.status = "ok"]
  BY <1>2, <1>3
<1> HIDE DEF r, n
<1>6. /\ mem' \in State /\ mem'.outbox = r /\ mem'.inode = mem.inode /\ mem'.pos = mem.pos
  BY <1>1, <1>4, <1>5 DEF State, Entry
<1>7. DOMAIN r = 1..(n - k) /\ DOMAIN mem.outbox = 1..n
      /\ \A i \in 1..(n - k) : k + i \in 1..n
  BY <1>1, <1>4 DEF n
<1>8. Bounded(r)
  <2>1. Len(r) <= Capacity
    BY <1>1, <1>4, DeliveryAssumption DEF Bounded, n
  <2>2. ASSUME NEW i \in 1..(n - k), i > Limit PROVE r[i] = Beat
    <3>1. k + i \in DOMAIN mem.outbox /\ k + i > Limit
      BY <1>4, <1>7, <2>2, DeliveryAssumption
    <3> QED
      BY <1>1, <1>4, <3>1 DEF Bounded
  <2> QED
    BY <1>7, <2>1, <2>2 DEF Bounded
<1>9. Ordered(r)
  <2>1. Ordered(mem.outbox)
    BY <1>1 DEF IInv, StateInv, OutboxInv
  <2>2. ASSUME NEW i \in 1..(n - k), NEW j \in 1..(n - k), i < j, r[i] # Beat, r[j] # Beat
        PROVE  r[i].id < r[j].id
    <3>1. k + i \in DOMAIN mem.outbox /\ k + j \in DOMAIN mem.outbox /\ k + i < k + j
      BY <1>4, <1>7, <2>2
    <3>2. r[i] = mem.outbox[k + i] /\ r[j] = mem.outbox[k + j]
      BY <1>4
    <3> QED
      BY <2>1, <2>2, <3>1, <3>2 DEF Ordered
  <2> QED
    BY <1>7, <2>2 DEF Ordered
<1>10. /\ stored' \in SUBSET Events /\ ToSet(Batch) \ {Beat} \subseteq stored'
       /\ RecordInv' /\ recorded' \in [Lines -> Nat]
       /\ \A s \in Current : StateInv(s)' /\ Known(s)' = Known(s)
  <2>1. UNCHANGED <<fileVars, issued>> /\ late' \subseteq late
    BY <1>2
  <2> QED
    BY <1>2, <1>3, <2>1, Tabled
<1>11. \A t : t = mem' => StateInv(t)'
  <2> SUFFICES ASSUME NEW t, t = mem' PROVE StateInv(t)'
    OBVIOUS
  <2>1. PICK s \in Current : s = mem
    BY <1>1
  <2>2. s \in State /\ StateInv(s)'
    BY <1>1, <1>10, <2>1
  <2>3. /\ t \in State /\ t.inode = s.inode /\ t.pos = s.pos /\ Ordered(t.outbox)
        /\ ToSet(t.outbox) \subseteq ToSet(s.outbox)
        /\ ToSet(s.outbox) \subseteq ToSet(t.outbox) \cup stored' \cup {Beat}
    BY <1>4, <1>6, <1>9, <1>10, <2>1
  <2> QED
    BY <1>1, <1>10, <2>2, <2>3, Shorter
<1>12. ASSUME NEW t \in Current' PROVE StateInv(t)'
  <2>1. t = disk \/ t = mem'
    BY <1>2 DEF Current
  <2> QED
    BY <1>1, <1>10, <1>11, <2>1
<1>13. UNCHANGED <<log, inode, written, truncated>>
  BY <1>2 DEF fileVars
<1>14. TypeOK'
  BY <1>1, <1>2, <1>6, <1>8, <1>10, <1>13 DEF TypeOK
<1>15. FileInv'
  BY <1>1, <1>13 DEF FileInv
<1>16. AgentInv'
  BY <1>1, <1>2, <1>4, <1>6, <1>10 DEF AgentInv, Known
<1> QED
  BY <1>10, <1>12, <1>14, <1>15, <1>16 DEF IInv

\* It is sent, and the agent does not hear so: it is refused, lost, stored, or late.
LEMMA Unanswered ==
  ASSUME IInv, Send, pc' # "sent"
  PROVE  IInv'
<1>1. /\ TypeOK /\ FileInv /\ RecordInv /\ pc = "send" /\ mem.outbox # <<>>
      /\ mem \in State /\ disk \in State /\ Bounded(disk.outbox)
      /\ disk.outbox = mem.outbox /\ mem \in Current /\ disk \in Current
      /\ \A s \in Current : s \in State /\ StateInv(s)
  BY DEF IInv, Send, TypeOK, AgentInv, Current
<1>2. PICK b \in Seq(Entry) : b = Batch /\ Sendable(b)
  BY <1>1, TheBatch
<1>3. /\ pc' = "failed" /\ UNCHANGED <<disk, recovering, issued, horizon, fileVars>>
      /\ heard' \in BOOLEAN
      /\ \/ UNCHANGED <<stored, recorded, late>>
         \/ Ingest(b) /\ UNCHANGED late
         \/ late' = late \cup {b} /\ UNCHANGED <<stored, recorded>>
  <2>1. heard \in BOOLEAN
    BY <1>1 DEF TypeOK
  <2> QED
    BY <1>2, <2>1 DEF Send, Lose
<1>4. mem' \in State /\ Alike(mem, mem') /\ Bounded(mem'.outbox) /\ faults' \in 0..MaxFaults
  <2>1. CASE Lose
    BY <1>1, <2>1, LoseStep
  <2>2. CASE mem' = [mem EXCEPT !.status = "error"] /\ UNCHANGED faults
    <3>1. mem' \in State /\ Alike(mem, mem') /\ Bounded(mem'.outbox)
      BY <1>1, <2>2, Flagged
    <3> QED
      BY <1>1, <2>2, <3>1 DEF TypeOK
  <2> QED
    BY <2>1, <2>2 DEF Send
<1>5. /\ stored' \in SUBSET Events /\ RecordInv' /\ recorded' \in [Lines -> Nat]
      /\ late' \in SUBSET Seq(Entry)
      /\ \A s \in Current : StateInv(s)' /\ Known(s)' = Known(s)
  <2>1. UNCHANGED <<fileVars, issued>> /\ issued' \in Nat /\ issued <= issued'
    BY <1>1, <1>3 DEF TypeOK
  <2>2. late \in SUBSET Seq(Entry) /\ stored \in SUBSET Events /\ recorded \in [Lines -> Nat]
    BY <1>1 DEF TypeOK, Entry
  <2>3. CASE UNCHANGED <<stored, recorded, late>>
    <3>1. \A s \in Current : StateInv(s)' /\ Known(s)' = Known(s)
      BY <1>1, <2>1, <2>3, Steady
    <3> QED
      BY <1>1, <2>2, <2>3, <3>1 DEF RecordInv
  <2>4. CASE Ingest(b) /\ UNCHANGED late
    BY <1>2, <2>1, <2>2, <2>4, Tabled
  <2>5. CASE late' = late \cup {b} /\ UNCHANGED <<stored, recorded>>
    <3>1. \A s \in Current : StateInv(s)' /\ Known(s)' = Known(s)
      <4> SUFFICES ASSUME NEW s \in Current PROVE StateInv(s)' /\ Known(s)' = Known(s)
        OBVIOUS
      <4>1. s \in State /\ StateInv(s)
        BY <1>1
      <4>2. ToSet(b) \subseteq Known(s) \cup {Beat} /\ Precedes(ToSet(b), s)
        BY <1>2 DEF Sendable
      <4>3. Known(s)' = Known(s) /\ Taken(s)' = Taken(s)
        BY <2>5 DEF Known, Taken
      <4>4. UNCHANGED <<log, inode, written, truncated, issued>>
        BY <1>3 DEF fileVars
      <4>5. OutboxInv(s)' /\ OffsetInv(s)'
        BY <4>1, <4>3, <4>4 DEF StateInv, OutboxInv, Reached, OffsetInv, OffsetHolds
      <4>6. OrderInv(s)'
        BY <2>5, <4>1, <4>2, <4>3 DEF StateInv, OrderInv, Precedes
      <4> QED
        BY <4>3, <4>5, <4>6 DEF StateInv
    <3> QED
      BY <1>1, <2>2, <2>5, <3>1 DEF RecordInv
  <2> QED
    BY <1>3, <2>3, <2>4, <2>5
<1>6. ASSUME NEW t \in Current' PROVE StateInv(t)'
  <2>1. PICK s \in Current : s \in State /\ t \in State /\ Alike(s, t)
    <3>1. t = disk \/ t = mem'
      BY <1>3, <1>6 DEF Current
    <3> QED
      BY <1>1, <1>4, <3>1 DEF Alike
  <2>2. StateInv(s)' /\ Ordered(t.outbox)
    BY <1>1, <1>5, <2>1 DEF StateInv, OutboxInv, Alike
  <2> QED
    BY <1>1, <1>5, <2>1, <2>2, Shorter DEF Alike
<1>7. UNCHANGED <<log, inode, written, truncated>>
  BY <1>3 DEF fileVars
<1>8. TypeOK'
  BY <1>1, <1>3, <1>4, <1>5, <1>7 DEF TypeOK, Entry
<1>9. FileInv'
  BY <1>1, <1>7 DEF FileInv
<1>10. AgentInv'
  <2>1. ToSet(disk.outbox) = ToSet(mem'.outbox)
    BY <1>1, <1>4 DEF Alike
  <2> QED
    BY <1>3, <2>1 DEF AgentInv, Known
<1> QED
  BY <1>5, <1>6, <1>8, <1>9, <1>10 DEF IInv

\* A collection that the outbox has room for.
LEMMA Gathered ==
  ASSUME IInv, Collect, Len(mem.outbox) < Limit
  PROVE  IInv'
<1>1. /\ TypeOK /\ FileInv /\ AgentInv /\ RecordInv /\ pc = "collect"
      /\ mem \in State /\ disk \in State /\ mem.outbox \in Seq(Entry)
      /\ mem \in Current /\ disk \in Current /\ StateInv(mem)
      /\ log \in Seq(Lines) /\ Len(log) \in Nat /\ inode \in Nat /\ issued \in Nat
  BY SMTT(30) DEF IInv, TypeOK, Collect, Current, State, Entry
<1>2. PICK p \in Nat : p = Position /\ p <= Len(log) /\ StartsAt(mem, p)
  <2>1. inode > 0 /\ mem.inode \in Nat /\ mem.pos \in Nat
    BY <1>1 DEF FileInv, State
  <2> QED
    BY <1>1, <2>1 DEF Position, StartsAt
<1> DEFINE room == Limit - Len(mem.outbox)
<1>3. Len(mem.outbox) \in Nat /\ room \in Nat
  BY <1>1, DeliveryAssumption
<1>4. PICK n \in Nat : n = Least(room, Len(log) - p) /\ n <= room /\ n <= Len(log) - p
  BY <1>1, <1>2, <1>3 DEF Least
<1>5. PICK new : new = [i \in 1..n |-> [line |-> log[p + i], id |-> issued + i]]
  OBVIOUS
<1>6. new \in Seq(Entry) /\ Len(new) = n /\ Gathers(new, p, n)
  <2>1. n \in 0..(Len(log) - p)
    BY <1>1, <1>2, <1>4
  <2>2. TypeOK /\ FileInv /\ p <= Len(log)
    BY <1>1, <1>2
  <2> QED
    BY <1>5, <2>1, <2>2, Fresh, Zenon
<1> DEFINE o == mem.outbox \o new
<1>7. /\ mem' = [mem EXCEPT !.inode = inode, !.pos = p + n, !.paused = Len(o) >= Limit,
                            !.outbox = WithHeartbeat(o)]
      /\ issued' = issued + n /\ pc' = "save" /\ heard' = FALSE
      /\ UNCHANGED <<fileVars, disk, recovering, serverVars, faults>>
  <2>1. ~(Len(mem.outbox) >= Limit)
    BY <1>3, DeliveryAssumption
  <2> QED
    BY <1>2, <1>4, <1>5, <2>1 DEF Collect, Queued
<1>8. /\ o \in Seq(Entry) /\ Len(o) <= Limit /\ ToSet(o) = ToSet(mem.outbox) \cup ToSet(new)
      /\ \A i \in 1..Len(mem.outbox) : o[i] = mem.outbox[i]
      /\ \A i \in 1..n : o[Len(mem.outbox) + i] = new[i]
      /\ DOMAIN o = 1..(Len(mem.outbox) + n)
  <2>1. /\ o \in Seq(Entry) /\ Len(o) = Len(mem.outbox) + n
        /\ ToSet(o) = ToSet(mem.outbox) \cup ToSet(new)
        /\ \A i \in 1..Len(mem.outbox) : o[i] = mem.outbox[i]
        /\ \A i \in 1..n : o[Len(mem.outbox) + i] = new[i]
    BY <1>1, <1>6, Joined
  <2> HIDE DEF o
  <2>2. Len(o) <= Limit
    BY <1>3, <1>4, <2>1, DeliveryAssumption
  <2> QED
    BY <2>1, <2>2
<1> HIDE DEF o
<1>9. Ordered(o)
  <2>1. Ordered(mem.outbox) /\ \A e \in Known(mem) : e.id <= issued /\ e.id \in Nat
    <3>1. Known(mem) \subseteq Events
      BY <1>1, TakenOf DEF Known, TypeOK
    <3> QED
      BY <1>1, <3>1 DEF StateInv, OutboxInv, Events
  <2>2. \A i \in 1..n : new[i].id = issued + i
    BY <1>6 DEF Gathers
  <2> SUFFICES ASSUME NEW i \in DOMAIN o, NEW j \in DOMAIN o, i < j,
                      o[i] # Beat, o[j] # Beat
               PROVE  o[i].id < o[j].id
    BY DEF Ordered
  <2>3. i \in 1..(Len(mem.outbox) + n) /\ j \in 1..(Len(mem.outbox) + n)
        /\ DOMAIN mem.outbox = 1..Len(mem.outbox)
    BY <1>1, <1>8
  <2>4. CASE j <= Len(mem.outbox)
    <3>1. i \in DOMAIN mem.outbox /\ j \in DOMAIN mem.outbox
      BY <1>3, <2>3, <2>4
    <3>2. o[i] = mem.outbox[i] /\ o[j] = mem.outbox[j]
      BY <1>8, <2>3, <3>1
    <3> QED
      BY <2>1, <3>1, <3>2 DEF Ordered
  <2>5. CASE i <= Len(mem.outbox) /\ j > Len(mem.outbox)
    <3>1. i \in DOMAIN mem.outbox /\ o[i] = mem.outbox[i]
      BY <1>3, <1>8, <2>3, <2>5
    <3>2. o[i] \in Known(mem)
      BY <3>1 DEF Known, ToSet
    <3>3. j - Len(mem.outbox) \in 1..n /\ Len(mem.outbox) + (j - Len(mem.outbox)) = j
      BY <1>3, <2>3, <2>5, SMTT(30)
    <3>4. o[j].id = issued + (j - Len(mem.outbox))
      BY <1>8, <2>2, <3>3
    <3> QED
      BY <1>1, <2>1, <3>2, <3>3, <3>4
  <2>6. CASE i > Len(mem.outbox)
    <3>1. /\ i - Len(mem.outbox) \in 1..n /\ Len(mem.outbox) + (i - Len(mem.outbox)) = i
          /\ j - Len(mem.outbox) \in 1..n /\ Len(mem.outbox) + (j - Len(mem.outbox)) = j
          /\ i - Len(mem.outbox) < j - Len(mem.outbox)
      <4>1. i \in Nat /\ j \in Nat /\ i < j /\ j <= Len(mem.outbox) + n
        BY <1>3, <2>3
      <4>2. PICK a \in Nat : a = Len(mem.outbox) /\ i > a
        BY <1>3, <2>6
      <4>3. /\ i - a \in 1..n /\ a + (i - a) = i /\ j - a \in 1..n /\ a + (j - a) = j
            /\ i - a < j - a
        BY <4>1, <4>2
      <4> QED
        BY <4>2, <4>3
    <3>2. /\ o[i].id = issued + (i - Len(mem.outbox))
          /\ o[j].id = issued + (j - Len(mem.outbox))
      BY <1>8, <2>2, <3>1, ZenonT(40)
    <3> QED
      BY <1>1, <3>1, <3>2
  <2> QED
    BY <1>3, <2>3, <2>4, <2>5, <2>6
<1> DEFINE w == WithHeartbeat(o)
<1>10. w \in Seq(Entry) /\ Bounded(w) /\ ToSet(w) \ {Beat} = ToSet(o) \ {Beat} /\ Ordered(w)
  BY <1>8, <1>9, Beating
<1> HIDE DEF w
<1>11. /\ mem' \in State /\ mem'.inode = inode /\ mem'.pos = p + n /\ mem'.outbox = w
  <2>1. p + n \in Nat /\ (Len(o) >= Limit) \in BOOLEAN
    OBVIOUS
  <2> QED
    BY <1>1, <1>7, <1>10, <2>1 DEF State, Entry, w
<1>12. UNCHANGED <<log, inode, written, truncated, stored, recorded, late, horizon>>
  BY <1>7 DEF fileVars, serverVars
<1>13. ASSUME NEW t \in State, t = mem'
       PROVE  StateInv(t)' /\ Known(mem) \subseteq Known(t)'
  <2>1. PICK s \in State : s = mem
    BY <1>1
  <2>2. Takes(s, t, new, p, n)
    BY <1>8, <1>10, <1>11, <1>13, <2>1 DEF Takes
  <2>3. /\ StateInv(s) /\ StartsAt(s, p) /\ p + n <= Len(log)
        /\ UNCHANGED <<fileVars, stored, late>> /\ issued' = issued + n
    BY <1>1, <1>2, <1>4, <1>7, <1>12, <2>1
  <2>4. StateInv(t)' /\ Known(s) \subseteq Known(t)'
    BY <1>1, <1>6, <2>2, <2>3, Collected
  <2>5. Known(s) = Known(mem)
    BY <2>1
  <2> QED
    BY <2>4, <2>5
<1>14. ASSUME NEW t \in Current' PROVE StateInv(t)'
  <2>1. t = disk \/ t = mem'
    BY <1>7 DEF Current
  <2>2. CASE t = disk
    <3>1. StateInv(t) /\ t \in State
      BY <1>1, <2>2 DEF IInv
    <3>2. issued' \in Nat /\ issued <= issued'
      BY <1>1, <1>7
    <3> QED
      BY <1>1, <1>7, <1>12, <3>1, <3>2, Steady
  <2> QED
    BY <1>11, <1>13, <2>1, <2>2
<1>15. TypeOK'
  <2>1. issued' \in Nat
    BY <1>1, <1>7
  <2> QED
    BY <1>1, <1>7, <1>10, <1>11, <1>12, <2>1 DEF TypeOK
<1>16. FileInv' /\ RecordInv'
  BY <1>1, <1>12 DEF FileInv, RecordInv
<1>17. AgentInv'
  <2>1. Known(mem) \subseteq Known(mem)'
    <3>1. Known(mem) \subseteq (ToSet(mem'.outbox) \cup stored') \ {Beat}
      BY <1>11, <1>13 DEF Known
    <3> QED
      BY <3>1 DEF Known
  <2>2. ToSet(disk.outbox) \subseteq Known(mem) \cup {Beat}
    BY <1>1 DEF AgentInv
  <2> QED
    BY <1>7, <2>1, <2>2 DEF AgentInv
<1> QED
  BY <1>14, <1>15, <1>16, <1>17 DEF IInv

LEMMA CollectStep ==
  ASSUME IInv, Collect
  PROVE  IInv'
<1>1. TypeOK /\ AgentInv /\ mem.outbox \in Seq(Entry)
  BY DEF IInv, TypeOK, State, Entry
<1>2. CASE Len(mem.outbox) < Limit
  BY <1>2, Gathered
<1>3. CASE ~(Len(mem.outbox) < Limit)
  <2>1. Len(mem.outbox) >= Limit
    BY <1>1, <1>3, DeliveryAssumption
  <2>2. /\ mem' = [mem EXCEPT !.paused = TRUE] /\ UNCHANGED issued
        /\ pc = "collect" /\ pc' = "save" /\ heard' = FALSE
        /\ UNCHANGED <<fileVars, disk, recovering, serverVars, faults>>
    BY <2>1 DEF Collect
  <2>3. mem' \in State /\ Alike(mem, mem') /\ Bounded(mem'.outbox)
    BY <1>1, <2>2, Flagged
  <2>4. AgentInv'
    BY <1>1, <2>2, <2>3 DEF AgentInv, Known, serverVars, Alike
  <2>5. Passes
    BY <1>1, <2>2, <2>3 DEF Passes, serverVars, TypeOK
  <2> QED
    BY <2>4, <2>5, Quiet
<1> QED
  BY <1>2, <1>3

\* The agent's offset and outbox agree with the log and the events table, whatever is
\* lost, late, rotated or killed: the inductive invariant.
THEOREM DeliveryInductive == Spec => []IInv
<1>1. IInv /\ [Next]_vars => IInv'
  BY FileStep, QuietStep, LateStep, Acknowledged, Unanswered, CollectStep DEF Next, AgentStep
<1> QED
  BY <1>1, InitInv, PTL DEF Spec

-----------------------------------------------------------------------------
(* What follows.                                                           *)

\* Everything is well formed: the outbox stays in its capacity, and only heartbeats
\* are beyond the limit of collection.
THEOREM DeliveryTypeOK == Spec => []TypeOK
<1>1. IInv => TypeOK
  BY DEF IInv
<1> QED
  BY <1>1, DeliveryInductive, PTL

\* OffsetsMeanCollected: no line before the durable offset is passed over, as long as
\* no log is truncated in place.
THEOREM DeliveryOffsets == Spec => []OffsetsMeanCollected
<1>1. IInv => OffsetsMeanCollected
  BY DEF IInv, Current, StateInv, OffsetInv, OffsetsMeanCollected
<1> QED
  BY <1>1, DeliveryInductive, PTL

\* StoredInOrder: what is unsent is younger than everything stored.
THEOREM DeliveryOrder == Spec => []StoredInOrder
<1>1. IInv => StoredInOrder
  <2> SUFFICES ASSUME IInv, NEW e \in stored, NEW f \in ToSet(disk.outbox),
                      f # Beat, f \notin stored
               PROVE  e.id < f.id
    BY DEF StoredInOrder
  <2>1. /\ disk \in State /\ stored \in SUBSET Events /\ StateInv(disk)
        /\ Known(disk) \subseteq Events
    BY TakenOf DEF IInv, TypeOK, Current, Known
  <2>2. e \in Events /\ f \in Events /\ e # Beat
    BY <2>1, BeatIsNoEvent DEF Known
  <2>3. ~(f.id <= e.id)
    BY <2>1, <2>2 DEF StateInv, OrderInv, Precedes
  <2> QED
    BY <2>2, <2>3 DEF Events
<1> QED
  BY <1>1, DeliveryInductive, PTL

\* A row is for good, and only of what was in the outbox on disk.
LEMMA StoredGrows ==
  ASSUME IInv, [Next]_vars
  PROVE  stored \subseteq stored' /\ stored' \subseteq Known(disk)
<1>1. /\ TypeOK /\ disk \in Current /\ stored \subseteq Known(disk)
      /\ late \subseteq Seq(Entry) /\ \A s \in Current : StateInv(s)
  BY BeatIsNoEvent DEF IInv, Current, TypeOK, Known, Entry
<1>2. ASSUME NEW b \in Seq(Entry), Sendable(b), Ingest(b)
      PROVE  stored \subseteq stored' /\ stored' \subseteq Known(disk)
  <2>1. stored' = stored \cup (ToSet(b) \ {Beat})
    BY <1>2 DEF Ingest, New
  <2> QED
    BY <1>1, <1>2, <2>1 DEF Sendable
<1>3. CASE UNCHANGED stored
  BY <1>1, <1>3
<1>4. CASE LateIngest
  <2>1. PICK b \in late : Ingest(b) \/ UNCHANGED stored
    BY <1>4 DEF LateIngest
  <2>2. b \in Seq(Entry) /\ Sendable(b)
    BY <1>1, <2>1 DEF Sendable, StateInv, OrderInv
  <2> QED
    BY <1>2, <1>3, <2>1, <2>2
<1>5. CASE Send
  <2>1. PICK b \in Seq(Entry) : b = Batch /\ Sendable(b)
    BY <1>5, TheBatch DEF Send
  <2>2. Ingest(b) \/ UNCHANGED stored
    BY <1>5, <2>1 DEF Send
  <2> QED
    BY <1>2, <1>3, <2>1, <2>2
<1>6. CASE ~LateIngest /\ ~Send
  <2>1. UNCHANGED stored
    BY <1>6 DEF Next, AgentStep, Load, Collect, Save, SendHealth, SaveSent, Drained,
                SendRecovered, Finish, Crash, WriteLine, Rotate, Truncate, Outlive, vars,
                serverVars
  <2> QED
    BY <1>3, <2>1
<1> QED
  BY <1>4, <1>5, <1>6

\* The state file keeps its evidence until it is stored.
LEMMA DiskKeeps ==
  ASSUME IInv, [Next]_vars
  PROVE  ToSet(disk.outbox) \subseteq ToSet(disk'.outbox) \cup stored' \cup {Beat}
<1>1. /\ TypeOK /\ stored \subseteq stored'
      /\ pc # "asleep" => ToSet(disk.outbox) \subseteq Known(mem) \cup {Beat}
  BY StoredGrows DEF IInv, AgentInv
<1>2. \/ disk' = disk
      \/ pc # "asleep" /\ disk' = mem
      \/ pc # "asleep" /\ disk' = mem' /\ mem'.outbox = mem.outbox
  <2>1. CASE Drained
    <3>1. \/ UNCHANGED disk
          \/ mem' = [mem EXCEPT !.paused = FALSE] /\ disk' = mem'
      BY <2>1 DEF Drained
    <3>2. mem' = [mem EXCEPT !.paused = FALSE] => Alike(mem, mem')
      BY <1>1, Flagged
    <3> QED
      BY <2>1, <3>1, <3>2 DEF Drained, Alike
  <2>2. CASE Save \/ SaveSent \/ Finish
    BY <2>2 DEF Save, SaveSent, Finish
  <2>3. CASE ~Drained /\ ~Save /\ ~SaveSent /\ ~Finish
    BY <2>3 DEF Next, AgentStep, Load, Collect, SendHealth, Send, SendRecovered, Crash,
                WriteLine, Rotate, Truncate, LateIngest, Outlive, vars, agentVars
  <2> QED
    BY <2>1, <2>2, <2>3
<1> QED
  BY <1>1, <1>2 DEF Known

\* UnacknowledgedIsRetained: evidence leaves the state file only once it is stored.
THEOREM DeliveryRetains == Spec => UnacknowledgedIsRetained
<1> DEFINE Retained == \A e \in ToSet(disk.outbox) :
                         e \in ToSet(disk'.outbox) \/ e \in stored' \/ e = Beat
<1>1. IInv /\ [Next]_vars => [Retained]_vars
  BY DiskKeeps
<1> QED
  BY <1>1, DeliveryInductive, PTL DEF Spec, UnacknowledgedIsRetained

\* ImplementsChannel: the protocol with its files, batches and faults is the abstract
\* channel, which records each line it has taken once and gives none up.
THEOREM DeliveryImplementsChannel == Spec => ImplementsChannel
<1>1. Init => Channel!Init
  BY DEF Init, Channel!Init, Taken, LinesOf, ToSet
<1>2. ASSUME IInv, IInv', [Next]_vars
      PROVE  Channel!Next
  <2>1. /\ disk \in State /\ stored \in SUBSET Events /\ recorded' \in [Lines -> Nat]
        /\ disk' \in State /\ stored' \in SUBSET Events
    BY <1>2 DEF IInv, TypeOK
  <2>2. /\ Taken(disk) = {e.line : e \in Known(disk)}
        /\ Taken(disk)' = {e.line : e \in Known(disk)'}
        /\ Known(disk)' \subseteq Events
    BY <2>1, TakenOf DEF Taken, Known
  <2>3. stored \subseteq stored' /\ stored' \subseteq Known(disk)
    BY <1>2, StoredGrows
  <2>4. Known(disk) \subseteq Known(disk)'
    BY <1>2, <2>3, DiskKeeps DEF Known
  <2>5. Taken(disk) \subseteq Taken(disk)' /\ Taken(disk)' \subseteq Lines
    BY <2>2, <2>4 DEF Events
  <2>6. ASSUME NEW l \in Lines PROVE recorded'[l] = recorded[l] \/ Channel!Record(l)
    <3>1. /\ recorded[l] = IF l \in LinesOf(stored) THEN 1 ELSE 0
          /\ recorded'[l] = IF l \in LinesOf(stored') THEN 1 ELSE 0
      BY <1>2 DEF IInv, RecordInv
    <3>2. l \in LinesOf(stored) => l \in LinesOf(stored')
      BY <2>3 DEF LinesOf
    <3>3. l \in LinesOf(stored') => l \in Taken(disk)
      BY <2>2, <2>3 DEF LinesOf
    <3> QED
      BY <3>1, <3>2, <3>3 DEF Channel!Record
  <2> QED
    BY <2>1, <2>5, <2>6 DEF Channel!Next
<1>4. IInv /\ IInv' /\ [Next]_vars => [Channel!Next]_<<Taken(disk), recorded>>
  BY <1>2
<1> QED
  BY <1>1, <1>4, DeliveryInductive, PTL DEF Spec, ImplementsChannel, Channel!Spec
=============================================================================
