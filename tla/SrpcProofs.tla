----------------------------- MODULE SrpcProofs -----------------------------
(***************************************************************************)
(* Proofs about Srpc, for any number of callers, any sizes of the queues   *)
(* and buffers and any traffic of the peer.                                *)
(***************************************************************************)
EXTENDS Srpc, SequenceTheorems, FiniteSetTheorems, TLAPS

----------------------------------------------------------------------------
(* Sequences *)

LEMMA FirstProps ==
  ASSUME NEW S, NEW s \in Seq(S), NEW n \in 0..Len(s)
  PROVE  /\ First(s, n) \in Seq(S) /\ Len(First(s, n)) = n
         /\ \A i \in 1..n : First(s, n)[i] = s[i]
BY DEF First

LEMMA RestProps ==
  ASSUME NEW S, NEW s \in Seq(S), NEW n \in 0..Len(s)
  PROVE  /\ Rest(s, n) \in Seq(S) /\ Len(Rest(s, n)) = Len(s) - n
         /\ \A i \in 1..(Len(s) - n) : Rest(s, n)[i] = s[n + i]
BY DEF Rest

LEMMA LeastProps ==
  ASSUME NEW a \in Nat, NEW b \in Nat
  PROVE  Least(a, b) \in Nat /\ Least(a, b) <= a /\ Least(a, b) <= b
BY DEF Least

LEMMA RrIdType ==
  ASSUME NEW n \in 0..(RrIds - 1)
  PROVE  NextRrId(n) \in 0..(RrIds - 1) /\ NextRrId(n) # 0
<1>1. (n + 1) % RrIds \in 0..(RrIds - 1)
  BY SrpcAssumption
<1> QED
  BY <1>1, SrpcAssumption DEF NextRrId

LEMMA UnitsProps ==
  ASSUME NEW p \in Packet
  PROVE  /\ Units(p) \in Seq(Unit) /\ Len(Units(p)) = 2
         /\ Units(p)[1] = [packet |-> p, part |-> "head"]
         /\ Units(p)[2] = [packet |-> p, part |-> "tail"]
BY DEF Units, Unit

\* The n-th packet occupies the units 2n - 1 and 2n of its wire.
LEMMA WireProps ==
  ASSUME NEW s \in Seq(Packet)
  PROVE  /\ Wire(s) \in Seq(Unit) /\ Len(Wire(s)) = 2 * Len(s)
         /\ \A k \in 1..Len(s) : /\ Wire(s)[2 * k - 1] = Units(s[k])[1]
                                 /\ Wire(s)[2 * k] = Units(s[k])[2]
<1> DEFINE n == 2 * Len(s)
<1>1. n \in Nat /\ Len(s) \in Nat
  OBVIOUS
<1>2. ASSUME NEW i \in 1..n PROVE (i + 1) \div 2 \in 1..Len(s) /\ 2 - (i % 2) \in 1..2
  <2>1. i \in Nat /\ i >= 1 /\ i <= n
    BY <1>1
  <2>2. (i + 1) \div 2 \in Int /\ (i + 1) \div 2 >= 1 /\ (i + 1) \div 2 <= Len(s)
    BY <1>1, <2>1
  <2>3. i % 2 \in 0..1
    BY <2>1
  <2> QED
    BY <1>1, <2>2, <2>3
<1>3. \A i \in 1..n : Units(s[(i + 1) \div 2])[2 - (i % 2)] \in Unit
  <2>1. ASSUME NEW k \in 1..Len(s), NEW j \in 1..2 PROVE Units(s[k])[j] \in Unit
    <3>1. s[k] \in Packet /\ (j = 1 \/ j = 2)
      OBVIOUS
    <3> QED
      BY <3>1 DEF Units, Unit
  <2> QED
    BY <1>2, <2>1
<1>4. Wire(s) \in [1..n -> Unit]
  BY <1>3 DEF Wire
<1>5. Wire(s) \in Seq(Unit)
  BY <1>1, <1>4, SeqDef
<1>6. Len(Wire(s)) = n
  BY <1>1, <1>4, <1>5, LenProperties
<1>7. ASSUME NEW k \in 1..Len(s)
      PROVE  Wire(s)[2 * k - 1] = Units(s[k])[1] /\ Wire(s)[2 * k] = Units(s[k])[2]
  <2>1. 2 * k - 1 \in 1..n /\ 2 * k \in 1..n
    BY <1>1
  <2>2. ((2 * k - 1) + 1) \div 2 = k /\ 2 - ((2 * k - 1) % 2) = 1
    BY <1>1
  <2>3. (2 * k + 1) \div 2 = k /\ 2 - ((2 * k) % 2) = 2
    BY <1>1
  <2> QED
    BY <2>1, <2>2, <2>3 DEF Wire
<1> QED
  BY <1>5, <1>6, <1>7

\* What is sent as the frames of s, one after the other, is the wire of s.
LEMMA WireEqual ==
  ASSUME NEW s \in Seq(Packet), NEW w \in Seq(Unit), Len(w) = 2 * Len(s),
         \A k \in 1..Len(s) : w[2 * k - 1] = Units(s[k])[1] /\ w[2 * k] = Units(s[k])[2]
  PROVE  w = Wire(s)
<1>1. Len(s) \in Nat /\ Len(w) \in Nat
  OBVIOUS
<1>2. /\ Wire(s) \in Seq(Unit) /\ Len(Wire(s)) = Len(w)
      /\ \A k \in 1..Len(s) : /\ Wire(s)[2 * k - 1] = Units(s[k])[1]
                              /\ Wire(s)[2 * k] = Units(s[k])[2]
  BY WireProps
<1>3. ASSUME NEW i \in 1..Len(w) PROVE w[i] = Wire(s)[i]
  <2>1. (i + 1) \div 2 \in Int /\ (i + 1) \div 2 >= 1 /\ (i + 1) \div 2 <= Len(s)
    BY <1>1
  <2>2. i = 2 * ((i + 1) \div 2) - 1 \/ i = 2 * ((i + 1) \div 2)
    BY <1>1
  <2>3. PICK k \in 1..Len(s) : i = 2 * k - 1 \/ i = 2 * k
    BY <1>1, <2>1, <2>2
  <2>4. CASE i = 2 * k - 1
    BY <1>2, <2>4
  <2>5. CASE i = 2 * k
    BY <1>2, <2>5
  <2> QED
    BY <2>3, <2>4, <2>5
<1> QED
  BY <1>2, <1>3, SeqEqual

LEMMA ConcatProps ==
  ASSUME NEW S, NEW a \in Seq(S), NEW b \in Seq(S)
  PROVE  /\ a \o b \in Seq(S) /\ Len(a \o b) = Len(a) + Len(b)
         /\ \A i \in 1..Len(a) : (a \o b)[i] = a[i]
         /\ \A i \in 1..Len(b) : (a \o b)[Len(a) + i] = b[i]
OBVIOUS

\* A packet that is appended is sent last.
LEMMA WireAppend ==
  ASSUME NEW s \in Seq(Packet), NEW p \in Packet
  PROVE  Wire(Append(s, p)) = Wire(s) \o Units(p)
<1> DEFINE r == Append(s, p)
           n == Len(s)
           w == Wire(s) \o Units(p)
<1>1. n \in Nat
  OBVIOUS
<1>2. r \in Seq(Packet) /\ Len(r) = n + 1 /\ r[n + 1] = p /\ \A k \in 1..n : r[k] = s[k]
  OBVIOUS
<1>3. /\ Wire(s) \in Seq(Unit) /\ Len(Wire(s)) = 2 * n
      /\ \A k \in 1..n : /\ Wire(s)[2 * k - 1] = Units(s[k])[1]
                         /\ Wire(s)[2 * k] = Units(s[k])[2]
  BY WireProps
<1>4. Units(p) \in Seq(Unit) /\ Len(Units(p)) = 2
  BY UnitsProps
<1>5. /\ w \in Seq(Unit) /\ Len(w) = Len(Wire(s)) + Len(Units(p))
      /\ \A i \in 1..Len(Wire(s)) : w[i] = Wire(s)[i]
      /\ \A i \in 1..Len(Units(p)) : w[Len(Wire(s)) + i] = Units(p)[i]
  <2> DEFINE a == Wire(s)
             b == Units(p)
  <2>1. a \in Seq(Unit) /\ b \in Seq(Unit)
    BY <1>3, <1>4
  <2> HIDE DEF a, b
  <2>2. /\ a \o b \in Seq(Unit) /\ Len(a \o b) = Len(a) + Len(b)
        /\ \A i \in 1..Len(a) : (a \o b)[i] = a[i]
        /\ \A i \in 1..Len(b) : (a \o b)[Len(a) + i] = b[i]
    BY <2>1, ConcatProps
  <2> QED
    BY <2>2 DEF a, b
<1> HIDE DEF r, n, w
<1>6. Len(w) = 2 * Len(r)
  BY <1>1, <1>2, <1>3, <1>4, <1>5
<1>7. ASSUME NEW k \in 1..Len(r)
      PROVE  w[2 * k - 1] = Units(r[k])[1] /\ w[2 * k] = Units(r[k])[2]
  <2>1. CASE k = n + 1
    <3>1. 2 * k - 1 = 2 * n + 1 /\ 2 * k = 2 * n + 2 /\ 1 \in 1..2 /\ 2 \in 1..2
      BY <1>1, <2>1
    <3>2. w[2 * n + 1] = Units(p)[1] /\ w[2 * n + 2] = Units(p)[2]
      BY <1>3, <1>4, <1>5, <3>1
    <3> QED
      BY <1>2, <2>1, <3>1, <3>2
  <2>2. CASE k # n + 1
    <3>1. k \in 1..n /\ 2 * k - 1 \in 1..(2 * n) /\ 2 * k \in 1..(2 * n)
      BY <1>1, <1>2, <2>2
    <3>2. w[2 * k - 1] = Wire(s)[2 * k - 1] /\ w[2 * k] = Wire(s)[2 * k]
      BY <1>3, <1>5, <3>1
    <3> QED
      BY <1>2, <1>3, <3>1, <3>2
  <2> QED
    BY <2>1, <2>2
<1>8. w = Wire(r)
  BY <1>2, <1>5, <1>6, <1>7, WireEqual
<1> QED
  BY <1>8 DEF w, r

\* The first packet is sent first.
LEMMA WireFirst ==
  ASSUME NEW r \in Seq(Packet), NEW s \in Seq(Packet), Len(r) = Len(s) + 1,
         \A k \in 1..Len(s) : s[k] = r[k + 1]
  PROVE  Wire(r) = Units(r[1]) \o Wire(s)
<1> DEFINE n == Len(s)
           u == Units(r[1])
           w == u \o Wire(s)
<1>1. n \in Nat /\ r[1] \in Packet
  OBVIOUS
<1>2. Len(r) = n + 1 /\ \A k \in 1..n : s[k] = r[k + 1]
  OBVIOUS
<1>3. /\ Wire(s) \in Seq(Unit) /\ Len(Wire(s)) = 2 * n
      /\ \A k \in 1..n : /\ Wire(s)[2 * k - 1] = Units(s[k])[1]
                         /\ Wire(s)[2 * k] = Units(s[k])[2]
  BY WireProps
<1>4. u \in Seq(Unit) /\ Len(u) = 2
  BY <1>1, UnitsProps
<1>5. /\ w \in Seq(Unit) /\ Len(w) = Len(u) + Len(Wire(s))
      /\ \A i \in 1..Len(u) : w[i] = u[i]
      /\ \A i \in 1..Len(Wire(s)) : w[Len(u) + i] = Wire(s)[i]
  <2> DEFINE b == Wire(s)
  <2>1. u \in Seq(Unit) /\ b \in Seq(Unit)
    BY <1>3, <1>4
  <2> HIDE DEF u, b
  <2>2. /\ u \o b \in Seq(Unit) /\ Len(u \o b) = Len(u) + Len(b)
        /\ \A i \in 1..Len(u) : (u \o b)[i] = u[i]
        /\ \A i \in 1..Len(b) : (u \o b)[Len(u) + i] = b[i]
    BY <2>1, ConcatProps
  <2> QED
    BY <2>2 DEF b
<1> HIDE DEF n, w, u
<1>6. Len(w) = 2 * Len(r)
  <2>1. Len(w) = 2 + 2 * n /\ Len(r) = n + 1
    BY <1>2, <1>3, <1>4, <1>5
  <2> QED
    BY <1>1, <2>1
<1>7. ASSUME NEW k \in 1..Len(r)
      PROVE  w[2 * k - 1] = Units(r[k])[1] /\ w[2 * k] = Units(r[k])[2]
  <2>1. CASE k = 1
    <3>1. 2 * k - 1 = 1 /\ 2 * k = 2 /\ 1 \in 1..2 /\ 2 \in 1..2
      BY <2>1
    <3>2. w[1] = u[1] /\ w[2] = u[2]
      BY <1>4, <1>5, <3>1
    <3> QED
      BY <2>1, <3>1, <3>2 DEF u
  <2>2. CASE k # 1
    <3>1. PICK j \in 1..n : k = j + 1
      BY <1>1, <1>2, <2>2
    <3>2. /\ 2 * k - 1 = 2 + (2 * j - 1) /\ 2 * k = 2 + 2 * j
          /\ 2 * j - 1 \in 1..(2 * n) /\ 2 * j \in 1..(2 * n)
      BY <1>1, <3>1
    <3>3. w[2 * k - 1] = Wire(s)[2 * j - 1] /\ w[2 * k] = Wire(s)[2 * j]
      BY <1>3, <1>4, <1>5, <3>2
    <3> QED
      BY <1>2, <1>3, <3>1, <3>3
  <2> QED
    BY <2>1, <2>2
<1>8. w = Wire(r)
  BY <1>5, <1>6, <1>7, WireEqual
<1> QED
  BY <1>8 DEF w, u

----------------------------------------------------------------------------
(* Tsrpc_Queue *)

LEMMA SlotsFinite ==
  ASSUME NEW q
  PROVE  IsFiniteSet(Allocated(q)) /\ Cardinality(Allocated(q)) \in Nat
<1>1. IsFiniteSet(Slots)
  BY QueueAssumption, FS_Interval DEF Slots
<1>2. Allocated(q) \in SUBSET Slots
  BY DEF Allocated
<1>3. IsFiniteSet(Allocated(q))
  BY <1>1, <1>2, FS_Subset
<1> QED
  BY <1>3, FS_CardinalityType

LEMMA EmptySound == EmptyQueue \in Queue /\ QueueSound(EmptyQueue)
<1>1. EmptyQueue \in Queue
  BY QueueAssumption DEF EmptyQueue, Queue
<1>2. Allocated(EmptyQueue) = {}
  BY DEF Allocated, EmptyQueue
<1>3. Cardinality(Allocated(EmptyQueue)) = 0
  BY <1>2, FS_EmptySet
<1>4. \A i \in Slots : ~(i < EmptyQueue.item_count)
  BY QueueAssumption DEF Slots, EmptyQueue
<1> QED
  BY <1>1, <1>3, <1>4, QueueAssumption DEF QueueSound, EmptyQueue

\* The packets of a sound queue.
LEMMA ItemsType ==
  ASSUME NEW q \in Queue, QueueSound(q)
  PROVE  /\ Items(q) \in Seq(Packet) /\ Len(Items(q)) = q.item_count
         /\ \A i \in 1..q.item_count : Items(q)[i] = q.item[i - 1] /\ q.item[i - 1] \in Packet
<1> DEFINE n == q.item_count
<1>1. n \in Nat /\ n <= QueueSize
  BY QueueAssumption DEF Queue
<1>2. \A i \in 1..n : i - 1 \in Slots /\ i - 1 < n
  BY <1>1, QueueAssumption DEF Slots
<1>3. \A i \in 1..n : q.item[i - 1] \in Packet
  BY <1>2 DEF Queue, QueueSound
<1>4. Items(q) \in [1..n -> Packet]
  BY <1>3 DEF Items
<1>5. Items(q) \in Seq(Packet)
  BY <1>1, <1>4, SeqDef
<1>6. Len(Items(q)) = n
  BY <1>1, <1>4, <1>5, LenProperties
<1> QED
  BY <1>3, <1>5, <1>6 DEF Items

\* srpc_queue_push adds its packet at the end; alloc_count, which also counts
\* a slot that had memory already, does not pass its unsigned char.
LEMMA PushProps ==
  ASSUME NEW q \in Queue, QueueSound(q), CanPush(q), NEW p \in Packet
  PROVE  /\ Push(q, p) \in Queue /\ QueueSound(Push(q, p))
         /\ Items(Push(q, p)) = Append(Items(q), p)
<1> DEFINE r == Push(q, p)
           n == q.item_count
<1>1. n \in Nat /\ n < QueueSize /\ n \in Slots
  BY QueueAssumption DEF Queue, CanPush, Slots
<1>2. q.alloc_count \in Nat /\ q.alloc_count + 1 <= n + 1 + MinAllocCount
      /\ q.alloc_count + 1 < 256
  BY <1>1, QueueAssumption DEF Queue, QueueSound
<1>3. (q.alloc_count + 1) % 256 = q.alloc_count + 1
  BY <1>2
<1>4. /\ r.item = [q.item EXCEPT ![n] = p] /\ r.item_count = n + 1
      /\ r.alloc_count = q.alloc_count + 1
      /\ r = [item |-> [q.item EXCEPT ![n] = p], item_count |-> n + 1,
              alloc_count |-> q.alloc_count + 1]
  BY <1>3 DEF Push
<1>5. q.item \in [Slots -> Packet \union {NULL}]
  BY DEF Queue
<1>6. r \in Queue
  BY <1>1, <1>2, <1>4, <1>5, QueueAssumption DEF Queue
<1>7. Allocated(r) = Allocated(q) \union {n}
  BY <1>1, <1>4, <1>5, NullAssumption DEF Allocated
<1>8. Cardinality(Allocated(r)) <= Cardinality(Allocated(q)) + 1
  <2>1. IsFiniteSet(Allocated(q)) /\ Cardinality(Allocated(q)) \in Nat
    BY SlotsFinite
  <2>2. Cardinality(Allocated(q) \union {n}) =
          IF n \in Allocated(q) THEN Cardinality(Allocated(q)) ELSE Cardinality(Allocated(q)) + 1
    BY <2>1, FS_AddElement
  <2> QED
    BY <1>7, <2>1, <2>2
<1>9. \A i \in Slots : i < r.item_count => r.item[i] # NULL
  <2>1. \A i \in Slots : i < n + 1 => i = n \/ i < n
    BY <1>1, QueueAssumption DEF Slots
  <2> QED
    BY <1>1, <1>4, <1>5, <2>1, NullAssumption DEF QueueSound
<1>10. QueueSound(r)
  <2>1. Cardinality(Allocated(q)) <= q.alloc_count /\ Cardinality(Allocated(q)) \in Nat
        /\ Cardinality(Allocated(r)) \in Nat
    BY SlotsFinite DEF QueueSound
  <2> QED
    BY <1>2, <1>4, <1>8, <1>9, <2>1 DEF QueueSound
<1>11. /\ Items(r) \in Seq(Packet) /\ Len(Items(r)) = n + 1
       /\ \A i \in 1..(n + 1) : Items(r)[i] = r.item[i - 1]
  BY <1>4, <1>6, <1>10, ItemsType
<1>12. /\ Items(q) \in Seq(Packet) /\ Len(Items(q)) = n
       /\ \A i \in 1..n : Items(q)[i] = q.item[i - 1]
  BY ItemsType
<1>13. /\ Append(Items(q), p) \in Seq(Packet) /\ Len(Append(Items(q), p)) = n + 1
       /\ \A i \in 1..n : Append(Items(q), p)[i] = q.item[i - 1]
       /\ Append(Items(q), p)[n + 1] = p
  BY <1>12, AppendProperties
<1> HIDE DEF r, n
<1>14. ASSUME NEW i \in 1..(n + 1) PROVE Items(r)[i] = Append(Items(q), p)[i]
  <2>1. CASE i = n + 1
    <3>1. i - 1 = n /\ r.item[n] = p
      BY <1>1, <1>4, <1>5, <2>1
    <3>2. Items(r)[i] = r.item[i - 1]
      BY <1>11
    <3> QED
      BY <1>13, <2>1, <3>1, <3>2
  <2>2. CASE i # n + 1
    <3>1. i \in 1..n /\ i - 1 \in Slots /\ i - 1 # n
      BY <1>1, <2>2, QueueAssumption DEF Slots
    <3> QED
      BY <1>1, <1>4, <1>5, <1>11, <1>13, <3>1
  <2> QED
    BY <2>1, <2>2
<1>15. Items(r) = Append(Items(q), p)
  BY <1>11, <1>13, <1>14, SeqEqual
<1> QED
  BY <1>6, <1>10, <1>15 DEF r

\* srpc_queue_pop takes one packet out and keeps the others in order.
LEMMA PopProps ==
  ASSUME NEW q \in Queue, QueueSound(q), NEW a \in Slots, a < q.item_count
  PROVE  /\ Pop(q, a) \in Queue /\ QueueSound(Pop(q, a))
         /\ Pop(q, a).item_count = q.item_count - 1
         /\ q.item[a] \in Packet
         /\ \A i \in Slots : i < q.item_count - 1 =>
              Pop(q, a).item[i] = IF i < a THEN q.item[i] ELSE q.item[i + 1]
<1> DEFINE r == Pop(q, a)
           n == q.item_count
           frees == q.alloc_count > MinAllocCount
           moved(i) == IF i < a THEN q.item[i]
                       ELSE IF i < n - 1 THEN q.item[i + 1]
                       ELSE IF i = n - 1 THEN IF frees THEN NULL ELSE q.item[a]
                       ELSE q.item[i]
<1>1. n \in Nat /\ n >= 1 /\ n <= QueueSize /\ n - 1 \in Slots /\ a \in Nat /\ a <= n - 1
  BY QueueAssumption DEF Queue, Slots
<1>2. q.item \in [Slots -> Packet \union {NULL}] /\ q.alloc_count \in 0..255
  BY DEF Queue
<1>3. \A i \in Slots : i < n => q.item[i] \in Packet
  BY <1>2 DEF QueueSound
<1>4. /\ r.item = [i \in Slots |-> moved(i)] /\ r.item_count = n - 1
      /\ r.alloc_count = IF frees THEN q.alloc_count - 1 ELSE q.alloc_count
      /\ r = [item |-> [i \in Slots |-> moved(i)], item_count |-> n - 1,
              alloc_count |-> IF frees THEN q.alloc_count - 1 ELSE q.alloc_count]
  BY DEF Pop
<1>5. \A i \in Slots : i < n - 1 => i + 1 \in Slots /\ i + 1 < n /\ i < n
  BY <1>1, QueueAssumption DEF Slots
<1>6. \A i \in Slots : moved(i) \in Packet \union {NULL}
  BY <1>2, <1>3, <1>5
<1>7. q.item[a] \in Packet
  BY <1>3
<1>8. \A i \in Slots : i < n - 1 => moved(i) \in Packet
  BY <1>3, <1>5
<1>9. \A i \in Slots : i # n - 1 => (moved(i) # NULL <=> q.item[i] # NULL)
  <2>1. ASSUME NEW i \in Slots, i # n - 1 PROVE moved(i) # NULL <=> q.item[i] # NULL
    <3>1. CASE i < n - 1
      BY <1>3, <1>5, <1>8, <3>1, NullAssumption
    <3>2. CASE ~(i < n - 1)
      <4>1. ~(i < a)
        BY <1>1, <3>2, QueueAssumption DEF Slots
      <4> QED
        BY <2>1, <3>2, <4>1
    <3> QED
      BY <3>1, <3>2
  <2> QED
    BY <2>1
<1>10. moved(n - 1) = IF frees THEN NULL ELSE q.item[a]
  BY <1>1
<1>11. q.item[n - 1] \in Packet
  BY <1>1, <1>3
<1> HIDE DEF moved
<1>12. r \in Queue
  <2>1. (IF frees THEN q.alloc_count - 1 ELSE q.alloc_count) \in 0..255
    BY <1>2, QueueAssumption
  <2>2. n - 1 \in 0..QueueSize
    BY <1>1, QueueAssumption
  <2>3. [i \in Slots |-> moved(i)] \in [Slots -> Packet \union {NULL}]
    BY <1>6
  <2> HIDE DEF r, frees
  <2> QED
    BY <1>4, <2>1, <2>2, <2>3 DEF Queue
<1>13. Allocated(r) = IF frees THEN Allocated(q) \ {n - 1} ELSE Allocated(q)
  <2>1. \A i \in Slots : r.item[i] = moved(i)
    BY <1>4
  <2> HIDE DEF r, frees
  <2>2. CASE frees
    BY <1>1, <1>9, <1>10, <2>1, <2>2 DEF Allocated
  <2>3. CASE ~frees
    BY <1>1, <1>7, <1>9, <1>10, <1>11, <2>1, <2>3, NullAssumption DEF Allocated
  <2> QED
    BY <2>2, <2>3
<1>14. n - 1 \in Allocated(q)
  BY <1>1, <1>11, NullAssumption DEF Allocated
<1>15. IsFiniteSet(Allocated(q)) /\ Cardinality(Allocated(q)) \in Nat
  BY SlotsFinite
<1>16. Cardinality(Allocated(q) \ {n - 1}) = Cardinality(Allocated(q)) - 1
  BY <1>14, <1>15, FS_RemoveElement
<1>17. QueueSound(r)
  <2>1. \A i \in Slots : i < r.item_count => r.item[i] # NULL
    BY <1>4, <1>8, NullAssumption
  <2>2. /\ Cardinality(Allocated(q)) <= q.alloc_count
        /\ q.alloc_count <= n + MinAllocCount /\ q.alloc_count \in Nat /\ MinAllocCount \in Nat
    BY <1>2, QueueAssumption DEF QueueSound
  <2>3. Cardinality(Allocated(r)) <= r.alloc_count
    BY <1>4, <1>13, <1>15, <1>16, <2>2
  <2>4. r.alloc_count <= r.item_count + MinAllocCount
    BY <1>1, <1>4, <2>2
  <2> QED
    BY <2>1, <2>3, <2>4 DEF QueueSound
<1>18. \A i \in Slots : i < n - 1 => r.item[i] = IF i < a THEN q.item[i] ELSE q.item[i + 1]
  BY <1>4 DEF moved
<1> QED
  BY <1>4, <1>7, <1>12, <1>17, <1>18

\* The packet at the front is the one srpc_queue_pop takes for rr_id 0.
LEMMA PopFirst ==
  ASSUME NEW q \in Queue, QueueSound(q), q.item_count > 0
  PROVE  /\ Pop(q, 0) \in Queue /\ QueueSound(Pop(q, 0)) /\ q.item[0] \in Packet
         /\ Wire(Items(q)) = Units(q.item[0]) \o Wire(Items(Pop(q, 0)))
<1> DEFINE r == Pop(q, 0)
           n == q.item_count
<1>1. 0 \in Slots /\ n \in Nat /\ n >= 1 /\ n <= QueueSize
  BY QueueAssumption DEF Slots, Queue
<1>2. /\ r \in Queue /\ QueueSound(r) /\ r.item_count = n - 1 /\ q.item[0] \in Packet
      /\ \A i \in Slots : i < n - 1 => r.item[i] = IF i < 0 THEN q.item[i] ELSE q.item[i + 1]
  BY <1>1, PopProps
<1>3. /\ Items(q) \in Seq(Packet) /\ Len(Items(q)) = n
      /\ \A i \in 1..n : Items(q)[i] = q.item[i - 1]
  BY ItemsType
<1> HIDE DEF r
<1>4. /\ Items(r) \in Seq(Packet) /\ Len(Items(r)) = n - 1
      /\ \A i \in 1..(n - 1) : Items(r)[i] = r.item[i - 1]
  BY <1>2, ItemsType
<1> HIDE DEF n
<1>5. ASSUME NEW k \in 1..(n - 1) PROVE Items(r)[k] = Items(q)[k + 1]
  <2>1. k - 1 \in Slots /\ k - 1 < n - 1 /\ ~(k - 1 < 0) /\ (k - 1) + 1 = k
        /\ k + 1 \in 1..n /\ (k + 1) - 1 = k
    BY <1>1, QueueAssumption DEF Slots
  <2>2. Items(r)[k] = q.item[k]
    BY <1>2, <1>4, <2>1
  <2>3. Items(q)[k + 1] = q.item[k]
    BY <1>3, <2>1
  <2> QED
    BY <2>2, <2>3
<1>6. Items(q)[1] = q.item[0] /\ Len(Items(q)) = Len(Items(r)) + 1
  BY <1>1, <1>3, <1>4
<1>7. \A k \in 1..Len(Items(r)) : Items(r)[k] = Items(q)[k + 1]
  BY <1>4, <1>5
<1>8. Wire(Items(q)) = Units(q.item[0]) \o Wire(Items(r))
  BY <1>3, <1>4, <1>6, <1>7, WireFirst
<1> QED
  BY <1>2, <1>8 DEF r

----------------------------------------------------------------------------
(* What the peer sent and srpc_iterate has not taken yet *)

\* The in buffer and what the kernel holds for it.
stream == in \o sock

\* r is s without the d elements behind the first a.
IsCut(r, s, a, d) ==
  /\ a \in Nat /\ d \in Nat /\ a + d <= Len(s) /\ r \in Seq(Unit) /\ Len(r) = Len(s) - d
  /\ \A i \in 1..(Len(s) - d) : r[i] = s[IF i <= a THEN i ELSE i + d]

LEMMA ConcatAt ==
  ASSUME NEW x \in Seq(Unit), NEW y \in Seq(Unit)
  PROVE  /\ x \o y \in Seq(Unit) /\ Len(x \o y) = Len(x) + Len(y)
         /\ \A i \in 1..(Len(x) + Len(y)) :
              (x \o y)[i] = IF i <= Len(x) THEN x[i] ELSE y[i - Len(x)]
BY ConcatProperties

\* A read moves the first k units of what the kernel holds behind the buffer.
LEMMA ReadProps ==
  ASSUME NEW x \in Seq(Unit), NEW y \in Seq(Unit), NEW k \in 0..Len(y)
  PROVE  /\ x \o First(y, k) \in Seq(Unit) /\ Len(x \o First(y, k)) = Len(x) + k
         /\ \A i \in 1..(Len(x) + k) : (x \o First(y, k))[i] = (x \o y)[i]
         /\ Rest(y, k) \in Seq(Unit) /\ Len(Rest(y, k)) = Len(y) - k
         /\ \A i \in 1..(Len(y) - k) : Rest(y, k)[i] = (x \o y)[Len(x) + k + i]
<1> DEFINE f == First(y, k)
           r == Rest(y, k)
<1>1. f \in Seq(Unit) /\ Len(f) = k /\ \A i \in 1..k : f[i] = y[i]
  BY FirstProps
<1>2. r \in Seq(Unit) /\ Len(r) = Len(y) - k /\ \A i \in 1..(Len(y) - k) : r[i] = y[k + i]
  BY RestProps
<1> HIDE DEF f, r
<1>3. /\ x \o f \in Seq(Unit) /\ Len(x \o f) = Len(x) + Len(f)
      /\ \A i \in 1..(Len(x) + Len(f)) : (x \o f)[i] = IF i <= Len(x) THEN x[i] ELSE f[i - Len(x)]
  BY <1>1, ConcatAt
<1>4. \A i \in 1..(Len(x) + Len(y)) : (x \o y)[i] = IF i <= Len(x) THEN x[i] ELSE y[i - Len(x)]
  BY ConcatAt
<1>5. Len(x) \in Nat /\ Len(y) \in Nat /\ k \in Nat /\ k <= Len(y)
  OBVIOUS
<1>6. ASSUME NEW i \in 1..(Len(x) + k) PROVE (x \o f)[i] = (x \o y)[i]
  <2>1. i \in 1..(Len(x) + Len(f)) /\ i \in 1..(Len(x) + Len(y))
    BY <1>1, <1>5
  <2>2. i <= Len(x) \/ i - Len(x) \in 1..k
    BY <1>5
  <2> QED
    BY <1>1, <1>3, <1>4, <2>1, <2>2
<1>7. ASSUME NEW i \in 1..(Len(y) - k) PROVE r[i] = (x \o y)[Len(x) + k + i]
  <2>1. Len(x) + k + i \in 1..(Len(x) + Len(y)) /\ ~(Len(x) + k + i <= Len(x))
        /\ (Len(x) + k + i) - Len(x) = k + i
    BY <1>5
  <2> QED
    BY <1>2, <1>4, <2>1
<1> QED
  BY <1>1, <1>2, <1>3, <1>6, <1>7 DEF f, r

\* Everything is kept.
LEMMA KeepCut ==
  ASSUME NEW x \in Seq(Unit), NEW y \in Seq(Unit), NEW k \in 0..Len(y)
  PROVE  IsCut((x \o First(y, k)) \o Rest(y, k), x \o y, 0, 0)
<1> DEFINE b == x \o First(y, k)
           r == Rest(y, k)
           s == x \o y
<1>1. /\ b \in Seq(Unit) /\ Len(b) = Len(x) + k /\ \A i \in 1..(Len(x) + k) : b[i] = s[i]
      /\ r \in Seq(Unit) /\ Len(r) = Len(y) - k
      /\ \A i \in 1..(Len(y) - k) : r[i] = s[Len(x) + k + i]
  BY ReadProps
<1>2. s \in Seq(Unit) /\ Len(s) = Len(x) + Len(y)
  BY ConcatAt
<1>3. Len(x) \in Nat /\ Len(y) \in Nat /\ k \in Nat /\ k <= Len(y)
  OBVIOUS
<1> HIDE DEF b, r, s
<1>4. /\ b \o r \in Seq(Unit) /\ Len(b \o r) = Len(b) + Len(r)
      /\ \A i \in 1..(Len(b) + Len(r)) : (b \o r)[i] = IF i <= Len(b) THEN b[i] ELSE r[i - Len(b)]
  BY <1>1, ConcatAt
<1>5. ASSUME NEW i \in 1..Len(s) PROVE (b \o r)[i] = s[i]
  <2>1. i \in 1..(Len(b) + Len(r))
    BY <1>1, <1>2, <1>3
  <2>2. CASE i <= Len(b)
    BY <1>1, <1>4, <2>1, <2>2
  <2>3. CASE ~(i <= Len(b))
    <3>1. i - Len(b) \in 1..(Len(y) - k) /\ Len(x) + k + (i - Len(b)) = i
      BY <1>1, <1>3, <2>1, <2>3
    <3> QED
      BY <1>1, <1>4, <2>1, <2>3, <3>1
  <2> QED
    BY <2>2, <2>3
<1>6. IsCut(b \o r, s, 0, 0)
  <2>1. Len(b \o r) = Len(s) - 0 /\ 0 + 0 <= Len(s) /\ Len(s) - 0 = Len(s) /\ Len(s) \in Nat
    BY <1>1, <1>2, <1>3, <1>4
  <2>2. \A i \in 1..Len(s) : (IF i <= 0 THEN i ELSE i + 0) = i
    BY <2>1
  <2> QED
    BY <1>4, <1>5, <2>1, <2>2 DEF IsCut
<1> QED
  BY <1>6 DEF b, r, s

\* The first d units of the buffer are taken.
LEMMA TakeCut ==
  ASSUME NEW x \in Seq(Unit), NEW y \in Seq(Unit), NEW k \in 0..Len(y),
         NEW d \in 0..(Len(x) + k)
  PROVE  IsCut(Rest(x \o First(y, k), d) \o Rest(y, k), x \o y, 0, d)
<1> DEFINE b == x \o First(y, k)
           r == Rest(y, k)
           s == x \o y
           c == Rest(b, d)
<1>1. /\ b \in Seq(Unit) /\ Len(b) = Len(x) + k /\ \A i \in 1..(Len(x) + k) : b[i] = s[i]
      /\ r \in Seq(Unit) /\ Len(r) = Len(y) - k
      /\ \A i \in 1..(Len(y) - k) : r[i] = s[Len(x) + k + i]
  BY ReadProps
<1>2. s \in Seq(Unit) /\ Len(s) = Len(x) + Len(y)
  BY ConcatAt
<1>3. Len(x) \in Nat /\ Len(y) \in Nat /\ k \in Nat /\ k <= Len(y) /\ d \in Nat /\ d <= Len(x) + k
  OBVIOUS
<1> HIDE DEF b, r, s
<1>4. c \in Seq(Unit) /\ Len(c) = Len(b) - d /\ \A i \in 1..(Len(b) - d) : c[i] = b[d + i]
  <2>1. b \in Seq(Unit) /\ d \in 0..Len(b)
    BY <1>1, <1>3
  <2> QED
    BY <2>1, RestProps
<1> HIDE DEF c
<1>5. /\ c \o r \in Seq(Unit) /\ Len(c \o r) = Len(c) + Len(r)
      /\ \A i \in 1..(Len(c) + Len(r)) : (c \o r)[i] = IF i <= Len(c) THEN c[i] ELSE r[i - Len(c)]
  BY <1>1, <1>4, ConcatAt
<1>6. ASSUME NEW i \in 1..(Len(s) - d) PROVE (c \o r)[i] = s[i + d]
  <2>1. i \in 1..(Len(c) + Len(r))
    BY <1>1, <1>2, <1>3, <1>4
  <2>2. CASE i <= Len(c)
    <3>1. i \in 1..(Len(b) - d) /\ d + i = i + d /\ i + d \in 1..(Len(x) + k)
      BY <1>1, <1>3, <1>4, <2>2
    <3> QED
      BY <1>1, <1>4, <1>5, <2>1, <2>2, <3>1
  <2>3. CASE ~(i <= Len(c))
    <3>1. i - Len(c) \in 1..(Len(y) - k) /\ Len(x) + k + (i - Len(c)) = i + d
      BY <1>1, <1>3, <1>4, <2>1, <2>3
    <3> QED
      BY <1>1, <1>5, <2>1, <2>3, <3>1
  <2> QED
    BY <2>2, <2>3
<1>7. IsCut(c \o r, s, 0, d)
  <2>1. Len(c \o r) = Len(s) - d /\ 0 + d <= Len(s) /\ Len(s) - d \in Nat
    BY <1>1, <1>2, <1>3, <1>4, <1>5
  <2>2. \A i \in 1..(Len(s) - d) : ~(i <= 0)
    BY <2>1
  <2> QED
    BY <1>3, <1>5, <1>6, <2>1, <2>2 DEF IsCut
<1> QED
  BY <1>7 DEF c, b, r, s

\* What was read is dropped and the buffer kept.
LEMMA DropCut ==
  ASSUME NEW x \in Seq(Unit), NEW y \in Seq(Unit), NEW k \in 0..Len(y)
  PROVE  IsCut(x \o Rest(y, k), x \o y, Len(x), k)
<1> DEFINE r == Rest(y, k)
           s == x \o y
<1>1. r \in Seq(Unit) /\ Len(r) = Len(y) - k /\ \A i \in 1..(Len(y) - k) : r[i] = y[k + i]
  BY RestProps
<1>2. /\ s \in Seq(Unit) /\ Len(s) = Len(x) + Len(y)
      /\ \A i \in 1..(Len(x) + Len(y)) : s[i] = IF i <= Len(x) THEN x[i] ELSE y[i - Len(x)]
  BY ConcatAt
<1>3. Len(x) \in Nat /\ Len(y) \in Nat /\ k \in Nat /\ k <= Len(y)
  OBVIOUS
<1> HIDE DEF r, s
<1>4. /\ x \o r \in Seq(Unit) /\ Len(x \o r) = Len(x) + Len(r)
      /\ \A i \in 1..(Len(x) + Len(r)) : (x \o r)[i] = IF i <= Len(x) THEN x[i] ELSE r[i - Len(x)]
  BY <1>1, ConcatAt
<1>5. ASSUME NEW i \in 1..(Len(s) - k)
      PROVE  (x \o r)[i] = s[IF i <= Len(x) THEN i ELSE i + k]
  <2>1. i \in 1..(Len(x) + Len(r))
    BY <1>1, <1>2, <1>3
  <2>2. CASE i <= Len(x)
    <3>1. i \in 1..(Len(x) + Len(y))
      BY <1>3, <2>2
    <3> QED
      BY <1>2, <1>4, <2>1, <2>2, <3>1
  <2>3. CASE ~(i <= Len(x))
    <3>1. /\ i - Len(x) \in 1..(Len(y) - k) /\ i + k \in 1..(Len(x) + Len(y))
          /\ ~(i + k <= Len(x)) /\ (i + k) - Len(x) = k + (i - Len(x))
      BY <1>1, <1>3, <2>1, <2>3
    <3>2. (x \o r)[i] = y[k + (i - Len(x))]
      BY <1>1, <1>4, <2>1, <2>3, <3>1
    <3>3. s[i + k] = y[k + (i - Len(x))]
      BY <1>2, <3>1
    <3> QED
      BY <2>3, <3>2, <3>3
  <2> QED
    BY <2>2, <2>3
<1>6. IsCut(x \o r, s, Len(x), k)
  <2>1. Len(x \o r) = Len(s) - k /\ Len(x) + k <= Len(s)
    BY <1>1, <1>2, <1>3, <1>4
  <2> QED
    BY <1>3, <1>4, <1>5, <2>1 DEF IsCut
<1> QED
  BY <1>6 DEF r, s

\* The number of a packet of the peer, the place of a unit among all the units
\* the peer sends, and how many it has sent.
Number(p) == p.call_id[2]
Pos(u)    == 2 * Number(u.packet) - (IF u.part = "head" THEN 1 ELSE 0)
Sent      == 2 * Len(peer) - (IF half THEN 1 ELSE 0)

PeerCalls == [rr_id : 0..(RrIds - 1), kind : PacketKind]

\* The calls of this end beyond MaxOut: the answers to versions that are out of
\* range, and the one on_version_error() is about to make.
Spent == (IF calls > MaxOut THEN calls - MaxOut ELSE 0)
         + (IF pc = "version" THEN 1 ELSE 0)

\* One of the first m units of a peer that began n packets.
FromPeer(u, n, m) ==
  u.packet.call_id[1] = "peer" /\ Number(u.packet) \in 1..n /\ Pos(u) <= m

\* What is not taken yet was sent by the peer and is in the order in which it
\* was sent, also when units were dropped in between.  Each answer to a version
\* that is out of range costs the peer a packet, of which the head at least
\* is gone.
WireInv ==
  /\ peer \in Seq(PeerCalls) /\ Len(peer) <= MaxIn
  /\ half \in BOOLEAN /\ (half => Len(peer) > 0)
  /\ sock \in Seq(Unit) /\ in \in Seq(Unit)
  /\ \A i \in 1..Len(stream) : FromPeer(stream[i], Len(peer), Sent)
  /\ \A i, j \in 1..Len(stream) : i < j => Pos(stream[i]) < Pos(stream[j])
  /\ calls \in Nat /\ Spent <= Len(peer)
  /\ \A i \in 1..Len(stream) : 2 * Spent <= Pos(stream[i])
  /\ lck \in Caller \union {None, Conn} /\ (lck \in Caller => calls > 0)

LEMMA StreamType ==
  ASSUME in \in Seq(Unit), sock \in Seq(Unit)
  PROVE  stream \in Seq(Unit) /\ Len(stream) = Len(in) + Len(sock)
BY ConcatAt DEF stream

LEMMA PosType ==
  ASSUME NEW u \in Unit, NEW n \in Nat, NEW m, FromPeer(u, n, m)
  PROVE  /\ Pos(u) \in Nat /\ Pos(u) >= 1 /\ Number(u.packet) \in Nat
         /\ u.part = "head" => Pos(u) = 2 * Number(u.packet) - 1
         /\ u.part = "tail" => Pos(u) = 2 * Number(u.packet)
BY DEF FromPeer, Pos, Unit

LEMMA SentType ==
  ASSUME WireInv
  PROVE  Sent \in Nat /\ Sent <= 2 * MaxIn /\ calls \in 0..(MaxIn + MaxOut)
<1>1. Sent \in Nat /\ Sent <= 2 * MaxIn
  BY SrpcAssumption DEF WireInv, Sent
<1>2. calls \in Nat /\ Spent <= Len(peer) /\ Len(peer) \in Nat /\ Len(peer) <= MaxIn
  BY DEF WireInv
<1>3. calls <= MaxOut + Spent /\ Spent \in Nat
  BY <1>2, SrpcAssumption DEF Spent
<1> QED
  BY <1>1, <1>2, <1>3, SrpcAssumption

LEMMA CallsBound ==
  ASSUME WireInv'
  PROVE  calls' \in 0..(MaxIn + MaxOut)
<1>1. /\ calls' \in Nat /\ Spent' <= Len(peer') /\ Len(peer') \in Nat
      /\ Len(peer') <= MaxIn
  BY DEF WireInv
<1>2. MaxIn \in Nat /\ MaxOut \in Nat
  BY SrpcAssumption
<1>3. Spent' = (IF calls' > MaxOut THEN calls' - MaxOut ELSE 0)
                + (IF pc' = "version" THEN 1 ELSE 0)
  BY DEF Spent
<1>4. calls' <= MaxIn + MaxOut
  BY <1>1, <1>2, <1>3
<1> QED
  BY <1>1, <1>2, <1>4

\* A step that calls within MaxOut, or makes the call it owes for a version
\* that is out of range, or finds such a version.
LEMMA SpentSteps ==
  ASSUME calls \in Nat
  PROVE  /\ Spent \in Nat
         /\ /\ calls' = calls \/ (calls' = calls + 1 /\ (calls < MaxOut \/ pc = "version"))
            /\ pc' = "version" => pc = "version" /\ (calls' = calls \/ calls < MaxOut)
            => calls' \in Nat /\ Spent' \in Nat /\ Spent' <= Spent
         /\ calls' = calls /\ pc # "version" /\ pc' = "version"
            => calls' \in Nat /\ Spent' = Spent + 1
<1> MaxOut \in Nat
  BY SrpcAssumption
<1> QED
  BY DEF Spent

\* Steps that only take units away and, when the version of the packet in front
\* is out of range, owe a call for it.
LEMMA CutWire ==
  ASSUME WireInv, UNCHANGED <<peer, half>>, NEW a, NEW d,
         in' \in Seq(Unit), sock' \in Seq(Unit), IsCut(stream', stream, a, d),
         calls' \in Nat, Spent' \in Nat,
         \/ Spent' <= Spent
         \/ Spent' = Spent + 1 /\ a = 0 /\ d >= 1 /\ stream[1].part = "head",
         lck' \in Caller \union {None, Conn}, lck' \in Caller => calls' > 0
  PROVE  WireInv'
<1> DEFINE n == Len(stream)
           from(i) == IF i <= a THEN i ELSE i + d
<1>1. /\ a \in Nat /\ d \in Nat /\ n \in Nat /\ a + d <= n /\ Len(stream') = n - d
      /\ \A i \in 1..(n - d) : stream'[i] = stream[from(i)]
  <2>1. n \in Nat
    BY StreamType DEF WireInv
  <2> QED
    BY <2>1 DEF IsCut
<1>2. /\ \A i \in 1..(n - d) : from(i) \in 1..n
      /\ \A i, j \in 1..(n - d) : i < j => from(i) < from(j)
      /\ a = 0 /\ d >= 1 => 1 \in 1..n /\ \A i \in 1..(n - d) : 1 < from(i)
  <2> HIDE DEF n
  <2>1. \A i \in 1..(n - d) : from(i) \in 1..n
    BY <1>1
  <2>2. \A i, j \in 1..(n - d) : i < j => from(i) < from(j)
    BY <1>1
  <2>3. ASSUME a = 0, d >= 1
        PROVE  1 \in 1..n /\ \A i \in 1..(n - d) : 1 < from(i)
    BY <1>1, <2>3
  <2> QED
    BY <2>1, <2>2, <2>3
<1>3. \A i \in 1..n : stream[i] \in Unit /\ FromPeer(stream[i], Len(peer), Sent)
  BY StreamType DEF WireInv
<1>0. Len(peer) \in Nat
  BY DEF WireInv
<1>4. \A i \in 1..n : Pos(stream[i]) \in Nat
  BY <1>0, <1>3, PosType
<1>5. /\ \A i, j \in 1..n : i < j => Pos(stream[i]) < Pos(stream[j])
      /\ \A i \in 1..n : 2 * Spent <= Pos(stream[i])
      /\ Spent <= Len(peer)
  BY DEF WireInv
<1>6. Sent' = Sent /\ Spent \in Nat
  BY SpentSteps DEF Sent, WireInv
<1> HIDE DEF from, n
<1>7. \A i \in 1..(n - d) : FromPeer(stream'[i], Len(peer'), Sent')
  BY <1>1, <1>2, <1>3, <1>6
<1>8. \A i, j \in 1..(n - d) : i < j => Pos(stream'[i]) < Pos(stream'[j])
  BY <1>1, <1>2, <1>5
<1>9. Spent' <= Len(peer) /\ \A i \in 1..(n - d) : 2 * Spent' <= Pos(stream'[i])
  <2> DEFINE x == Spent
             y == Spent'
             m == Len(peer)
             q(i) == Pos(stream[i])
  <2>0. /\ x \in Nat /\ y \in Nat /\ m \in Nat /\ x <= m
        /\ \A i \in 1..n : q(i) \in Nat /\ 2 * x <= q(i)
    BY <1>0, <1>4, <1>5, <1>6
  <2>1. \A i \in 1..(n - d) : Pos(stream'[i]) = q(from(i)) /\ from(i) \in 1..n
    BY <1>1, <1>2
  <2>2. CASE Spent' <= Spent
    <3>1. y <= x
      BY <2>2
    <3> HIDE DEF x, y, m, q
    <3>2. y <= m /\ \A i \in 1..n : 2 * y <= q(i)
      BY <2>0, <3>1
    <3>3. \A i \in 1..(n - d) : 2 * y <= Pos(stream'[i])
      BY <2>1, <3>2
    <3> QED
      BY <3>2, <3>3 DEF y, m
  <2>3. CASE Spent' = Spent + 1 /\ a = 0 /\ d >= 1 /\ stream[1].part = "head"
    <3> DEFINE k == Number(stream[1].packet)
    <3>1. 1 \in 1..n /\ \A i \in 1..(n - d) : 1 < from(i) /\ from(i) \in 1..n
      BY <1>2, <2>3
    <3>2. q(1) = 2 * k - 1 /\ k \in Nat
      BY <1>0, <1>3, <2>3, <3>1, PosType
    <3>3. k <= m
      BY <1>3, <3>1 DEF FromPeer
    <3>4. \A i \in 1..n : 1 < i => q(1) < q(i)
      BY <1>5, <3>1
    <3>5. y = x + 1
      BY <2>3
    <3> HIDE DEF x, y, m, q, k
    <3>6. y <= k
      BY <2>0, <3>1, <3>2, <3>5
    <3>7. ASSUME NEW i \in 1..n, 1 < i PROVE 2 * y <= q(i)
      <4>1. q(1) < q(i) /\ q(i) \in Nat
        BY <2>0, <3>4, <3>7
      <4> QED
        BY <2>0, <3>2, <3>6, <4>1
    <3>8. \A i \in 1..(n - d) : 2 * y <= Pos(stream'[i])
      BY <2>1, <3>1, <3>7
    <3>9. y <= m
      BY <2>0, <3>2, <3>3, <3>6
    <3> QED
      BY <3>8, <3>9 DEF y, m
  <2> QED
    BY <2>2, <2>3
<1>10. Len(stream') = n - d
  BY <1>1
<1> QED
  BY <1>6, <1>7, <1>8, <1>9, <1>10 DEF WireInv

\* The peer sends its next unit.
LEMMA SendWire ==
  ASSUME WireInv, UNCHANGED <<in, calls, lck, pc>>, NEW u \in Unit, sock' = Append(sock, u),
         peer' \in Seq(PeerCalls), Len(peer') <= MaxIn, half' \in BOOLEAN,
         half' => Len(peer') > 0, Len(peer') >= Len(peer),
         Sent' = Sent + 1, FromPeer(u, Len(peer'), Sent'), Pos(u) = Sent + 1
  PROVE  WireInv'
<1> DEFINE n == Len(stream)
<1>1. /\ n \in Nat /\ n = Len(in) + Len(sock) /\ stream \in Seq(Unit)
      /\ Len(in) \in Nat /\ Len(sock) \in Nat /\ Len(peer) \in Nat /\ Len(peer') \in Nat
  BY StreamType DEF WireInv
<1>2. sock' \in Seq(Unit) /\ in \in Seq(Unit) /\ sock \in Seq(Unit)
  BY DEF WireInv
<1>3. stream' = Append(stream, u)
  BY <1>2 DEF stream
<1>4. /\ Len(stream') = n + 1 /\ stream'[n + 1] = u /\ \A i \in 1..n : stream'[i] = stream[i]
  <2>1. \A s \in Seq(Unit) : /\ Len(Append(s, u)) = Len(s) + 1
                            /\ Append(s, u)[Len(s) + 1] = u
                            /\ \A i \in 1..Len(s) : Append(s, u)[i] = s[i]
    OBVIOUS
  <2> QED
    BY <1>1, <1>3, <2>1
<1>5. \A i \in 1..n : stream[i] \in Unit /\ FromPeer(stream[i], Len(peer), Sent)
  BY <1>1 DEF WireInv
<1>6. \A i \in 1..n : Pos(stream[i]) \in Nat /\ Pos(stream[i]) <= Sent
  BY <1>1, <1>5, PosType DEF FromPeer
<1>7. Sent \in Nat /\ calls \in Nat /\ Spent \in Nat /\ Spent' = Spent
  BY SentType, SpentSteps DEF WireInv, Spent
<1>8. /\ \A i, j \in 1..n : i < j => Pos(stream[i]) < Pos(stream[j])
      /\ \A i \in 1..n : 2 * Spent <= Pos(stream[i])
      /\ Spent <= Len(peer)
  BY DEF WireInv
<1> HIDE DEF n
<1>9. \A i \in 1..n : FromPeer(stream[i], Len(peer'), Sent')
  <2>1. ASSUME NEW i \in 1..n PROVE Number(stream[i].packet) \in 1..Len(peer')
    BY <1>1, <1>5 DEF FromPeer
  <2>2. \A i \in 1..n : Pos(stream[i]) <= Sent'
    BY <1>6, <1>7
  <2> QED
    BY <1>4, <1>5, <2>1, <2>2 DEF FromPeer
<1>10. \A i \in 1..(n + 1) : i = n + 1 \/ i \in 1..n
  <2>1. n \in Nat
    BY <1>1
  <2> QED
    BY <2>1
<1>11. \A i \in 1..(n + 1) : FromPeer(stream'[i], Len(peer'), Sent')
  BY <1>4, <1>9, <1>10
<1>12. \A i, j \in 1..(n + 1) : i < j => Pos(stream'[i]) < Pos(stream'[j])
  <2>1. ASSUME NEW i \in 1..(n + 1), NEW j \in 1..(n + 1), i < j
        PROVE  Pos(stream'[i]) < Pos(stream'[j])
    <3>1. i \in 1..n
      BY <1>1, <2>1
    <3>2. CASE j = n + 1
      BY <1>4, <1>6, <1>7, <3>1, <3>2
    <3>3. CASE j \in 1..n
      BY <1>4, <1>8, <2>1, <3>1, <3>3
    <3> QED
      BY <1>10, <3>2, <3>3
  <2> QED
    BY <2>1
<1>13. \A i \in 1..(n + 1) : 2 * Spent <= Pos(stream'[i])
  <2>1. 2 * Spent <= Sent + 1
    BY <1>1, <1>7, <1>8 DEF Sent
  <2>2. 2 * Spent <= Pos(u)
    BY <2>1
  <2> QED
    BY <1>4, <1>8, <1>10, <2>2
<1>14. Spent <= Len(peer')
  BY <1>1, <1>7, <1>8
<1> QED
  BY <1>2, <1>4, <1>7, <1>11, <1>12, <1>13, <1>14 DEF WireInv

\* Steps that take nothing from the stream.
LEMMA SameWire ==
  ASSUME WireInv, UNCHANGED <<peer, half, in, sock>>,
         calls' = calls \/ (calls' = calls + 1 /\ (calls < MaxOut \/ pc = "version")),
         pc' = "version" => pc = "version" /\ (calls' = calls \/ calls < MaxOut),
         lck' \in Caller \union {None, Conn}, lck' \in Caller => calls' > 0
  PROVE  WireInv'
<1>1. stream' = stream /\ stream \in Seq(Unit) /\ Len(stream) \in Nat
  BY StreamType DEF stream, WireInv
<1>2. IsCut(stream', stream, 0, 0)
  BY <1>1 DEF IsCut
<1>3. in' \in Seq(Unit) /\ sock' \in Seq(Unit) /\ calls \in Nat
  BY DEF WireInv
<1>4. calls' \in Nat /\ Spent' \in Nat /\ Spent' <= Spent
  BY <1>3, SpentSteps
<1> QED
  BY <1>2, <1>3, <1>4, CutWire

\* What data_read() gets is what the kernel holds, up to a chunk.
LEMMA AmountType ==
  ASSUME WireInv
  PROVE  /\ Amount \in 0..Len(sock) /\ Amount <= Chunk
         /\ Appended \in Seq(Unit) /\ Len(Appended) = Len(in) + Amount
         /\ Len(Appended) <= Len(stream)
         /\ \A i \in 1..Len(Appended) : Appended[i] = stream[i]
         /\ Rest(sock, Amount) \in Seq(Unit)
<1>1. in \in Seq(Unit) /\ sock \in Seq(Unit)
  BY DEF WireInv
<1>2. Amount \in Nat /\ Amount <= Chunk /\ Amount <= Len(sock) /\ Amount \in 0..Len(sock)
  <2>1. Chunk \in Nat /\ Len(sock) \in Nat
    BY <1>1, SrpcAssumption
  <2>2. Amount \in Nat /\ Amount <= Chunk /\ Amount <= Len(sock)
    BY <2>1, LeastProps DEF Amount
  <2> QED
    BY <2>1, <2>2
<1>3. Len(stream) = Len(in) + Len(sock)
  BY <1>1, StreamType
<1> DEFINE b == in \o First(sock, Amount)
           s == in \o sock
<1>4. /\ b \in Seq(Unit) /\ Len(b) = Len(in) + Amount
      /\ \A i \in 1..(Len(in) + Amount) : b[i] = s[i]
      /\ Rest(sock, Amount) \in Seq(Unit)
  BY <1>1, <1>2, ReadProps
<1>5. b = Appended /\ s = stream
  BY DEF Appended, stream
<1> HIDE DEF b, s
<1>6. Len(Appended) = Len(in) + Amount
  BY <1>4, <1>5
<1>7. Len(in) + Amount <= Len(stream)
  BY <1>1, <1>2, <1>3
<1> QED
  BY <1>2, <1>4, <1>5, <1>6, <1>7

\* The unit u arrives.
Sends(u) == sock' = Append(sock, u) /\ Pos(u) = Sent + 1 /\ Sent' = Sent + 1

LEMMA PeerHeadWire ==
  ASSUME WireInv, NEW k \in PacketKind, PeerHead(k)
  PROVE  /\ WireInv' /\ \E u \in Unit : Sends(u)
         /\ \E x \in PeerCalls : peer' = Append(peer, x)
<1> DEFINE n    == Len(peer)
           last == IF peer = <<>> THEN PeerRrId ELSE peer[n].rr_id
           rr   == NextRrId(last)
           p    == [rr_id |-> rr, call_id |-> <<"peer", n + 1>>]
           u    == Units(p)[1]
<1>1. /\ peer \in Seq(PeerCalls) /\ n \in Nat /\ n < MaxIn /\ ~half
      /\ peer' = Append(peer, [rr_id |-> rr, kind |-> k]) /\ sock' = Append(sock, u)
      /\ half' = TRUE /\ UNCHANGED <<in, calls, lck, pc>>
  BY DEF PeerHead, WireInv
<1>2. last \in 0..(RrIds - 1)
  <2>1. peer # <<>> => n \in 1..Len(peer)
    BY <1>1
  <2>2. peer # <<>> => peer[n] \in PeerCalls
    BY <1>1, <2>1
  <2> QED
    BY <2>2, SrpcAssumption DEF PeerCalls
<1> HIDE DEF last
<1>3. rr \in 0..(RrIds - 1)
  BY <1>2, RrIdType
<1> HIDE DEF rr
<1>4. n + 1 \in 1..MaxIn /\ MaxIn \in Nat
  BY <1>1, SrpcAssumption
<1>5. p \in Packet
  BY <1>3, <1>4 DEF Packet
<1>6. /\ u = [packet |-> p, part |-> "head"] /\ u \in Unit
      /\ u.packet = p /\ u.part = "head" /\ p.call_id = <<"peer", n + 1>>
  BY <1>5 DEF Units, Unit
<1>7. peer' \in Seq(PeerCalls) /\ Len(peer') = n + 1
  BY <1>1, <1>3 DEF PeerCalls
<1> HIDE DEF p, u
<1>8. u.packet.call_id[1] = "peer" /\ Number(u.packet) = n + 1
  BY <1>6 DEF Number
<1>9. Pos(u) = 2 * (n + 1) - 1
  BY <1>6, <1>8 DEF Pos
<1>10. Sent = 2 * n /\ Sent' = 2 * (n + 1) - 1
  BY <1>1, <1>7 DEF Sent
<1>11. Pos(u) = Sent + 1 /\ Sent' = Sent + 1
  BY <1>1, <1>9, <1>10
<1>12. FromPeer(u, Len(peer'), Sent')
  BY <1>1, <1>7, <1>8, <1>9, <1>10 DEF FromPeer
<1>13. Len(peer') <= MaxIn /\ Len(peer') >= Len(peer) /\ Len(peer') > 0
  BY <1>1, <1>4, <1>7
<1> HIDE DEF n
<1>14. WireInv'
  BY <1>1, <1>6, <1>7, <1>11, <1>12, <1>13, SendWire
<1>15. Sends(u)
  BY <1>1, <1>11 DEF Sends
<1>16. [rr_id |-> rr, kind |-> k] \in PeerCalls
  BY <1>3 DEF PeerCalls
<1> QED
  BY <1>1, <1>6, <1>14, <1>15, <1>16

LEMMA PeerTailWire ==
  ASSUME WireInv, PeerTail
  PROVE  WireInv' /\ \E u \in Unit : Sends(u)
<1> DEFINE n == Len(peer)
           p == PeerPacket(n)
           u == Units(p)[2]
<1>1. /\ peer \in Seq(PeerCalls) /\ n \in Nat /\ n > 0 /\ n <= MaxIn /\ half
      /\ sock' = Append(sock, u) /\ half' = FALSE /\ UNCHANGED <<peer, in, calls, lck, pc>>
  BY DEF PeerTail, WireInv
<1>2. p \in Packet /\ p.call_id = <<"peer", n>>
  <2>1. peer[n] \in PeerCalls /\ n \in 1..MaxIn
    BY <1>1, SrpcAssumption
  <2>2. peer[n].rr_id \in 0..(RrIds - 1)
    BY <2>1 DEF PeerCalls
  <2> HIDE DEF n
  <2> QED
    BY <2>1, <2>2 DEF PeerPacket, Packet
<1>3. /\ u = [packet |-> p, part |-> "tail"] /\ u \in Unit
      /\ u.packet = p /\ u.part = "tail"
  BY <1>2 DEF Units, Unit
<1> HIDE DEF p, u
<1>4. u.packet.call_id[1] = "peer" /\ Number(u.packet) = n
  BY <1>2, <1>3 DEF Number
<1>5. Pos(u) = 2 * n
  BY <1>1, <1>3, <1>4 DEF Pos
<1>6. Sent = 2 * n - 1 /\ Sent' = 2 * n
  BY <1>1 DEF Sent
<1>7. Pos(u) = Sent + 1 /\ Sent' = Sent + 1
  BY <1>1, <1>5, <1>6
<1>8. FromPeer(u, Len(peer'), Sent')
  BY <1>1, <1>4, <1>5, <1>6 DEF FromPeer
<1>9. /\ peer' \in Seq(PeerCalls) /\ Len(peer') <= MaxIn /\ Len(peer') >= Len(peer)
      /\ half' \in BOOLEAN /\ (half' => Len(peer') > 0)
  <2>1. peer' = peer /\ half' = FALSE
    BY <1>1
  <2>2. half' \in BOOLEAN /\ ~half'
    BY <2>1
  <2>3. n >= n /\ n <= MaxIn /\ peer \in Seq(PeerCalls)
    BY <1>1
  <2> QED
    BY <2>1, <2>2, <2>3
<1> HIDE DEF n
<1>10. WireInv'
  BY <1>1, <1>3, <1>7, <1>8, <1>9, SendWire
<1>11. Sends(u)
  BY <1>1, <1>7 DEF Sends
<1> QED
  BY <1>3, <1>10, <1>11

\* What a read does with the stream.
LEMMA ReadCut ==
  ASSUME WireInv, sock' = Rest(sock, Amount)
  PROVE  /\ in' = Appended => IsCut(stream', stream, 0, 0)
         /\ in' = Rest(Appended, 2) /\ Len(Appended) >= 2 => IsCut(stream', stream, 0, 2)
         /\ in' = <<>> => IsCut(stream', stream, 0, Len(Appended))
         /\ in' = in => IsCut(stream', stream, Len(in), Amount)
<1>1. in \in Seq(Unit) /\ sock \in Seq(Unit)
  BY DEF WireInv
<1>2. Amount \in 0..Len(sock) /\ Len(Appended) = Len(in) + Amount /\ Appended \in Seq(Unit)
  BY AmountType
<1>3. stream' = in' \o Rest(sock, Amount)
  BY DEF stream
<1> DEFINE b == in \o First(sock, Amount)
           s == in \o sock
           r == Rest(sock, Amount)
<1>4. b = Appended /\ s = stream
  BY DEF Appended, stream
<1>5. IsCut(b \o r, s, 0, 0)
  BY <1>1, <1>2, KeepCut
<1>6. \A d \in 0..(Len(in) + Amount) : IsCut(Rest(b, d) \o r, s, 0, d)
  BY <1>1, <1>2, TakeCut
<1>7. IsCut(in \o r, s, Len(in), Amount)
  BY <1>1, <1>2, DropCut
<1> HIDE DEF b, s
<1>8. ASSUME in' = Rest(Appended, 2), Len(Appended) >= 2 PROVE IsCut(stream', stream, 0, 2)
  <2>1. 2 \in 0..(Len(in) + Amount)
    BY <1>1, <1>2, <1>8
  <2>2. IsCut(Rest(b, 2) \o r, s, 0, 2)
    BY <1>6, <2>1
  <2> QED
    BY <1>3, <1>4, <1>8, <2>2
<1>9. ASSUME in' = <<>> PROVE IsCut(stream', stream, 0, Len(Appended))
  <2>1. Len(Appended) \in 0..(Len(in) + Amount)
    BY <1>1, <1>2
  <2>2. Rest(Appended, Len(Appended)) = <<>>
    BY <1>2 DEF Rest
  <2>3. IsCut(Rest(b, Len(Appended)) \o r, s, 0, Len(Appended))
    BY <1>6, <2>1
  <2> QED
    BY <1>3, <1>4, <1>9, <2>2, <2>3
<1> QED
  BY <1>3, <1>4, <1>5, <1>7, <1>8, <1>9

LEMMA InitWire == Init => WireInv
<1> SUFFICES ASSUME Init PROVE WireInv
  OBVIOUS
<1>1. stream = <<>> /\ Len(stream) = 0
  BY DEF Init, stream
<1>2. Sent = 0
  BY DEF Init, Sent
<1>3. 1..Len(stream) = {}
  BY <1>1
<1>4. /\ peer \in Seq(PeerCalls) /\ Len(peer) <= MaxIn
      /\ sock \in Seq(Unit) /\ in \in Seq(Unit)
      /\ lck = None /\ calls = 0 /\ None \notin Caller
  BY SrpcAssumption DEF Init
<1>6. half \in BOOLEAN /\ ~half
  BY DEF Init
<1>5. calls \in Nat /\ Spent = 0 /\ Len(peer) = 0
  BY <1>4, SrpcAssumption DEF Init, Spent
<1> QED
  BY <1>3, <1>4, <1>5, <1>6 DEF WireInv

\* The outcomes of sproto_pop_in_sdp.
LEMMA PopInSdpProps ==
  ASSUME NEW b \in Seq(Unit)
  PROVE  /\ PopInSdp(b) = "TRUE" => Len(b) >= 2 /\ b[1].part = "head"
         /\ PopInSdp(b) = "VERSION_ERROR" => Len(b) >= 1 /\ b[1].part = "head"
         /\ PopInSdp(b) = "FALSE" <=>
              \/ b = <<>>
              \/ /\ Len(b) < 2 /\ b[1].part # "tail"
                 /\ Kind(b[1].packet) \notin {"version", "size"}
<1>1. Len(b) \in Nat /\ (b # <<>> => b[1] \in Unit)
  OBVIOUS
<1>2. b # <<>> => b[1].part \in {"head", "tail"}
  BY <1>1 DEF Unit
<1>3. ~(Len(b) < 2) <=> Len(b) >= 2
  BY <1>1
<1> HIDE DEF Kind
<1>4. (Len(b) >= 2 => b # <<>>) /\ (b # <<>> => Len(b) >= 1)
  OBVIOUS
<1> QED
  BY <1>2, <1>3, <1>4 DEF PopInSdp

LEMMA ReturnPc ==
  ASSUME NEW ok, Return(ok)
  PROVE  pc' # "version"
BY DEF Return

LEMMA NextWire == WireInv /\ [Next]_vars => WireInv'
<1> SUFFICES ASSUME WireInv, [Next]_vars PROVE WireInv'
  OBVIOUS
<1> USE DEF wire, local, hist
<1>0. lck \in Caller \union {None, Conn} /\ (lck \in Caller => calls > 0) /\ calls \in Nat
      /\ None \notin Caller /\ Conn \notin Caller
  BY SrpcAssumption DEF WireInv
<1>1. ASSUME NEW k \in PacketKind, PeerHead(k) PROVE WireInv'
  BY <1>1, PeerHeadWire
<1>2. CASE PeerTail
  BY <1>2, PeerTailWire
<1>3. ASSUME NEW c \in Caller, AsyncBegin(c) PROVE WireInv'
  <2>1. /\ UNCHANGED <<peer, half, in, sock, pc>>
        /\ calls' = calls + 1 /\ calls < MaxOut /\ lck' = c
    BY <1>3 DEF AsyncBegin
  <2>2. calls' > 0
    BY <1>0, <2>1
  <2> QED
    BY <2>1, <2>2, SameWire
<1>4. ASSUME NEW c \in Caller, AsyncEnd(c) PROVE WireInv'
  BY <1>0, <1>4, SameWire DEF AsyncEnd
<1>5. CASE PeerClose \/ Wake \/ WaitTimeout \/ LoopEnds \/ IterateClosed \/ Closed \/ UNCHANGED vars
  <2>1. UNCHANGED <<peer, half, in, sock, calls, lck>>
    BY <1>5 DEF PeerClose, Wake, WaitTimeout, LoopEnds, IterateClosed, Closed, vars
  <2>2. pc' = pc \/ pc' # "version"
    BY <1>5, ReturnPc DEF PeerClose, Wake, WaitTimeout, LoopEnds, IterateClosed, Closed, vars
  <2> QED
    BY <1>0, <2>1, <2>2, SameWire
<1>6. CASE GetData \/ GetDataNothing \/ HandlerReturn \/ \E f \in {"rr_id", "call_id"} : ReadArgument(f)
  BY <1>0, <1>6, SameWire DEF GetData, GetDataNothing, HandlerReturn, ReadArgument
<1>7. CASE HandlerReply
  <2>1. /\ UNCHANGED <<peer, half, in, sock, lck>>
        /\ calls' = calls + 1 /\ calls < MaxOut /\ pc' = "out"
    BY <1>7 DEF HandlerReply
  <2>2. calls' > 0
    BY <1>0, <2>1
  <2> QED
    BY <1>0, <2>1, <2>2, SameWire
<1>8. CASE IterateOutPacket \/ IterateOutRest
  <2>1. UNCHANGED <<peer, half, in, sock, calls>> /\ lck' = None
    BY <1>8 DEF IterateOutPacket, IterateOutRest
  <2>2. pc' # "version"
    BY <1>8, ReturnPc DEF IterateOutPacket, IterateOutRest, Send
  <2> QED
    BY <1>0, <2>1, <2>2, SameWire
<1>9. /\ Rest(sock, Amount) \in Seq(Unit) /\ Appended \in Seq(Unit) /\ in \in Seq(Unit)
      /\ Len(Appended) \in Nat /\ \A i \in 1..Len(Appended) : Appended[i] = stream[i]
  BY AmountType DEF WireInv
<1>10. CASE IterateNothing
  <2>1. /\ sock' = Rest(sock, Amount) /\ in' = Appended
        /\ UNCHANGED <<peer, half, calls>> /\ lck' = Conn /\ pc' = "out"
    BY <1>10 DEF IterateNothing
  <2>2. IsCut(stream', stream, 0, 0)
    BY <2>1, ReadCut
  <2>3. calls' \in Nat /\ Spent' \in Nat /\ Spent' <= Spent
    BY <1>0, <2>1, SpentSteps
  <2> QED
    BY <1>0, <1>9, <2>1, <2>2, <2>3, CutWire
<1>11. CASE IterateReceive \/ IterateQueueFull
  <2>1. /\ sock' = Rest(sock, Amount) /\ in' = Rest(Appended, 2)
        /\ UNCHANGED <<peer, half, calls, lck>> /\ PopInSdp(Appended) = "TRUE"
        /\ pc' # "version"
    BY <1>11, ReturnPc DEF IterateReceive, IterateQueueFull
  <2>2. Len(Appended) >= 2
    BY <1>9, <2>1, PopInSdpProps
  <2>3. 2 \in 0..Len(Appended)
    BY <1>9, <2>2
  <2>4. in' \in Seq(Unit)
    BY <1>9, <2>1, <2>3, RestProps
  <2>5. IsCut(stream', stream, 0, 2)
    BY <2>1, <2>2, ReadCut
  <2>6. calls' \in Nat /\ Spent' \in Nat /\ Spent' <= Spent
    BY <1>0, <2>1, SpentSteps
  <2> QED
    BY <1>0, <1>9, <2>1, <2>4, <2>5, <2>6, CutWire
<1>12. CASE IterateDataError
  <2>1. /\ sock' = Rest(sock, Amount) /\ in' = <<>>
        /\ UNCHANGED <<peer, half, calls, lck>> /\ pc' # "version"
    BY <1>12, ReturnPc DEF IterateDataError
  <2>2. IsCut(stream', stream, 0, Len(Appended))
    BY <2>1, ReadCut
  <2>3. in' \in Seq(Unit)
    BY <2>1
  <2>4. calls' \in Nat /\ Spent' \in Nat /\ Spent' <= Spent
    BY <1>0, <2>1, SpentSteps
  <2> QED
    BY <1>0, <1>9, <2>1, <2>2, <2>3, <2>4, CutWire
<1>13. CASE IterateVersionError
  <2>1. /\ sock' = Rest(sock, Amount) /\ in' = <<>> /\ pc = "in" /\ pc' = "version"
        /\ UNCHANGED <<peer, half, calls, lck>> /\ PopInSdp(Appended) = "VERSION_ERROR"
    BY <1>13 DEF IterateVersionError, Reads
  <2>2. IsCut(stream', stream, 0, Len(Appended))
    BY <2>1, ReadCut
  <2>3. in' \in Seq(Unit)
    BY <2>1
  <2>4. Len(Appended) >= 1 /\ Appended[1].part = "head"
    BY <1>9, <2>1, PopInSdpProps
  <2>5. stream[1].part = "head"
    BY <1>9, <2>4
  <2>6. calls' \in Nat /\ Spent \in Nat /\ Spent' = Spent + 1
    BY <1>0, <2>1, SpentSteps
  <2>7. Spent' \in Nat
    BY <2>6
  <2> QED
    BY <1>0, <1>9, <2>1, <2>2, <2>3, <2>4, <2>5, <2>6, <2>7, CutWire
<1>14. CASE IterateOverflow
  <2>1. /\ sock' = Rest(sock, Amount) /\ in' = in /\ UNCHANGED <<peer, half, calls, lck>>
        /\ pc' # "version"
    <3>1. Return(FALSE)
      BY <1>14 DEF IterateOverflow
    <3>2. pc' # "version"
      BY <3>1, ReturnPc
    <3> QED
      BY <1>14, <3>2 DEF IterateOverflow
  <2>2. IsCut(stream', stream, Len(in), Amount)
    BY <2>1, ReadCut
  <2>3. calls' \in Nat /\ Spent' \in Nat /\ Spent' <= Spent
    BY <1>0, <2>1, SpentSteps
  <2> QED
    BY <1>0, <1>9, <2>1, <2>2, <2>3, CutWire
<1>15. CASE VersionReply
  <2>1. /\ UNCHANGED <<peer, half, in, sock, lck>>
        /\ calls' = calls + 1 /\ pc = "version" /\ pc' = "in"
    BY <1>15 DEF VersionReply
  <2>2. calls' > 0
    BY <1>0, <2>1
  <2> QED
    BY <1>0, <2>1, <2>2, SameWire
<1> QED
  BY <1>1, <1>2, <1>3, <1>4, <1>5, <1>6, <1>7, <1>8, <1>10, <1>11, <1>12, <1>13, <1>14, <1>15
     DEF Next, Iterate

LEMMA WireCorrect == Spec => []WireInv
BY InitWire, NextWire, PTL DEF Spec

----------------------------------------------------------------------------
(* Type correctness and the queues *)

PcValues == {"wait", "in", "args", "call", "handler", "version", "out", "closed"}

\* The out buffer is emptied in every iteration: SRPC_BUFFER_SIZE is larger
\* than a frame, so what is appended is written at once, and appending never
\* fails.
DataInv ==
  /\ in_queue \in Queue /\ out_queue \in Queue /\ QueuesSound
  /\ sdp \in Packet /\ next_rr_id \in 0..(RrIds - 1)
  /\ out = <<>> /\ written \in Seq(Unit)
  /\ accepted \in Seq(Packet) /\ handled \in Seq(Packet)

ThreadInv ==
  /\ closed_by_peer \in BOOLEAN /\ pc \in PcValues
  /\ args \in Packet /\ unread \subseteq {"rr_id", "call_id"}
  /\ more \in BOOLEAN /\ nested \in Nat /\ event \in BOOLEAN /\ lost \in BOOLEAN

LEMMA ReturnType ==
  ASSUME nested \in Nat, NEW ok, Return(ok)
  PROVE  nested' \in Nat /\ pc' \in {"in", "closed", "wait"}
BY DEF Return

LEMMA OwnPacketType ==
  ASSUME next_rr_id \in 0..(RrIds - 1), NEW n \in 1..(MaxIn + MaxOut)
  PROVE  OwnPacket(n) \in Packet /\ OwnPacket(n).rr_id # 0
                                /\ OwnPacket(n).rr_id \in 0..(RrIds - 1)
<1>1. NextRrId(next_rr_id) \in 0..(RrIds - 1) /\ NextRrId(next_rr_id) # 0
  BY RrIdType
<1> QED
  BY <1>1 DEF OwnPacket, Packet

\* What srpc_async__call() does to the queue and the histories.
LEMMA EnqueueProps ==
  ASSUME DataInv, NEW p \in Packet, p.rr_id \in 0..(RrIds - 1), Enqueue(p)
  PROVE  /\ out_queue' \in Queue /\ QueueSound(out_queue') /\ sdp' \in Packet
         /\ next_rr_id' \in 0..(RrIds - 1) /\ accepted' \in Seq(Packet)
         /\ \/ UNCHANGED <<out_queue, accepted, event>>
            \/ /\ Items(out_queue') = Append(Items(out_queue), p)
               /\ accepted' = Append(accepted, p) /\ event' = TRUE
<1>1. sdp' \in Packet /\ next_rr_id' = p.rr_id
  <2>1. next_rr_id' = p.rr_id /\ (sdp' = p \/ sdp' = [p EXCEPT !.call_id = NoCall])
    BY DEF Enqueue
  <2>2. [p EXCEPT !.call_id = NoCall] \in Packet
    BY DEF Packet
  <2> QED
    BY <2>1, <2>2
<1>0. \/ UNCHANGED <<out_queue, accepted, event>>
      \/ /\ CanPush(out_queue) /\ out_queue' = Push(out_queue, p)
         /\ accepted' = Append(accepted, p) /\ event' = TRUE
  BY DEF Enqueue
<1>2. CASE /\ CanPush(out_queue) /\ out_queue' = Push(out_queue, p)
           /\ accepted' = Append(accepted, p) /\ event' = TRUE
  <2>1. out_queue' = Push(out_queue, p) /\ accepted' = Append(accepted, p) /\ event' = TRUE
    BY <1>2
  <2>2. /\ Push(out_queue, p) \in Queue /\ QueueSound(Push(out_queue, p))
        /\ Items(Push(out_queue, p)) = Append(Items(out_queue), p)
    BY <1>2, PushProps DEF DataInv, QueuesSound
  <2>3. accepted' \in Seq(Packet)
    BY <2>1 DEF DataInv
  <2> QED
    BY <1>1, <2>1, <2>2, <2>3
<1>3. CASE UNCHANGED <<out_queue, accepted, event>>
  BY <1>1, <1>3 DEF DataInv, QueuesSound
<1> QED
  BY <1>0, <1>2, <1>3

\* A frame fits the empty out buffer.
LEMMA OutAppendWhole ==
  ASSUME out = <<>>, NEW p \in Packet
  PROVE  OutAppend(p) = Units(p) /\ ~AppendFails
<1>1. Len(out) = 0 /\ BufferMax \in Nat /\ BufferMax - 1 >= 2
  BY SrpcAssumption
<1>2. ~AppendFails
  BY <1>1 DEF AppendFails
<1>3. Least(2, BufferMax - 1 - Len(out)) = 2
  BY <1>1 DEF Least
<1>4. Units(p) \in Seq(Unit) /\ Len(Units(p)) = 2
  BY UnitsProps
<1> DEFINE u == Units(p)
<1> HIDE DEF u
<1>5. u \in Seq(Unit) /\ Len(u) = 2
  BY <1>4 DEF u
<1>6. First(u, 2) = u
  BY <1>5 DEF First
<1>7. out \o u = u
  BY <1>5
<1> QED
  BY <1>2, <1>3, <1>6, <1>7 DEF OutAppend, u

\* A buffer of at most one frame is written at once.
LEMMA SendAll ==
  ASSUME NEW buf \in Seq(Unit), Len(buf) <= 2, NEW q, Send(buf, q), written \in Seq(Unit)
  PROVE  /\ out' = <<>> /\ written' \in Seq(Unit) /\ Return(TRUE)
         /\ event' = (event \/ q.item_count > 0 \/ more)
         /\ \/ lost' = TRUE
            \/ lost' = lost /\ (~lost => written' = written \o buf)
<1> DEFINE n == Least(Chunk, Len(buf))
<1>1. Chunk \in Nat /\ Chunk >= 2 /\ Len(buf) \in Nat
  BY SrpcAssumption
<1>2. n = Len(buf)
  BY <1>1 DEF Least
<1> HIDE DEF n
<1>3. /\ \/ UNCHANGED lost /\ written' = written \o First(buf, IF lost THEN 0 ELSE n)
         \/ n > 0 /\ lost' = TRUE /\ UNCHANGED written
      /\ out' = Rest(buf, n) /\ RaiseEvent(out', q) /\ Return(TRUE)
  BY DEF Send, n
<1>4. Rest(buf, n) = <<>>
  BY <1>1, <1>2 DEF Rest
<1>5. out' = <<>>
  BY <1>3, <1>4
<1>6. event' = (event \/ q.item_count > 0 \/ more)
  BY <1>3, <1>5 DEF RaiseEvent
<1>7. /\ First(buf, n) = buf /\ First(buf, n) \in Seq(Unit)
      /\ First(buf, 0) \in Seq(Unit)
  <2>1. n \in 0..Len(buf) /\ 0 \in 0..Len(buf)
    BY <1>1, <1>2
  <2>2. First(buf, n) \in Seq(Unit) /\ First(buf, 0) \in Seq(Unit)
    BY <2>1, FirstProps
  <2>3. First(buf, n) = buf
    BY <1>1, <1>2 DEF First
  <2> QED
    BY <2>2, <2>3
<1>8. First(buf, IF lost THEN 0 ELSE n) \in Seq(Unit)
  BY <1>7
<1>9. written' \in Seq(Unit)
  <2> DEFINE f == First(buf, IF lost THEN 0 ELSE n)
  <2> HIDE DEF f
  <2>1. f \in Seq(Unit)
    BY <1>8 DEF f
  <2>2. written \o f \in Seq(Unit)
    BY <2>1
  <2> QED
    BY <1>3, <2>2 DEF f
<1>10. lost' = TRUE \/ (lost' = lost /\ (~lost => written' = written \o buf))
  BY <1>3, <1>7
<1> QED
  BY <1>3, <1>5, <1>6, <1>9, <1>10

dvars == <<in_queue, out_queue, sdp, next_rr_id, out, written, accepted, handled>>

LEMMA InitData == Init => DataInv /\ ThreadInv
<1> SUFFICES ASSUME Init PROVE DataInv /\ ThreadInv
  OBVIOUS
<1>1. Zero \in Packet
  BY SrpcAssumption DEF Zero, Packet
<1>2. /\ in_queue = EmptyQueue /\ out_queue = EmptyQueue
      /\ in_queue \in Queue /\ out_queue \in Queue /\ QueuesSound
  BY EmptySound DEF Init, QueuesSound
<1>3. DataInv
  BY <1>1, <1>2, SrpcAssumption DEF Init, DataInv
<1>4. pc \in PcValues /\ args \in Packet /\ unread \subseteq {"rr_id", "call_id"} /\ nested \in Nat
  BY <1>1 DEF Init, PcValues
<1>5. closed_by_peer \in BOOLEAN /\ more \in BOOLEAN /\ event \in BOOLEAN /\ lost \in BOOLEAN
  BY DEF Init
<1> QED
  BY <1>3, <1>4, <1>5 DEF ThreadInv

LEMMA SameData ==
  ASSUME DataInv, UNCHANGED dvars
  PROVE  DataInv'
BY DEF DataInv, dvars, QueuesSound

\* The numbers srpc_async__call() gives to the calls of this end.
LEMMA EnqueueData ==
  ASSUME DataInv, WireInv, WireInv', NEW n, n = calls', n > 0, Enqueue(OwnPacket(n)),
         UNCHANGED <<in_queue, out, written, handled>>
  PROVE  DataInv'
<1>1. n \in 1..(MaxIn + MaxOut)
  BY CallsBound, SrpcAssumption
<1>2. OwnPacket(n) \in Packet /\ OwnPacket(n).rr_id \in 0..(RrIds - 1)
  BY <1>1, OwnPacketType DEF DataInv
<1> DEFINE p == OwnPacket(n)
<1> HIDE DEF p
<1>3. p \in Packet /\ p.rr_id \in 0..(RrIds - 1) /\ Enqueue(p)
  BY <1>2 DEF p
<1>4. /\ out_queue' \in Queue /\ QueueSound(out_queue') /\ sdp' \in Packet
      /\ next_rr_id' \in 0..(RrIds - 1) /\ accepted' \in Seq(Packet)
  BY <1>3, EnqueueProps
<1> QED
  BY <1>4 DEF DataInv, QueuesSound

\* The packet that sproto_pop_in_sdp found.
LEMMA ReceivedType ==
  ASSUME WireInv, PopInSdp(Appended) = "TRUE"
  PROVE  /\ Appended[1].packet \in Packet /\ Appended[1] = stream[1]
         /\ Len(Appended) >= 2 /\ Appended[1].part = "head"
<1>1. /\ Appended \in Seq(Unit) /\ Len(Appended) \in Nat
      /\ \A i \in 1..Len(Appended) : Appended[i] = stream[i]
  BY AmountType
<1>2. Len(Appended) >= 2 /\ Appended[1].part = "head"
  BY <1>1, PopInSdpProps
<1>3. 1 \in 1..Len(Appended)
  BY <1>1, <1>2
<1>4. Appended[1] \in Unit
  BY <1>1, <1>3
<1> QED
  BY <1>1, <1>2, <1>3, <1>4 DEF Unit

LEMMA NextData == WireInv /\ WireInv' /\ DataInv /\ [Next]_vars => DataInv'
<1> SUFFICES ASSUME WireInv, WireInv', DataInv, [Next]_vars PROVE DataInv'
  OBVIOUS
<1> USE DEF wire, local, hist
<1>1. CASE \/ \E k \in PacketKind : PeerHead(k)
           \/ PeerTail \/ PeerClose \/ Wake \/ WaitTimeout \/ LoopEnds
           \/ Closed \/ UNCHANGED vars
  BY <1>1, SameData DEF dvars, PeerHead, PeerTail, PeerClose, Wake, WaitTimeout, LoopEnds,
     Closed, vars
<1>2. CASE \/ IterateClosed \/ IterateOverflow \/ IterateNothing \/ IterateDataError
           \/ IterateVersionError \/ GetDataNothing \/ HandlerReturn
           \/ \E f \in {"rr_id", "call_id"} : ReadArgument(f)
  BY <1>2, SameData DEF dvars, IterateClosed, IterateOverflow, IterateNothing,
     IterateDataError, IterateVersionError, GetDataNothing, HandlerReturn, ReadArgument
<1>3. ASSUME NEW c \in Caller, AsyncBegin(c) PROVE DataInv'
  <2>1. Zero \in Packet
    BY SrpcAssumption DEF Zero, Packet
  <2> QED
    BY <1>3, <2>1 DEF AsyncBegin, DataInv, QueuesSound
<1>4. ASSUME NEW c \in Caller, AsyncEnd(c) PROVE DataInv'
  <2>1. calls > 0 /\ calls' = calls /\ Enqueue(OwnPacket(calls))
        /\ UNCHANGED <<in_queue, out, written, handled>>
    BY <1>4 DEF AsyncEnd, WireInv
  <2> QED
    BY <2>1, EnqueueData
<1>5. CASE HandlerReply \/ VersionReply
  <2>1. calls' = calls + 1 /\ Enqueue(OwnPacket(calls'))
        /\ UNCHANGED <<in_queue, out, written, handled>>
    BY <1>5 DEF HandlerReply, VersionReply
  <2>2. calls' > 0
    BY <2>1 DEF WireInv
  <2> QED
    BY <2>1, <2>2, EnqueueData
<1>6. CASE IterateReceive
  <2>1. /\ PopInSdp(Appended) = "TRUE" /\ CanPush(in_queue)
        /\ sdp' = Appended[1].packet /\ in_queue' = Push(in_queue, Appended[1].packet)
        /\ UNCHANGED <<out_queue, next_rr_id, out, written, accepted, handled>>
    BY <1>6 DEF IterateReceive
  <2>2. Appended[1].packet \in Packet
    BY <2>1, ReceivedType
  <2> DEFINE p == Appended[1].packet
  <2> HIDE DEF p
  <2>3. p \in Packet /\ in_queue' = Push(in_queue, p) /\ sdp' = p
    BY <2>1, <2>2 DEF p
  <2>4. Push(in_queue, p) \in Queue /\ QueueSound(Push(in_queue, p))
    BY <2>1, <2>3, PushProps DEF DataInv, QueuesSound
  <2> QED
    BY <2>1, <2>3, <2>4 DEF DataInv, QueuesSound
<1>7. CASE IterateQueueFull
  <2>1. /\ PopInSdp(Appended) = "TRUE" /\ sdp' = Appended[1].packet
        /\ UNCHANGED <<in_queue, out_queue, next_rr_id, out, written, accepted, handled>>
    BY <1>7 DEF IterateQueueFull
  <2>2. sdp' \in Packet
    BY <2>1, ReceivedType
  <2> QED
    BY <2>1, <2>2 DEF DataInv, QueuesSound
<1>8. CASE GetData
  <2>1. PICK a \in Slots : /\ a < in_queue.item_count /\ in_queue' = Pop(in_queue, a)
                           /\ sdp' = in_queue.item[a]
                           /\ handled' = handled \/ handled' = Append(handled, sdp')
    BY <1>8 DEF GetData, FirstMatch
  <2>2. /\ Pop(in_queue, a) \in Queue /\ QueueSound(Pop(in_queue, a))
        /\ in_queue.item[a] \in Packet
    BY <2>1, PopProps DEF DataInv, QueuesSound
  <2>3. handled' \in Seq(Packet)
    BY <2>1, <2>2 DEF DataInv
  <2>4. UNCHANGED <<out_queue, next_rr_id, out, written, accepted>>
    BY <1>8 DEF GetData
  <2> QED
    BY <2>1, <2>2, <2>3, <2>4 DEF DataInv, QueuesSound
<1>9. CASE IterateOutPacket
  <2>1. /\ out_queue.item_count > 0 /\ out_queue' = Pop(out_queue, 0)
        /\ sdp' = out_queue.item[0]
        /\ UNCHANGED <<in_queue, next_rr_id, accepted, handled>>
    BY <1>9 DEF IterateOutPacket
  <2>2. /\ Pop(out_queue, 0) \in Queue /\ QueueSound(Pop(out_queue, 0))
        /\ out_queue.item[0] \in Packet
    BY <2>1, PopFirst DEF DataInv, QueuesSound
  <2>3. ~AppendFails /\ OutAppend(sdp') = Units(sdp')
    BY <2>1, <2>2, OutAppendWhole DEF DataInv
  <2>4. Send(Units(sdp'), out_queue')
    BY <1>9, <2>3 DEF IterateOutPacket
  <2>5. Units(sdp') \in Seq(Unit) /\ Len(Units(sdp')) <= 2
    <3>1. sdp' \in Packet
      BY <2>1, <2>2
    <3>2. Units(sdp') \in Seq(Unit) /\ Len(Units(sdp')) = 2
      BY <3>1, UnitsProps
    <3> QED
      BY <3>2
  <2>6. out' = <<>> /\ written' \in Seq(Unit)
    BY <2>4, <2>5, SendAll DEF DataInv
  <2> QED
    BY <2>1, <2>2, <2>6 DEF DataInv, QueuesSound
<1>10. CASE IterateOutRest
  <2>1. Send(out, out_queue) /\ UNCHANGED <<in_queue, out_queue, sdp, next_rr_id, accepted, handled>>
    BY <1>10 DEF IterateOutRest
  <2>2. out \in Seq(Unit) /\ Len(out) <= 2
    BY DEF DataInv
  <2>3. out' = <<>> /\ written' \in Seq(Unit)
    BY <2>1, <2>2, SendAll DEF DataInv
  <2> QED
    BY <2>1, <2>3 DEF DataInv, QueuesSound
<1> QED
  BY <1>1, <1>2, <1>3, <1>4, <1>5, <1>6, <1>7, <1>8, <1>9, <1>10 DEF Next, Iterate

LEMMA DataCorrect == Spec => []DataInv
<1>1. Init => DataInv
  BY InitData
<1> QED
  BY <1>1, NextData, WireCorrect, PTL DEF Spec

LEMMA NextThread == DataInv /\ ThreadInv /\ [Next]_vars => ThreadInv'
<1> SUFFICES ASSUME DataInv, ThreadInv, [Next]_vars PROVE ThreadInv'
  OBVIOUS
<1> USE DEF wire, local, hist
\* The Boolean variables.
<1>1. closed_by_peer' \in BOOLEAN
  <2>1. closed_by_peer' = closed_by_peer \/ closed_by_peer' = TRUE
    BY DEF Next, PeerHead, PeerTail, PeerClose, AsyncBegin, AsyncEnd, Wake, WaitTimeout,
       LoopEnds, Closed, Iterate, IterateClosed, IterateOverflow, IterateNothing,
       IterateReceive, IterateQueueFull, IterateDataError, IterateVersionError, VersionReply, ReadArgument,
       GetData, GetDataNothing, HandlerReply, HandlerReturn, IterateOutPacket,
       IterateOutRest, vars
  <2> QED
    BY <2>1 DEF ThreadInv
<1>2. more' \in BOOLEAN
  <2>1. more' = more \/ more' = FALSE \/ more' = (in' # <<>>)
    BY DEF Next, PeerHead, PeerTail, PeerClose, AsyncBegin, AsyncEnd, Wake, WaitTimeout,
       LoopEnds, Closed, Iterate, IterateClosed, IterateOverflow, IterateNothing,
       IterateReceive, IterateQueueFull, IterateDataError, IterateVersionError, VersionReply, ReadArgument,
       GetData, GetDataNothing, HandlerReply, HandlerReturn, IterateOutPacket,
       IterateOutRest, vars
  <2> QED
    BY <2>1 DEF ThreadInv
<1>3. lost' \in BOOLEAN
  <2>1. lost' = lost \/ lost' = TRUE
    BY DEF Next, PeerHead, PeerTail, PeerClose, AsyncBegin, AsyncEnd, Wake, WaitTimeout,
       LoopEnds, Closed, Iterate, IterateClosed, IterateOverflow, IterateNothing,
       IterateReceive, IterateQueueFull, IterateDataError, IterateVersionError, VersionReply, ReadArgument,
       GetData, GetDataNothing, HandlerReply, HandlerReturn, IterateOutPacket,
       IterateOutRest, Send, vars
  <2> QED
    BY <2>1 DEF ThreadInv
<1>4. event' \in BOOLEAN
  <2>1. \/ event' = event \/ event' = TRUE \/ event' = FALSE
        \/ RaiseEvent(out', out_queue') \/ RaiseEvent(out', out_queue)
    BY DEF Next, PeerHead, PeerTail, PeerClose, AsyncBegin, AsyncEnd, Wake, WaitTimeout,
       LoopEnds, Closed, Iterate, IterateClosed, IterateOverflow, IterateNothing,
       IterateReceive, IterateQueueFull, IterateDataError, IterateVersionError, VersionReply, ReadArgument,
       GetData, GetDataNothing, HandlerReply, HandlerReturn, IterateOutPacket,
       IterateOutRest, Send, Enqueue, vars
  <2> QED
    BY <2>1 DEF ThreadInv, RaiseEvent
\* Where the thread is.
<1>5. nested' \in Nat
  <2>1. nested \in Nat /\ Nested \in Nat
    BY SrpcAssumption DEF ThreadInv
  <2>2. \A ok \in BOOLEAN : Return(ok) => nested' \in Nat
    BY <2>1, ReturnType
  <2>3. \/ nested' = nested \/ nested' = Nested + (IF nested > 0 THEN nested - 1 ELSE 0)
        \/ \E ok \in BOOLEAN : Return(ok)
    BY DEF Next, PeerHead, PeerTail, PeerClose, AsyncBegin, AsyncEnd, Wake, WaitTimeout,
       LoopEnds, Closed, Iterate, IterateClosed, IterateOverflow, IterateNothing,
       IterateReceive, IterateQueueFull, IterateDataError, IterateVersionError, VersionReply, ReadArgument,
       GetData, GetDataNothing, HandlerReply, HandlerReturn, IterateOutPacket,
       IterateOutRest, Send, vars
  <2> QED
    BY <2>1, <2>2, <2>3
<1>6. pc' \in PcValues
  <2>1. \A ok \in BOOLEAN : Return(ok) => pc' \in PcValues
    BY ReturnType DEF ThreadInv, PcValues
  <2>2. pc' = pc \/ pc' \in PcValues \/ \E ok \in BOOLEAN : Return(ok)
    BY DEF Next, PeerHead, PeerTail, PeerClose, AsyncBegin, AsyncEnd, Wake, WaitTimeout,
       LoopEnds, Closed, Iterate, IterateClosed, IterateOverflow, IterateNothing,
       IterateReceive, IterateQueueFull, IterateDataError, IterateVersionError, VersionReply, ReadArgument,
       GetData, GetDataNothing, HandlerReply, HandlerReturn, IterateOutPacket,
       IterateOutRest, Send, vars, PcValues
  <2> QED
    BY <2>1, <2>2 DEF ThreadInv
\* The arguments of on_remote_call_received.
<1>7. args' \in Packet /\ unread' \subseteq {"rr_id", "call_id"}
  <2>1. CASE ReadArgument("rr_id")
    <3>1. args' = [args EXCEPT !.rr_id = sdp.rr_id] /\ unread' = unread \ {"rr_id"}
      BY <2>1 DEF ReadArgument
    <3> QED
      BY <3>1 DEF ThreadInv, DataInv, Packet
  <2>2. CASE ReadArgument("call_id")
    <3>1. args' = [args EXCEPT !.call_id = sdp.call_id] /\ unread' = unread \ {"call_id"}
      BY <2>2 DEF ReadArgument
    <3> QED
      BY <3>1 DEF ThreadInv, DataInv, Packet
  <2>3. CASE IterateReceive
    <3>1. Zero \in Packet
      BY SrpcAssumption DEF Zero, Packet
    <3> QED
      BY <2>3, <3>1 DEF IterateReceive
  <2>4. CASE UNCHANGED <<args, unread>>
    BY <2>4 DEF ThreadInv
  <2>5. \/ ReadArgument("rr_id") \/ ReadArgument("call_id") \/ IterateReceive
        \/ UNCHANGED <<args, unread>>
    BY DEF Next, PeerHead, PeerTail, PeerClose, AsyncBegin, AsyncEnd, Wake, WaitTimeout,
       LoopEnds, Closed, Iterate, IterateClosed, IterateOverflow, IterateNothing,
       IterateQueueFull, IterateDataError, IterateVersionError,
       VersionReply, GetData, GetDataNothing, HandlerReply, HandlerReturn, IterateOutPacket,
       IterateOutRest, vars
  <2> QED
    BY <2>1, <2>2, <2>3, <2>4, <2>5
<1> QED
  BY <1>1, <1>2, <1>3, <1>4, <1>5, <1>6, <1>7 DEF ThreadInv

LEMMA ThreadCorrect == Spec => []ThreadInv
<1>1. Init => ThreadInv
  BY InitData
<1> QED
  BY <1>1, NextThread, DataCorrect, PTL DEF Spec

\* Every variable keeps its type.  That the calls of this end stay within
\* their bound, and that srpc_queue_pop always returns a packet, takes the
\* order of the peer's stream and the soundness of the queues.
THEOREM TypeCorrect == Spec => []TypeOK
<1>1. WireInv /\ DataInv /\ ThreadInv => TypeOK
  <2> SUFFICES ASSUME WireInv, DataInv, ThreadInv PROVE TypeOK
    OBVIOUS
  <2>1. calls \in 0..(MaxIn + MaxOut)
    BY SentType
  <2>2. out \in Seq(Unit)
    BY DEF DataInv
  <2> QED
    BY <2>1, <2>2 DEF WireInv, DataInv, ThreadInv, TypeOK, PeerCalls, PcValues
<1> QED
  BY <1>1, WireCorrect, DataCorrect, ThreadCorrect, PTL

\* The queues own the memory of every packet they hold, whichever thread
\* pushes and whichever packet srpc_getdata takes out, and alloc_count does
\* not run over.
THEOREM QueuesSoundHolds == Spec => []QueuesSound
<1>1. DataInv => QueuesSound
  BY DEF DataInv
<1> QED
  BY <1>1, DataCorrect, PTL

----------------------------------------------------------------------------
(* The way out *)

\* A step takes u from the front of the out queue and writes it, or loses
\* part of it...
Writes(u) ==
  /\ UNCHANGED accepted
  /\ Wire(Items(out_queue)) = u \o Wire(Items(out_queue'))
  /\ lost' = TRUE \/ (lost' = lost /\ (~lost => written' = written \o u))

\* ... or accepts the call p.
Accepts(p) ==
  /\ p.rr_id # 0 /\ accepted' = Append(accepted, p)
  /\ Items(out_queue') = Append(Items(out_queue), p)
  /\ UNCHANGED <<written, lost>>

LEMMA QueueWire ==
  ASSUME DataInv
  PROVE  Items(out_queue) \in Seq(Packet) /\ Wire(Items(out_queue)) \in Seq(Unit)
<1>1. Items(out_queue) \in Seq(Packet)
  BY ItemsType DEF DataInv, QueuesSound
<1> QED
  BY <1>1, WireProps

LEMMA KeepOut ==
  ASSUME DataInv, UNCHANGED <<out_queue, accepted, written, lost>>
  PROVE  Writes(<<>>)
<1>1. Wire(Items(out_queue)) \in Seq(Unit)
  BY QueueWire
<1> DEFINE w == Wire(Items(out_queue))
<1>2. Wire(Items(out_queue')) = w
  OBVIOUS
<1> HIDE DEF w
<1>3. w = <<>> \o w /\ written = written \o <<>>
  BY <1>1 DEF w, DataInv
<1> QED
  BY <1>2, <1>3 DEF Writes, w

LEMMA EnqueueOut ==
  ASSUME WireInv', DataInv, NEW n, n = calls', n > 0, Enqueue(OwnPacket(n)),
         UNCHANGED <<written, lost>>
  PROVE  Writes(<<>>) \/ \E p \in Packet : Accepts(p)
<1>1. n \in 1..(MaxIn + MaxOut)
  BY CallsBound, SrpcAssumption
<1>2. /\ OwnPacket(n) \in Packet /\ OwnPacket(n).rr_id # 0
      /\ OwnPacket(n).rr_id \in 0..(RrIds - 1)
  BY <1>1, OwnPacketType DEF DataInv
<1> DEFINE p == OwnPacket(n)
<1> HIDE DEF p
<1>3. p \in Packet /\ p.rr_id # 0 /\ p.rr_id \in 0..(RrIds - 1) /\ Enqueue(p)
  BY <1>2 DEF p
<1>4. \/ UNCHANGED <<out_queue, accepted, event>>
      \/ /\ Items(out_queue') = Append(Items(out_queue), p)
         /\ accepted' = Append(accepted, p)
  BY <1>3, EnqueueProps
<1> QED
  BY <1>3, <1>4, KeepOut DEF Accepts

LEMMA OutSteps ==
  ASSUME WireInv, WireInv', DataInv, [Next]_vars
  PROVE  (\E u \in Seq(Unit) : Writes(u)) \/ (\E p \in Packet : Accepts(p))
<1> USE DEF wire, local, hist
<1>0. <<>> \in Seq(Unit)
  OBVIOUS
<1>1. CASE UNCHANGED <<out_queue, accepted, written, lost>>
  BY <1>0, <1>1, KeepOut
<1>2. ASSUME NEW c \in Caller, AsyncEnd(c)
      PROVE  (\E u \in Seq(Unit) : Writes(u)) \/ (\E p \in Packet : Accepts(p))
  <2>1. calls > 0 /\ calls' = calls /\ Enqueue(OwnPacket(calls)) /\ UNCHANGED <<written, lost>>
    BY <1>2 DEF AsyncEnd, WireInv
  <2> QED
    BY <1>0, <2>1, EnqueueOut
<1>3. CASE HandlerReply \/ VersionReply
  <2>1. calls' = calls + 1 /\ Enqueue(OwnPacket(calls')) /\ UNCHANGED <<written, lost>>
    BY <1>3 DEF HandlerReply, VersionReply
  <2>2. calls' > 0
    BY <2>1 DEF WireInv
  <2> QED
    BY <1>0, <2>1, <2>2, EnqueueOut
<1>4. CASE IterateOutPacket
  <2>1. /\ out_queue.item_count > 0 /\ out_queue' = Pop(out_queue, 0)
        /\ sdp' = out_queue.item[0] /\ UNCHANGED accepted
    BY <1>4 DEF IterateOutPacket
  <2>2. /\ out_queue.item[0] \in Packet
        /\ Wire(Items(out_queue)) = Units(out_queue.item[0]) \o Wire(Items(Pop(out_queue, 0)))
    BY <2>1, PopFirst DEF DataInv, QueuesSound
  <2>3. ~AppendFails /\ OutAppend(sdp') = Units(sdp')
    BY <2>1, <2>2, OutAppendWhole DEF DataInv
  <2>4. Send(Units(sdp'), out_queue')
    BY <1>4, <2>3 DEF IterateOutPacket
  <2>5. sdp' \in Packet
    BY <2>1, <2>2
  <2>6. Units(sdp') \in Seq(Unit) /\ Len(Units(sdp')) = 2
    BY <2>5, UnitsProps
  <2>7. Len(Units(sdp')) <= 2
    BY <2>6
  <2>8. lost' = TRUE \/ (lost' = lost /\ (~lost => written' = written \o Units(sdp')))
    BY <2>4, <2>6, <2>7, SendAll DEF DataInv
  <2>9. Writes(Units(sdp'))
    BY <2>1, <2>2, <2>8 DEF Writes
  <2> QED
    BY <2>6, <2>9
<1>5. CASE IterateOutRest
  <2>1. Send(<<>>, out_queue) /\ UNCHANGED <<out_queue, accepted>>
    BY <1>5 DEF IterateOutRest, DataInv
  <2>2. Len(<<>>) <= 2
    OBVIOUS
  <2>3. lost' = TRUE \/ (lost' = lost /\ (~lost => written' = written \o <<>>))
    BY <1>0, <2>1, <2>2, SendAll DEF DataInv
  <2> DEFINE w == Wire(Items(out_queue))
  <2>4. w \in Seq(Unit) /\ Wire(Items(out_queue')) = w
    BY <2>1, QueueWire
  <2> HIDE DEF w
  <2>5. w = <<>> \o w
    BY <2>4
  <2>6. Writes(<<>>)
    BY <2>1, <2>3, <2>4, <2>5 DEF Writes, w
  <2> QED
    BY <1>0, <2>6
<1>6. \/ UNCHANGED <<out_queue, accepted, written, lost>>
      \/ (\E c \in Caller : AsyncEnd(c)) \/ HandlerReply \/ VersionReply
      \/ IterateOutPacket \/ IterateOutRest
  BY DEF Next, PeerHead, PeerTail, PeerClose, AsyncBegin, Wake, WaitTimeout,
     LoopEnds, Closed, Iterate, IterateClosed, IterateOverflow, IterateNothing,
     IterateReceive, IterateQueueFull, IterateDataError, IterateVersionError, ReadArgument,
     GetData, GetDataNothing, HandlerReturn, vars
<1> QED
  BY <1>1, <1>2, <1>3, <1>4, <1>5, <1>6

\* No accepted call has rr_id 0: srpc_async__call() returns 0 only for a call
\* that is not in the out queue, also when the counter has gone round.
THEOREM AcceptedHasRrIdHolds == Spec => []AcceptedHasRrId
<1>1. Init => AcceptedHasRrId
  BY DEF Init, AcceptedHasRrId
<1>2. WireInv /\ WireInv' /\ DataInv /\ AcceptedHasRrId /\ [Next]_vars => AcceptedHasRrId'
  <2> SUFFICES ASSUME WireInv, WireInv', DataInv, AcceptedHasRrId, [Next]_vars
               PROVE  AcceptedHasRrId'
    OBVIOUS
  <2>1. ASSUME NEW u \in Seq(Unit), Writes(u) PROVE AcceptedHasRrId'
    BY <2>1 DEF Writes, AcceptedHasRrId
  <2>2. ASSUME NEW p \in Packet, Accepts(p) PROVE AcceptedHasRrId'
    <3>1. accepted \in Seq(Packet) /\ accepted' = Append(accepted, p) /\ p.rr_id # 0
      BY <2>2 DEF DataInv, Accepts
    <3> QED
      BY <3>1 DEF AcceptedHasRrId
  <2> QED
    BY <2>1, <2>2, OutSteps
<1> QED
  BY <1>1, <1>2, WireCorrect, DataCorrect, PTL DEF Spec

\* What is written and what waits make up the frames of the accepted calls.
OutInv == ~lost => written \o Wire(Items(out_queue)) = Wire(accepted)

LEMMA Assoc ==
  ASSUME NEW x \in Seq(Unit), NEW y \in Seq(Unit), NEW z \in Seq(Unit)
  PROVE  (x \o y) \o z = x \o (y \o z) /\ x \o <<>> = x
BY ConcatAssociative, ConcatEmptySeq

LEMMA NextOut == WireInv /\ WireInv' /\ DataInv /\ DataInv' /\ OutInv /\ [Next]_vars => OutInv'
<1> SUFFICES ASSUME WireInv, WireInv', DataInv, DataInv', OutInv, [Next]_vars, ~lost'
             PROVE  written' \o Wire(Items(out_queue')) = Wire(accepted')
  BY DEF OutInv
<1> DEFINE w == Wire(Items(out_queue))
           v == Wire(Items(out_queue'))
<1>0. /\ Items(out_queue) \in Seq(Packet) /\ w \in Seq(Unit) /\ written \in Seq(Unit)
      /\ accepted \in Seq(Packet) /\ Wire(accepted) \in Seq(Unit)
  BY QueueWire, WireProps DEF DataInv
<1>1. v \in Seq(Unit)
  <2>1. Items(out_queue') \in Seq(Packet)
    BY ItemsType DEF DataInv, QueuesSound
  <2> QED
    BY <2>1, WireProps
<1>2. ASSUME NEW u \in Seq(Unit), Writes(u) PROVE written' \o v = Wire(accepted')
  <2>1. ~lost /\ written' = written \o u /\ w = u \o v /\ accepted' = accepted
    BY <1>2 DEF Writes
  <2>2. written \o w = Wire(accepted)
    BY <2>1 DEF OutInv
  <2> HIDE DEF w, v
  <2>3. (written \o u) \o v = written \o (u \o v)
    <3>1. written \in Seq(Unit) /\ u \in Seq(Unit) /\ v \in Seq(Unit)
      BY <1>0, <1>1
    <3> QED
      BY <3>1, Assoc, Zenon
  <2> QED
    BY <2>1, <2>2, <2>3
<1>3. ASSUME NEW p \in Packet, Accepts(p) PROVE written' \o v = Wire(accepted')
  <2>1. /\ ~lost /\ written' = written /\ accepted' = Append(accepted, p)
        /\ Items(out_queue') = Append(Items(out_queue), p)
    BY <1>3 DEF Accepts
  <2>2. v = w \o Units(p)
    BY <1>0, <2>1, WireAppend
  <2>3. Wire(accepted') = Wire(accepted) \o Units(p)
    BY <1>0, <2>1, WireAppend
  <2>4. written \o w = Wire(accepted)
    BY <2>1 DEF OutInv
  <2>5. Units(p) \in Seq(Unit)
    BY UnitsProps
  <2> HIDE DEF w, v
  <2>6. (written \o w) \o Units(p) = written \o (w \o Units(p))
    <3>1. written \in Seq(Unit) /\ w \in Seq(Unit) /\ Units(p) \in Seq(Unit)
      BY <1>0, <2>5
    <3> QED
      BY <3>1, Assoc, Zenon
  <2> QED
    BY <2>1, <2>2, <2>3, <2>4, <2>6
<1> QED
  BY <1>2, <1>3, OutSteps

\* Every accepted call goes to the peer once and in order: what the kernel
\* took, the out buffer and the out queue are the frames of the accepted calls,
\* as long as no write was cut short.
THEOREM OutStreamHolds == Spec => []OutStream
<1>1. Init => OutInv
  <2> SUFFICES ASSUME Init PROVE OutInv
    OBVIOUS
  <2>1. DataInv
    BY InitData
  <2>2. accepted = <<>> /\ written = <<>> /\ Items(out_queue) \in Seq(Packet)
        /\ Len(Items(out_queue)) = 0
    <3>1. out_queue.item_count = 0 /\ accepted = <<>> /\ written = <<>>
      BY DEF Init, EmptyQueue
    <3>2. Items(out_queue) \in Seq(Packet) /\ Len(Items(out_queue)) = out_queue.item_count
      BY <2>1, ItemsType DEF DataInv, QueuesSound
    <3> QED
      BY <3>1, <3>2
  <2>3. Items(out_queue) = <<>>
    BY <2>2
  <2>4. Wire(<<>>) \in Seq(Unit)
    <3>1. accepted \in Seq(Packet)
      BY <2>1 DEF DataInv
    <3>2. Wire(accepted) \in Seq(Unit)
      BY <3>1, WireProps
    <3> QED
      BY <2>2, <3>2
  <2> DEFINE w == Wire(<<>>)
  <2> HIDE DEF w
  <2>5. w \in Seq(Unit)
    BY <2>4 DEF w
  <2>6. <<>> \o w = w
    BY <2>5
  <2> QED
    BY <2>2, <2>3, <2>6 DEF OutInv, w
<1>2. DataInv /\ OutInv => OutStream
  <2> SUFFICES ASSUME DataInv, OutInv, ~lost
               PROVE  written \o out \o Wire(Items(out_queue)) = Wire(accepted)
    BY DEF OutStream
  <2>1. out = <<>> /\ written \in Seq(Unit)
    BY DEF DataInv
  <2>2. written \o out = written
    BY <2>1
  <2> QED
    BY <2>2 DEF OutInv
<1> QED
  BY <1>1, <1>2, NextOut, WireCorrect, DataCorrect, PTL DEF Spec

----------------------------------------------------------------------------
(* The way in *)

Framed == nested = 0 /\ pc # "closed"

\* The stream is cut, and while it is not given up only whole frames are
\* taken from its front.
Takes ==
  /\ UNCHANGED <<peer, half>>
  /\ \E a, d : /\ IsCut(stream', stream, a, d)
               /\ Framed' => Framed /\ a = 0 /\ (d = 0 \/ d = 2)

LEMMA ReturnFramed ==
  ASSUME ThreadInv, NEW ok, Return(ok)
  PROVE  Framed' => (Framed /\ ok) \/ pc = "closed"
BY DEF ThreadInv, Return, Framed

LEMMA SameTakes ==
  ASSUME WireInv, UNCHANGED <<peer, half, in, sock>>, Framed' => Framed
  PROVE  Takes
<1>1. stream' = stream /\ stream \in Seq(Unit) /\ Len(stream) \in Nat
  BY StreamType DEF stream, WireInv
<1>2. IsCut(stream', stream, 0, 0)
  BY <1>1 DEF IsCut
<1> QED
  BY <1>2 DEF Takes

\* Every step takes from the stream or is a unit of the peer that arrives.
LEMMA StreamSteps ==
  ASSUME WireInv, ThreadInv, [Next]_vars
  PROVE  Takes \/ (UNCHANGED <<in, nested, pc>> /\ \E u \in Unit : Sends(u))
<1> USE DEF wire, local, hist
<1>1. CASE PeerTail \/ \E k \in PacketKind : PeerHead(k)
  <2>1. UNCHANGED <<in, nested, pc>>
    BY <1>1 DEF PeerHead, PeerTail
  <2> QED
    BY <1>1, <2>1, PeerHeadWire, PeerTailWire
<1>2. CASE PeerClose \/ Wake \/ WaitTimeout \/ LoopEnds \/ Closed \/ UNCHANGED vars
           \/ \E c \in Caller : AsyncBegin(c) \/ AsyncEnd(c)
  BY <1>2, SameTakes DEF PeerClose, Wake, WaitTimeout, LoopEnds, Closed, AsyncBegin, AsyncEnd,
     vars, Framed
<1>3. CASE GetData \/ GetDataNothing \/ HandlerReturn \/ HandlerReply \/ VersionReply
           \/ \E f \in {"rr_id", "call_id"} : ReadArgument(f)
  BY <1>3, SameTakes DEF GetData, GetDataNothing, HandlerReturn, HandlerReply, VersionReply,
     ReadArgument, Framed
<1>4. CASE IterateOutPacket \/ IterateOutRest \/ IterateClosed
  <2>1. pc # "closed" /\ (Return(TRUE) \/ Return(FALSE)) /\ UNCHANGED <<peer, half, in, sock>>
    BY <1>4 DEF IterateOutPacket, IterateOutRest, IterateClosed, Send
  <2>2. Framed' => Framed
    BY <2>1, ReturnFramed
  <2> QED
    BY <2>1, <2>2, SameTakes
<1>5. CASE IterateNothing
  <2>1. /\ sock' = Rest(sock, Amount) /\ in' = Appended
        /\ pc = "in" /\ UNCHANGED <<peer, half, nested>>
    BY <1>5 DEF IterateNothing, Reads
  <2>2. IsCut(stream', stream, 0, 0)
    BY <2>1, ReadCut
  <2>3. Framed' => Framed
    BY <2>1 DEF Framed
  <2> QED
    BY <2>1, <2>2, <2>3 DEF Takes
<1>6. CASE IterateReceive \/ IterateQueueFull
  <2>1. /\ sock' = Rest(sock, Amount) /\ in' = Rest(Appended, 2) /\ pc = "in"
        /\ UNCHANGED <<peer, half>> /\ PopInSdp(Appended) = "TRUE"
        /\ nested' = nested \/ Return(FALSE)
    BY <1>6 DEF IterateReceive, IterateQueueFull, Reads
  <2>2. Len(Appended) >= 2
    BY <2>1, ReceivedType
  <2>3. IsCut(stream', stream, 0, 2)
    BY <2>1, <2>2, ReadCut
  <2>4. Framed' => Framed
    BY <2>1, ReturnFramed DEF Framed
  <2> QED
    BY <2>1, <2>3, <2>4 DEF Takes
<1>7. CASE IterateDataError \/ IterateVersionError
  <2>1. /\ sock' = Rest(sock, Amount) /\ in' = <<>> /\ pc = "in" /\ UNCHANGED <<peer, half>>
        /\ Return(FALSE) \/ nested' = Nested + (IF nested > 0 THEN nested - 1 ELSE 0)
    BY <1>7 DEF IterateDataError, IterateVersionError, Reads
  <2>2. IsCut(stream', stream, 0, Len(Appended))
    BY <2>1, ReadCut
  <2>3. nested' = Nested + (IF nested > 0 THEN nested - 1 ELSE 0) => ~Framed'
    BY SrpcAssumption DEF Framed, ThreadInv
  <2>4. ~Framed'
    BY <2>1, <2>3, ReturnFramed
  <2> QED
    BY <2>1, <2>2, <2>4 DEF Takes
<1>8. CASE IterateOverflow
  <2>1. /\ sock' = Rest(sock, Amount) /\ in' = in /\ pc = "in" /\ UNCHANGED <<peer, half>>
        /\ Return(FALSE)
    BY <1>8 DEF IterateOverflow, Reads
  <2>2. IsCut(stream', stream, Len(in), Amount)
    BY <2>1, ReadCut
  <2>3. ~Framed'
    BY <2>1, ReturnFramed
  <2> QED
    BY <2>1, <2>2, <2>3 DEF Takes
<1> QED
  BY <1>1, <1>2, <1>3, <1>4, <1>5, <1>6, <1>7, <1>8 DEF Next, Iterate

LEMMA SendsStream ==
  ASSUME WireInv, NEW u \in Unit, Sends(u), UNCHANGED in
  PROVE  /\ Len(stream') = Len(stream) + 1 /\ stream'[Len(stream) + 1] = u
         /\ \A i \in 1..Len(stream) : stream'[i] = stream[i]
<1>1. in \in Seq(Unit) /\ sock \in Seq(Unit)
  BY DEF WireInv
<1>2. stream' = in \o Append(sock, u)
  BY DEF Sends, stream
<1> DEFINE y == Append(sock, u)
<1>3. /\ y \in Seq(Unit) /\ Len(y) = Len(sock) + 1 /\ y[Len(sock) + 1] = u
      /\ \A i \in 1..Len(sock) : y[i] = sock[i]
  BY <1>1
<1> HIDE DEF y
<1>4. /\ Len(in \o y) = Len(in) + Len(y)
      /\ \A i \in 1..(Len(in) + Len(y)) : (in \o y)[i] = IF i <= Len(in) THEN in[i] ELSE y[i - Len(in)]
  BY <1>1, <1>3, ConcatAt
<1>5. /\ Len(stream) = Len(in) + Len(sock)
      /\ \A i \in 1..(Len(in) + Len(sock)) : stream[i] = IF i <= Len(in) THEN in[i] ELSE sock[i - Len(in)]
  BY <1>1, ConcatAt DEF stream
<1>6. Len(in) \in Nat /\ Len(sock) \in Nat
  BY <1>1
<1>7. stream' = in \o y
  BY <1>2 DEF y
<1>8. Len(stream') = Len(stream) + 1
  BY <1>3, <1>4, <1>5, <1>6, <1>7
<1>9. stream'[Len(stream) + 1] = u
  <2>1. /\ Len(stream) + 1 \in 1..(Len(in) + Len(y)) /\ ~(Len(stream) + 1 <= Len(in))
        /\ (Len(stream) + 1) - Len(in) = Len(sock) + 1
    BY <1>3, <1>5, <1>6
  <2> QED
    BY <1>3, <1>4, <1>7, <2>1
<1>10. ASSUME NEW i \in 1..Len(stream) PROVE stream'[i] = stream[i]
  <2>1. /\ i \in 1..(Len(in) + Len(sock)) /\ i \in 1..(Len(in) + Len(y))
        /\ ~(i <= Len(in)) => i - Len(in) \in 1..Len(sock)
    BY <1>3, <1>5, <1>6
  <2> QED
    BY <1>3, <1>4, <1>5, <1>7, <2>1
<1> QED
  BY <1>8, <1>9, <1>10

\* The stream is what the peer sent without its first k packets: the units
\* follow each other and the first one is a head.
Aligned(k) ==
  /\ Sent = 2 * k + Len(stream)
  /\ \A i \in 1..Len(stream) : Pos(stream[i]) = 2 * k + i
AlignInv == Framed => \E k \in Nat : Aligned(k)

LEMMA NextAlign == WireInv /\ WireInv' /\ ThreadInv /\ AlignInv /\ [Next]_vars => AlignInv'
<1> SUFFICES ASSUME WireInv, WireInv', ThreadInv, AlignInv, [Next]_vars, Framed'
             PROVE  \E k \in Nat : Aligned(k)'
  BY DEF AlignInv
<1>1. Len(stream) \in Nat /\ Sent \in Nat
  BY StreamType, SentType DEF WireInv
<1>2. CASE Takes
  <2>1. PICK a, d : /\ IsCut(stream', stream, a, d) /\ Framed /\ a = 0 /\ (d = 0 \/ d = 2)
    BY <1>2 DEF Takes
  <2>2. PICK k \in Nat : Aligned(k)
    BY <2>1 DEF AlignInv
  <2>3. Sent' = Sent
    BY <1>2 DEF Takes, Sent
  <2>4. /\ d \in Nat /\ d <= Len(stream) /\ Len(stream') = Len(stream) - d
        /\ \A i \in 1..(Len(stream) - d) : stream'[i] = stream[IF i <= a THEN i ELSE i + d]
    BY <2>1 DEF IsCut
  <2>5. \A i \in 1..(Len(stream) - d) : stream'[i] = stream[i + d] /\ i + d \in 1..Len(stream)
    BY <1>1, <2>1, <2>4
  <2>6. \A i \in 1..(Len(stream) - d) : Pos(stream'[i]) = 2 * k + (i + d)
    BY <2>2, <2>5 DEF Aligned
  <2>7. PICK e \in Nat : d = 2 * e
    <3>1. d = 2 * 0 \/ d = 2 * 1
      BY <2>1
    <3> QED
      BY <3>1
  <2>8. Sent' = 2 * (k + e) + Len(stream')
    BY <1>1, <2>2, <2>3, <2>4, <2>7 DEF Aligned
  <2>9. \A i \in 1..Len(stream') : Pos(stream'[i]) = 2 * (k + e) + i
    <3>1. \A i \in Nat : 2 * k + (i + d) = 2 * (k + e) + i
      BY <2>7
    <3>2. ASSUME NEW i \in 1..(Len(stream) - d) PROVE Pos(stream'[i]) = 2 * (k + e) + i
      <4>1. i \in Nat
        BY <1>1, <2>4
      <4>2. Pos(stream'[i]) = 2 * k + (i + d)
        BY <2>6
      <4> QED
        BY <3>1, <4>1, <4>2
    <3> QED
      BY <2>4, <3>2
  <2>10. k + e \in Nat /\ Aligned(k + e)'
    BY <2>8, <2>9 DEF Aligned
  <2> QED
    BY <2>10
<1>3. CASE UNCHANGED <<in, nested, pc>> /\ \E u \in Unit : Sends(u)
  <2>1. Framed
    BY <1>3 DEF Framed
  <2>2. PICK k \in Nat : Aligned(k)
    BY <2>1 DEF AlignInv
  <2>3. PICK u \in Unit : Sends(u)
    BY <1>3
  <2>4. /\ Len(stream') = Len(stream) + 1 /\ stream'[Len(stream) + 1] = u
        /\ \A i \in 1..Len(stream) : stream'[i] = stream[i]
    BY <1>3, <2>3, SendsStream
  <2>5. Sent' = 2 * k + Len(stream') /\ Pos(u) = 2 * k + (Len(stream) + 1)
    BY <1>1, <2>2, <2>3, <2>4 DEF Aligned, Sends
  <2>6. ASSUME NEW i \in 1..Len(stream') PROVE Pos(stream'[i]) = 2 * k + i
    <3>1. i \in 1..Len(stream) \/ i = Len(stream) + 1
      BY <1>1, <2>4
    <3> QED
      BY <2>2, <2>4, <2>5, <3>1 DEF Aligned
  <2>7. Aligned(k)'
    BY <2>5, <2>6 DEF Aligned
  <2> QED
    BY <2>7
<1> QED
  BY <1>2, <1>3, StreamSteps

\* The in buffer is made of frames that follow each other, however the network
\* cut them, until the stream is given up: the stream is always what the peer
\* sent without a number of whole packets.
THEOREM InFramedHolds == Spec => []InFramed
<1>1. Init => AlignInv
  <2> SUFFICES ASSUME Init PROVE Aligned(0)
    BY DEF AlignInv
  <2>1. stream = <<>> /\ Sent = 0
    BY DEF Init, stream, Sent
  <2> QED
    BY <2>1 DEF Aligned
<1>2. WireInv /\ AlignInv => InFramed
  <2> SUFFICES ASSUME WireInv, AlignInv, Framed, NEW i \in 1..Len(in)
               PROVE  /\ in[i].part = IF i % 2 = 1 THEN "head" ELSE "tail"
                      /\ in[i].packet.call_id[2] = in[1].packet.call_id[2] + (i - 1) \div 2
    BY DEF InFramed, Framed
  <2>1. PICK k \in Nat : Aligned(k)
    BY DEF AlignInv
  <2>2. in \in Seq(Unit) /\ sock \in Seq(Unit) /\ Len(in) \in Nat /\ Len(sock) \in Nat
        /\ Len(peer) \in Nat
    BY DEF WireInv
  <2>3. /\ Len(stream) = Len(in) + Len(sock) /\ stream \in Seq(Unit)
        /\ \A j \in 1..Len(in) : j \in 1..Len(stream) /\ stream[j] = in[j]
    <3>1. /\ Len(stream) = Len(in) + Len(sock) /\ stream \in Seq(Unit)
          /\ \A j \in 1..(Len(in) + Len(sock)) : stream[j] = IF j <= Len(in) THEN in[j] ELSE sock[j - Len(in)]
      BY <2>2, ConcatAt DEF stream
    <3>2. \A j \in 1..Len(in) : j \in 1..(Len(in) + Len(sock)) /\ j <= Len(in)
      BY <2>2
    <3> QED
      BY <3>1, <3>2
  <2>4. ASSUME NEW j \in 1..Len(in)
        PROVE  /\ in[j].part \in {"head", "tail"} /\ Number(in[j].packet) \in Nat
               /\ in[j].part = "head" => 2 * k + j = 2 * Number(in[j].packet) - 1
               /\ in[j].part = "tail" => 2 * k + j = 2 * Number(in[j].packet)
    <3>1. Pos(in[j]) = 2 * k + j /\ in[j] \in Unit /\ FromPeer(in[j], Len(peer), Sent)
      <4>1. j \in 1..Len(stream) /\ stream[j] = in[j] /\ in[j] \in Unit
        BY <2>2, <2>3
      <4>2. Pos(stream[j]) = 2 * k + j
        BY <2>1, <4>1 DEF Aligned
      <4>3. FromPeer(stream[j], Len(peer), Sent)
        BY <4>1 DEF WireInv
      <4> QED
        BY <4>1, <4>2, <4>3
    <3>2. in[j].part \in {"head", "tail"}
      BY <3>1 DEF Unit
    <3> QED
      BY <2>2, <3>1, <3>2, PosType
  <2>5. i \in Nat /\ 1 \in 1..Len(in) /\ i >= 1
    BY <2>2
  <2> DEFINE n == Number(in[i].packet)
             m == Number(in[1].packet)
             q == (i - 1) \div 2
  <2>6. m \in Nat /\ m = k + 1
    <3>1. /\ in[1].part \in {"head", "tail"} /\ m \in Nat
          /\ in[1].part = "head" => 2 * k + 1 = 2 * m - 1
          /\ in[1].part = "tail" => 2 * k + 1 = 2 * m
      BY <2>4, <2>5
    <3> HIDE DEF m
    <3> QED
      BY <3>1
  <2>7. /\ in[i].part \in {"head", "tail"} /\ n \in Nat
        /\ in[i].part = "head" => 2 * k + i = 2 * n - 1
        /\ in[i].part = "tail" => 2 * k + i = 2 * n
    BY <2>4
  <2>8. \/ i % 2 = 1 /\ i = 2 * q + 1 /\ q \in Nat
        \/ i % 2 = 0 /\ i = 2 * q + 2 /\ q \in Nat
    BY <2>5
  <2>9. n = in[i].packet.call_id[2] /\ m = in[1].packet.call_id[2]
    BY DEF Number
  <2> HIDE DEF n, m, q
  <2>10. CASE i % 2 = 1 /\ i = 2 * q + 1 /\ q \in Nat
    <3>1. in[i].part # "tail"
      BY <2>7, <2>10
    <3>2. in[i].part = "head" /\ n = k + 1 + q
      BY <2>7, <2>10, <3>1
    <3> QED
      BY <2>6, <2>9, <2>10, <3>2 DEF q
  <2>11. CASE i % 2 = 0 /\ i = 2 * q + 2 /\ q \in Nat
    <3>1. in[i].part # "head"
      BY <2>7, <2>11
    <3>2. in[i].part = "tail" /\ n = k + 1 + q
      BY <2>7, <2>11, <3>1
    <3> QED
      BY <2>6, <2>9, <2>11, <3>2 DEF q
  <2> QED
    BY <2>8, <2>10, <2>11
<1> QED
  BY <1>1, <1>2, NextAlign, WireCorrect, ThreadCorrect, PTL DEF Spec

\* The packet p was taken from the stream: the peer has sent the whole of it
\* and everything in the stream is behind it.
Taken(p, m, s) ==
  /\ Number(p) \in Nat /\ 2 * Number(p) <= m
  /\ \A i \in 1..Len(s) : 2 * Number(p) < Pos(s[i])

InItem(a) == a \in Slots /\ a < in_queue.item_count

\* The packets in the in queue and the handled ones are different packets.
HandledInv ==
  /\ \A i \in 1..Len(handled) : Taken(handled[i], Sent, stream)
  /\ \A a \in Slots : InItem(a) => Taken(in_queue.item[a], Sent, stream)
  /\ \A i, j \in 1..Len(handled) : Number(handled[i]) = Number(handled[j]) => i = j
  /\ \A a, b \in Slots :
       InItem(a) /\ InItem(b) /\ Number(in_queue.item[a]) = Number(in_queue.item[b]) => a = b
  /\ \A i \in 1..Len(handled), a \in Slots :
       InItem(a) => Number(handled[i]) # Number(in_queue.item[a])

LEMMA TakenStays ==
  ASSUME WireInv, ThreadInv, [Next]_vars, NEW p, Taken(p, Sent, stream)
  PROVE  Taken(p, Sent', stream')
<1>1. Len(stream) \in Nat /\ Sent \in Nat
  BY StreamType, SentType DEF WireInv
<1>2. CASE Takes
  <2>1. PICK a, d : IsCut(stream', stream, a, d)
    BY <1>2 DEF Takes
  <2>2. Sent' = Sent
    BY <1>2 DEF Takes, Sent
  <2>3. /\ a \in Nat /\ d \in Nat /\ a + d <= Len(stream) /\ Len(stream') = Len(stream) - d
        /\ \A i \in 1..(Len(stream) - d) : stream'[i] = stream[IF i <= a THEN i ELSE i + d]
    BY <2>1 DEF IsCut
  <2>4. \A i \in 1..(Len(stream) - d) : (IF i <= a THEN i ELSE i + d) \in 1..Len(stream)
    BY <1>1, <2>3
  <2> QED
    BY <2>2, <2>3, <2>4 DEF Taken
<1>3. CASE UNCHANGED <<in, nested, pc>> /\ \E u \in Unit : Sends(u)
  <2>1. PICK u \in Unit : Sends(u)
    BY <1>3
  <2>2. /\ Len(stream') = Len(stream) + 1 /\ stream'[Len(stream) + 1] = u
        /\ \A i \in 1..Len(stream) : stream'[i] = stream[i]
    BY <1>3, <2>1, SendsStream
  <2>3. Pos(u) = Sent + 1 /\ Sent' = Sent + 1
    BY <2>1 DEF Sends
  <2>4. Number(p) \in Nat /\ 2 * Number(p) <= Sent /\ 2 * Number(p) <= Sent' /\ 2 * Number(p) < Pos(u)
    BY <1>1, <2>3 DEF Taken
  <2>5. \A i \in 1..Len(stream') : i \in 1..Len(stream) \/ i = Len(stream) + 1
    BY <1>1, <2>2
  <2>6. \A i \in 1..Len(stream') : 2 * Number(p) < Pos(stream'[i])
    BY <2>2, <2>4, <2>5 DEF Taken
  <2> QED
    BY <2>4, <2>6 DEF Taken
<1> QED
  BY <1>2, <1>3, StreamSteps

\* The packet that is received is behind all that were taken before.
LEMMA ReceivedTaken ==
  ASSUME WireInv, IterateReceive
  PROVE  /\ Taken(Appended[1].packet, Sent', stream')
         /\ \A p : Taken(p, Sent, stream) => Number(p) # Number(Appended[1].packet)
<1>1. /\ sock' = Rest(sock, Amount) /\ in' = Rest(Appended, 2)
      /\ UNCHANGED <<peer, half>> /\ PopInSdp(Appended) = "TRUE"
  BY DEF IterateReceive, wire
<1>2. Appended[1] = stream[1] /\ Len(Appended) >= 2 /\ Appended[1].part = "head"
  BY <1>1, ReceivedType
<1>3. IsCut(stream', stream, 0, 2)
  BY <1>1, <1>2, ReadCut
<1>4. /\ Len(stream) \in Nat /\ Sent \in Nat /\ Len(peer) \in Nat /\ stream \in Seq(Unit)
      /\ Len(Appended) <= Len(stream) /\ Len(Appended) \in Nat
  BY StreamType, SentType, AmountType DEF WireInv
<1>5. 1 \in 1..Len(stream) /\ 2 \in 1..Len(stream)
  BY <1>2, <1>4
<1>6. \A i \in 1..Len(stream) :
        stream[i] \in Unit /\ FromPeer(stream[i], Len(peer), Sent) /\ Pos(stream[i]) <= Sent
  BY <1>4 DEF WireInv, FromPeer
<1>7. \A i \in 1..Len(stream) : Pos(stream[i]) \in Nat
  BY <1>4, <1>6, PosType
<1> DEFINE n == Number(stream[1].packet)
<1>8. n \in Nat /\ Pos(stream[1]) = 2 * n - 1
  BY <1>2, <1>4, <1>5, <1>6, PosType
<1> HIDE DEF n
<1>9. \A i, j \in 1..Len(stream) : i < j => Pos(stream[i]) < Pos(stream[j])
  BY DEF WireInv
<1>10. 2 * n <= Pos(stream[2]) /\ Pos(stream[2]) <= Sent /\ Pos(stream[2]) \in Nat
  <2>1. Pos(stream[1]) < Pos(stream[2]) /\ Pos(stream[2]) \in Nat /\ Pos(stream[2]) <= Sent
    BY <1>5, <1>6, <1>7, <1>9
  <2> QED
    BY <1>8, <2>1
<1>11. /\ Len(stream') = Len(stream) - 2
       /\ \A i \in 1..(Len(stream) - 2) : stream'[i] = stream[i + 2] /\ i + 2 \in 1..Len(stream) /\ 2 < i + 2
  <2>1. /\ Len(stream') = Len(stream) - 2
        /\ \A i \in 1..(Len(stream) - 2) : stream'[i] = stream[IF i <= 0 THEN i ELSE i + 2]
    BY <1>3 DEF IsCut
  <2>2. \A i \in 1..(Len(stream) - 2) : i + 2 \in 1..Len(stream) /\ 2 < i + 2 /\ ~(i <= 0)
    BY <1>4
  <2> QED
    BY <2>1, <2>2
<1>12. \A i \in 1..Len(stream') : 2 * n < Pos(stream'[i])
  <2>1. ASSUME NEW i \in 1..(Len(stream) - 2) PROVE 2 * n < Pos(stream'[i])
    <3>1. Pos(stream[2]) < Pos(stream'[i]) /\ Pos(stream'[i]) \in Nat
      BY <1>5, <1>7, <1>9, <1>11
    <3> QED
      BY <1>8, <1>10, <3>1
  <2> QED
    BY <1>11, <2>1
<1>13. Sent' = Sent /\ 2 * n <= Sent
  BY <1>1, <1>4, <1>8, <1>10 DEF Sent
<1>14. n = Number(Appended[1].packet)
  BY <1>2 DEF n
<1>15. Taken(Appended[1].packet, Sent', stream')
  BY <1>8, <1>12, <1>13, <1>14 DEF Taken
<1>16. ASSUME NEW p, Taken(p, Sent, stream) PROVE Number(p) # n
  <2>1. Number(p) \in Nat /\ 2 * Number(p) < Pos(stream[1])
    BY <1>5, <1>16 DEF Taken
  <2> QED
    BY <1>8, <2>1
<1> QED
  BY <1>14, <1>15, <1>16

LEMMA ReceiveHandled ==
  ASSUME WireInv, ThreadInv, DataInv, HandledInv, IterateReceive, [Next]_vars
  PROVE  HandledInv'
<1> DEFINE p == Appended[1].packet
           n == in_queue.item_count
<1>1. CanPush(in_queue) /\ in_queue' = Push(in_queue, p) /\ UNCHANGED handled
      /\ PopInSdp(Appended) = "TRUE"
  BY DEF IterateReceive, hist
<1>2. /\ Taken(p, Sent', stream') /\ p \in Packet
      /\ \A x : Taken(x, Sent, stream) => Number(x) # Number(p)
  BY <1>1, ReceivedTaken, ReceivedType
<1> HIDE DEF p
<1>3. n \in Nat /\ n \in Slots /\ in_queue.item \in [Slots -> Packet \union {NULL}]
  BY <1>1, QueueAssumption DEF DataInv, Queue, CanPush, Slots
<1>4. in_queue'.item = [in_queue.item EXCEPT ![n] = p] /\ in_queue'.item_count = n + 1
  BY <1>1 DEF Push
<1> HIDE DEF n
<1>5. /\ \A a \in Slots : InItem(a)' <=> InItem(a) \/ a = n
      /\ ~InItem(n)
  <2>1. \A a \in Slots : a < n + 1 <=> a < n \/ a = n
    BY <1>3 DEF Slots
  <2> QED
    BY <1>3, <1>4, <2>1 DEF InItem, n
<1>6. /\ in_queue'.item[n] = p
      /\ \A a \in Slots : InItem(a) => in_queue'.item[a] = in_queue.item[a]
  BY <1>3, <1>4, <1>5
<1>7. \A x : Taken(x, Sent, stream) => Taken(x, Sent', stream')
  BY TakenStays
<1>8. \A i \in 1..Len(handled) : Taken(handled[i], Sent, stream)
  BY DEF HandledInv
<1>9. \A a \in Slots : InItem(a) => Taken(in_queue.item[a], Sent, stream)
  BY DEF HandledInv
<1>10. \A i \in 1..Len(handled') : Taken(handled'[i], Sent', stream')
  BY <1>1, <1>7, <1>8
<1>11. \A a \in Slots : InItem(a)' => Taken(in_queue'.item[a], Sent', stream')
  BY <1>2, <1>5, <1>6, <1>7, <1>9
<1>12. \A a, b \in Slots : InItem(a)' /\ InItem(b)'
         /\ Number(in_queue'.item[a]) = Number(in_queue'.item[b]) => a = b
  <2>1. \A a, b \in Slots : InItem(a) /\ InItem(b)
          /\ Number(in_queue.item[a]) = Number(in_queue.item[b]) => a = b
    BY DEF HandledInv
  <2>2. \A a \in Slots : InItem(a) => Number(in_queue.item[a]) # Number(p)
    BY <1>2, <1>9
  <2> QED
    BY <1>5, <1>6, <2>1, <2>2
<1>13. \A i \in 1..Len(handled'), a \in Slots :
         InItem(a)' => Number(handled'[i]) # Number(in_queue'.item[a])
  <2>1. \A i \in 1..Len(handled) : Number(handled[i]) # Number(p)
    BY <1>2, <1>8
  <2>2. \A i \in 1..Len(handled), a \in Slots :
          InItem(a) => Number(handled[i]) # Number(in_queue.item[a])
    BY DEF HandledInv
  <2> QED
    BY <1>1, <1>5, <1>6, <2>1, <2>2
<1>14. \A i, j \in 1..Len(handled') : Number(handled'[i]) = Number(handled'[j]) => i = j
  BY <1>1 DEF HandledInv
<1> QED
  BY <1>10, <1>11, <1>12, <1>13, <1>14 DEF HandledInv

LEMMA GetDataHandled ==
  ASSUME WireInv, ThreadInv, DataInv, HandledInv, GetData, [Next]_vars
  PROVE  HandledInv'
<1>1. PICK a \in Slots : /\ a < in_queue.item_count /\ in_queue' = Pop(in_queue, a)
                         /\ sdp' = in_queue.item[a]
                         /\ handled' = handled \/ handled' = Append(handled, sdp')
  BY DEF GetData, FirstMatch
<1> DEFINE n == in_queue.item_count
           p == in_queue.item[a]
           from(i) == IF i < a THEN i ELSE i + 1
<1>2. /\ in_queue'.item_count = n - 1 /\ p \in Packet
      /\ \A i \in Slots : i < n - 1 =>
           in_queue'.item[i] = IF i < a THEN in_queue.item[i] ELSE in_queue.item[i + 1]
  BY <1>1, PopProps DEF DataInv, QueuesSound
<1>3. n \in Nat /\ n <= QueueSize /\ QueueSize \in Nat /\ a \in Nat /\ a < n
  BY <1>1, QueueAssumption DEF DataInv, Queue, Slots
<1>4. \A i \in Slots : InItem(i)' => i < n - 1
  BY <1>2 DEF InItem
<1> HIDE DEF n
<1>5. \A i \in Slots : i < n - 1 =>
        from(i) \in Slots /\ from(i) < n /\ from(i) # a /\ in_queue'.item[i] = in_queue.item[from(i)]
  BY <1>2, <1>3 DEF Slots
<1>6. \A i, j \in Slots : from(i) = from(j) => i = j
  BY <1>3 DEF Slots
<1> HIDE DEF from
<1>7. \A i \in Slots : InItem(i)' =>
        from(i) \in Slots /\ InItem(from(i)) /\ from(i) # a /\ in_queue'.item[i] = in_queue.item[from(i)]
  BY <1>4, <1>5 DEF InItem, n
<1>8. InItem(a)
  BY <1>1 DEF InItem
<1>9. \A x : Taken(x, Sent, stream) => Taken(x, Sent', stream')
  BY TakenStays
<1>10. \A i \in Slots : InItem(i) => Taken(in_queue.item[i], Sent, stream)
  BY DEF HandledInv
<1>11. \A i, j \in Slots : InItem(i) /\ InItem(j)
         /\ Number(in_queue.item[i]) = Number(in_queue.item[j]) => i = j
  BY DEF HandledInv
<1>12. /\ \A i \in 1..Len(handled) : Taken(handled[i], Sent, stream)
       /\ \A i, j \in 1..Len(handled) : Number(handled[i]) = Number(handled[j]) => i = j
       /\ \A i \in 1..Len(handled), b \in Slots :
            InItem(b) => Number(handled[i]) # Number(in_queue.item[b])
  BY DEF HandledInv
<1>13. \A i \in Slots : InItem(i)' => Taken(in_queue'.item[i], Sent', stream')
  BY <1>7, <1>9, <1>10
<1>14. \A i, j \in Slots : InItem(i)' /\ InItem(j)'
         /\ Number(in_queue'.item[i]) = Number(in_queue'.item[j]) => i = j
  BY <1>6, <1>7, <1>11
<1>15. \A i \in Slots : InItem(i)' => Number(in_queue'.item[i]) # Number(p)
  BY <1>7, <1>8, <1>11
<1>16. Taken(p, Sent, stream) /\ \A i \in 1..Len(handled) : Number(handled[i]) # Number(p)
  BY <1>8, <1>10, <1>12
<1> HIDE DEF p
<1>17. CASE handled' = handled
  BY <1>7, <1>9, <1>12, <1>13, <1>14, <1>17 DEF HandledInv
<1>18. CASE handled' = Append(handled, p)
  <2>1. handled \in Seq(Packet) /\ Len(handled) \in Nat
    BY DEF DataInv
  <2>2. /\ Len(handled') = Len(handled) + 1 /\ handled'[Len(handled) + 1] = p
        /\ \A i \in 1..Len(handled) : handled'[i] = handled[i]
    BY <1>2, <1>18, <2>1 DEF p
  <2>3. \A i \in 1..Len(handled') : i \in 1..Len(handled) \/ i = Len(handled) + 1
    BY <2>1, <2>2
  <2>4. \A i \in 1..Len(handled') : Taken(handled'[i], Sent', stream')
    BY <1>9, <1>12, <1>16, <2>2, <2>3
  <2>5. \A i, j \in 1..Len(handled') : Number(handled'[i]) = Number(handled'[j]) => i = j
    BY <1>12, <1>16, <2>2, <2>3
  <2>6. \A i \in 1..Len(handled'), b \in Slots :
          InItem(b)' => Number(handled'[i]) # Number(in_queue'.item[b])
    BY <1>7, <1>12, <1>15, <2>2, <2>3
  <2> QED
    BY <1>13, <1>14, <2>4, <2>5, <2>6 DEF HandledInv
<1> QED
  BY <1>1, <1>17, <1>18 DEF p

LEMMA NextHandled == WireInv /\ ThreadInv /\ DataInv /\ HandledInv /\ [Next]_vars => HandledInv'
<1> SUFFICES ASSUME WireInv, ThreadInv, DataInv, HandledInv, [Next]_vars PROVE HandledInv'
  OBVIOUS
<1>1. CASE UNCHANGED <<in_queue, handled>>
  <2>1. \A x : Taken(x, Sent, stream) => Taken(x, Sent', stream')
    BY TakenStays
  <2>2. \A a \in Slots : InItem(a)' <=> InItem(a)
    BY <1>1 DEF InItem
  <2> QED
    BY <1>1, <2>1, <2>2 DEF HandledInv
<1>2. IterateReceive \/ GetData \/ UNCHANGED <<in_queue, handled>>
  BY DEF Next, PeerHead, PeerTail, PeerClose, AsyncBegin, AsyncEnd, Wake, WaitTimeout,
     LoopEnds, Closed, Iterate, IterateClosed, IterateOverflow, IterateNothing,
     IterateQueueFull, IterateDataError, IterateVersionError, VersionReply, ReadArgument,
     GetDataNothing, HandlerReply, HandlerReturn, IterateOutPacket, IterateOutRest, vars, hist
<1> QED
  BY <1>1, <1>2, ReceiveHandled, GetDataHandled

\* No call of the peer is handled twice, whatever rr_id srpc_getdata is asked
\* for: a packet is received once, because it is behind all that were received
\* before, and srpc_getdata takes it out of the in queue.
THEOREM HandledOnceHolds == Spec => []HandledOnce
<1>1. Init => HandledInv
  <2> SUFFICES ASSUME Init PROVE HandledInv
    OBVIOUS
  <2>1. handled = <<>> /\ in_queue.item_count = 0
    BY DEF Init, EmptyQueue
  <2>2. \A a \in Slots : ~InItem(a)
    BY <2>1, QueueAssumption DEF InItem, Slots
  <2> QED
    BY <2>1, <2>2 DEF HandledInv
<1>2. HandledInv => HandledOnce
  BY DEF HandledInv, HandledOnce
<1> QED
  BY <1>1, <1>2, NextHandled, WireCorrect, ThreadCorrect, DataCorrect, PTL DEF Spec

----------------------------------------------------------------------------
(* Sleeping *)

\* sproto_pop_in_sdp would find no frame in the in buffer.
NoFrame ==
  \/ in = <<>>
  \/ /\ Len(in) < 2 /\ in[1].part # "tail"
     /\ Kind(in[1].packet) \notin {"version", "size"}

\* When the loop goes to sleep the in buffer holds no frame, or an event is
\* raised for it: raise_event remembers that more was received.
WorkInv ==
  /\ pc \in {"args", "call", "handler", "out"} /\ ~more => NoFrame
  /\ pc = "wait" /\ ~event => NoFrame /\ out_queue.item_count = 0

\* What the peer sends next does not change what was read.
LEMMA NoFrameStays ==
  ASSUME WireInv, NoFrame, in' = in, peer' = peer \/ \E x \in PeerCalls : peer' = Append(peer, x)
  PROVE  NoFrame'
<1>1. CASE in = <<>>
  BY <1>1 DEF NoFrame
<1>2. CASE in # <<>>
  <2>1. in \in Seq(Unit) /\ sock \in Seq(Unit) /\ peer \in Seq(PeerCalls)
    BY DEF WireInv
  <2>2. 1 \in 1..Len(stream) /\ stream[1] = in[1]
    <3>1. Len(in) \in Nat /\ Len(in) >= 1 /\ Len(sock) \in Nat
      BY <1>2, <2>1
    <3> QED
      BY <2>1, <3>1, ConcatAt DEF stream
  <2>3. Number(in[1].packet) \in 1..Len(peer)
    BY <2>2 DEF WireInv, FromPeer
  <2> DEFINE n == Number(in[1].packet)
  <2> HIDE DEF n
  <2>4. n \in 1..Len(peer)
    BY <2>3 DEF n
  <2>5. peer'[n] = peer[n]
    BY <2>1, <2>4
  <2>6. Kind(in[1].packet)' = Kind(in[1].packet)
    BY <2>5 DEF n, Number, Kind
  <2> QED
    BY <1>2, <2>6 DEF NoFrame
<1> QED
  BY <1>1, <1>2

LEMMA OutWork ==
  ASSUME WireInv, DataInv, ThreadInv, WorkInv, IterateOutPacket \/ IterateOutRest
  PROVE  WorkInv'
<1>1. UNCHANGED <<in, more, peer>> /\ pc = "out"
  BY DEF IterateOutPacket, IterateOutRest, local, wire
<1>2. Return(TRUE) /\ event' = (event \/ out_queue'.item_count > 0 \/ more)
  <2>1. CASE IterateOutPacket
    <3>1. out_queue.item_count > 0 /\ sdp' = out_queue.item[0]
      BY <2>1 DEF IterateOutPacket
    <3>2. sdp' \in Packet
      BY <3>1, PopFirst DEF DataInv, QueuesSound
    <3>3. ~AppendFails /\ OutAppend(sdp') = Units(sdp')
      BY <3>2, OutAppendWhole DEF DataInv
    <3>4. Send(Units(sdp'), out_queue')
      BY <2>1, <3>3 DEF IterateOutPacket
    <3>5. Units(sdp') \in Seq(Unit) /\ Len(Units(sdp')) = 2
      BY <3>2, UnitsProps
    <3>6. Len(Units(sdp')) <= 2
      BY <3>5
    <3> QED
      BY <3>4, <3>5, <3>6, SendAll DEF DataInv
  <2>2. CASE IterateOutRest
    <3>1. Send(<<>>, out_queue) /\ out_queue' = out_queue
      BY <2>2 DEF IterateOutRest, DataInv
    <3>2. <<>> \in Seq(Unit) /\ Len(<<>>) <= 2
      OBVIOUS
    <3> QED
      BY <3>1, <3>2, SendAll DEF DataInv
  <2> QED
    BY <2>1, <2>2
<1>3. pc' \in {"in", "closed", "wait"}
  BY <1>2, ReturnType DEF ThreadInv
<1>4. out_queue' \in Queue
  <2>1. CASE IterateOutPacket
    <3>1. out_queue.item_count > 0 /\ out_queue' = Pop(out_queue, 0)
      BY <2>1 DEF IterateOutPacket
    <3> QED
      BY <3>1, PopFirst DEF DataInv, QueuesSound
  <2>2. CASE IterateOutRest
    BY <2>2 DEF IterateOutRest, DataInv
  <2> QED
    BY <2>1, <2>2
<1>5. out_queue'.item_count \in Nat
  BY <1>4, QueueAssumption DEF Queue
<1>6. ~event' => ~more /\ ~(out_queue'.item_count > 0)
  BY <1>2
<1>7. ~event' => out_queue'.item_count = 0
  BY <1>5, <1>6
<1>8. ~event' => NoFrame'
  BY <1>1, <1>6, NoFrameStays DEF WorkInv
<1> QED
  BY <1>3, <1>7, <1>8 DEF WorkInv

LEMMA EnqueueWork ==
  ASSUME NEW p, Enqueue(p)
  PROVE  event' = TRUE \/ UNCHANGED <<event, out_queue>>
BY DEF Enqueue

LEMMA NextWork == WireInv /\ DataInv /\ ThreadInv /\ WorkInv /\ [Next]_vars => WorkInv'
<1> SUFFICES ASSUME WireInv, DataInv, ThreadInv, WorkInv, [Next]_vars PROVE WorkInv'
  OBVIOUS
<1> USE DEF wire, local, hist
<1>0. ASSUME UNCHANGED in, peer' = peer \/ \E x \in PeerCalls : peer' = Append(peer, x)
      PROVE  NoFrame => NoFrame'
  BY <1>0, NoFrameStays
<1>1. ASSUME UNCHANGED <<in, pc, more, event, out_queue>>,
             peer' = peer \/ \E x \in PeerCalls : peer' = Append(peer, x)
      PROVE  WorkInv'
  BY <1>0, <1>1 DEF WorkInv
<1>2. CASE pc' \in {"in", "version", "closed"}
  BY <1>2 DEF WorkInv
<1>3. CASE \E c \in Caller : AsyncEnd(c)
  <2>1. UNCHANGED <<in, pc, more, peer>>
    BY <1>3 DEF AsyncEnd
  <2>2. event' = TRUE \/ UNCHANGED <<event, out_queue>>
    BY <1>3, EnqueueWork DEF AsyncEnd
  <2> QED
    BY <1>0, <2>1, <2>2 DEF WorkInv
<1>4. CASE IterateNothing
  <2>1. in' = Appended /\ PopInSdp(Appended) = "FALSE" /\ pc' = "out" /\ peer' = peer
    BY <1>4 DEF IterateNothing
  <2>2. Appended \in Seq(Unit)
    BY AmountType
  <2> DEFINE b == Appended
  <2> HIDE DEF b
  <2>4. \/ b = <<>>
        \/ Len(b) < 2 /\ b[1].part # "tail" /\ Kind(b[1].packet) \notin {"version", "size"}
    BY <2>1, <2>2, PopInSdpProps DEF b
  <2>5. in' = b
    BY <2>1 DEF b
  <2>3. NoFrame'
    BY <2>1, <2>4, <2>5 DEF NoFrame, Kind
  <2> QED
    BY <2>1, <2>3 DEF WorkInv
<1>5. CASE IterateReceive
  <2>1. more' = (in' # <<>>) /\ pc' = "args"
    BY <1>5 DEF IterateReceive
  <2>2. ~more' => NoFrame'
    BY <2>1 DEF NoFrame
  <2> QED
    BY <2>1, <2>2 DEF WorkInv
<1>6. CASE GetData \/ GetDataNothing \/ HandlerReturn \/ HandlerReply
           \/ \E f \in {"rr_id", "call_id"} : ReadArgument(f)
  <2>1. /\ UNCHANGED <<in, more, peer>> /\ pc \in {"args", "call", "handler", "out"}
        /\ pc' \in {"args", "call", "handler", "out"}
    BY <1>6 DEF GetData, GetDataNothing, HandlerReturn, HandlerReply, ReadArgument
  <2> QED
    BY <1>0, <2>1 DEF WorkInv
<1>7. CASE IterateOutPacket \/ IterateOutRest
  BY <1>7, OutWork
<1>8. CASE IterateClosed \/ IterateOverflow \/ IterateQueueFull \/ IterateDataError
  <2>1. Return(FALSE)
    BY <1>8 DEF IterateClosed, IterateOverflow, IterateQueueFull, IterateDataError
  <2>2. pc' \in {"in", "closed"}
    BY <2>1 DEF Return
  <2> QED
    BY <1>2, <2>2
<1>9. CASE Wake \/ WaitTimeout \/ LoopEnds \/ IterateVersionError \/ VersionReply
  BY <1>2, <1>9 DEF Wake, WaitTimeout, LoopEnds, IterateVersionError, VersionReply
<1>10. CASE \/ PeerTail \/ PeerClose \/ Closed \/ UNCHANGED vars
            \/ \E c \in Caller : AsyncBegin(c)
  <2>1. UNCHANGED <<in, pc, more, event, out_queue, peer>>
    BY <1>10 DEF PeerTail, PeerClose, Closed, AsyncBegin, vars
  <2> QED
    BY <1>1, <2>1
<1>11. ASSUME NEW k \in PacketKind, PeerHead(k) PROVE WorkInv'
  <2>1. UNCHANGED <<in, pc, more, event, out_queue>>
    BY <1>11 DEF PeerHead
  <2>2. \E x \in PeerCalls : peer' = Append(peer, x)
    BY <1>11, PeerHeadWire
  <2> QED
    BY <1>1, <2>1, <2>2
<1> QED
  BY <1>3, <1>4, <1>5, <1>6, <1>7, <1>8, <1>9, <1>10, <1>11 DEF Next, Iterate

\* The connection's thread never sleeps over work: with no event raised and
\* nothing in the socket there is no frame in the in buffer and nothing to
\* send.
THEOREM NoSleepOnWorkHolds == Spec => []NoSleepOnWork
<1>1. Init => WorkInv
  BY DEF Init, WorkInv, NoFrame, EmptyQueue
<1>2. WireInv /\ DataInv /\ WorkInv => NoSleepOnWork
  <2> SUFFICES ASSUME WireInv, DataInv, WorkInv, pc = "wait", ~event
               PROVE  PopInSdp(in) = "FALSE" /\ out = <<>> /\ out_queue.item_count = 0
    BY DEF NoSleepOnWork
  <2>1. NoFrame /\ out_queue.item_count = 0 /\ out = <<>> /\ in \in Seq(Unit)
    BY DEF WorkInv, DataInv, WireInv
  <2>2. PopInSdp(in) = "FALSE"
    BY <2>1, PopInSdpProps DEF NoFrame
  <2> QED
    BY <2>1, <2>2
<1> QED
  BY <1>1, <1>2, NextWork, WireCorrect, DataCorrect, ThreadCorrect, PTL DEF Spec
=============================================================================
