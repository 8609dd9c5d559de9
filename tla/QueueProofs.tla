---------------------------- MODULE QueueProofs ----------------------------
(***************************************************************************)
(* What the operations of the queue preserve, for any set of items: the    *)
(* facts about sequences that the proofs about the callers rest on.        *)
(***************************************************************************)
EXTENDS Queue, TLAPS

\* Appending adds one element to the elements of a sequence.
LEMMA AppendRange ==
  ASSUME NEW S, NEW q \in Seq(S), NEW k \in S
  PROVE  /\ Append(q, k) \in Seq(S)
         /\ Range(Append(q, k)) = Range(q) \cup {k}
<1> DEFINE r == Append(q, k)
<1>1. /\ r \in Seq(S)
      /\ DOMAIN q = 1 .. Len(q) /\ Len(q) \in Nat
      /\ DOMAIN r = 1 .. Len(q) + 1
      /\ \A i \in 1 .. Len(q) : r[i] = q[i]
      /\ r[Len(q) + 1] = k
  OBVIOUS
<1> HIDE DEF r
<1>2. ASSUME NEW x
      PROVE  x \in Range(r) <=> x \in Range(q) \cup {k}
  BY <1>1 DEF Range
<1> QED
  BY <1>1, <1>2 DEF r

\* Appending an element that is not in the sequence keeps it injective.
LEMMA AppendDistinct ==
  ASSUME NEW S, NEW q \in Seq(S), NEW k \in S, IsInjective(q), k \notin Range(q)
  PROVE  IsInjective(Append(q, k))
<1> DEFINE r == Append(q, k)
<1>1. /\ DOMAIN q = 1 .. Len(q) /\ Len(q) \in Nat
      /\ DOMAIN r = 1 .. Len(q) + 1
      /\ \A i \in 1 .. Len(q) : r[i] = q[i]
      /\ r[Len(q) + 1] = k
  OBVIOUS
<1> HIDE DEF r
<1>2. \A i \in 1 .. Len(q) : q[i] # k
  BY <1>1 DEF Range
<1>3. \A i, j \in 1 .. Len(q) : q[i] = q[j] => i = j
  BY <1>1 DEF IsInjective
<1>4. IsInjective(r)
  BY <1>1, <1>2, <1>3 DEF IsInjective
<1> QED
  BY <1>4 DEF r

\* The head of a sequence and the elements of its tail are elements of it.
LEMMA TailRange ==
  ASSUME NEW S, NEW q \in Seq(S), q # <<>>
  PROVE  /\ Tail(q) \in Seq(S)
         /\ Head(q) \in S
         /\ Head(q) \in Range(q)
         /\ Range(Tail(q)) \subseteq Range(q)
<1> DEFINE r == Tail(q)
<1>1. /\ r \in Seq(S)
      /\ DOMAIN q = 1 .. Len(q) /\ Len(q) \in Nat /\ Len(q) > 0
      /\ DOMAIN r = 1 .. Len(q) - 1
      /\ \A i \in 1 .. Len(q) - 1 : r[i] = q[i + 1]
      /\ Head(q) = q[1] /\ Head(q) \in S
  OBVIOUS
<1> HIDE DEF r
<1>2. Head(q) \in Range(q)
  BY <1>1 DEF Range
<1>3. ASSUME NEW i \in DOMAIN r
      PROVE  r[i] \in Range(q)
  <2>1. i + 1 \in DOMAIN q /\ r[i] = q[i + 1]
    BY <1>1
  <2> QED
    BY <2>1 DEF Range
<1>4. Range(r) \subseteq Range(q)
  BY <1>3 DEF Range
<1> QED
  BY <1>1, <1>2, <1>4 DEF r

\* Taking the head of an injective sequence leaves the other elements.
LEMMA TailDistinct ==
  ASSUME NEW S, NEW q \in Seq(S), q # <<>>, IsInjective(q)
  PROVE  /\ IsInjective(Tail(q))
         /\ Range(Tail(q)) = Range(q) \ {Head(q)}
<1> DEFINE h == Head(q)
           r == Tail(q)
<1>1. /\ DOMAIN q = 1 .. Len(q) /\ Len(q) \in Nat /\ Len(q) > 0
      /\ DOMAIN r = 1 .. Len(q) - 1
      /\ \A i \in 1 .. Len(q) - 1 : r[i] = q[i + 1]
      /\ h = q[1]
  OBVIOUS
<1> HIDE DEF h, r
<1>2. \A i, j \in 1 .. Len(q) : q[i] = q[j] => i = j
  BY <1>1 DEF IsInjective
<1>3. IsInjective(r)
  BY <1>1, <1>2 DEF IsInjective
<1>4. \A i \in DOMAIN r : r[i] # h /\ r[i] \in Range(q)
  BY <1>1, <1>2 DEF Range
<1>5. ASSUME NEW i \in DOMAIN q, q[i] # h
      PROVE  q[i] \in Range(r)
  <2>1. i - 1 \in DOMAIN r /\ r[i - 1] = q[i]
    BY <1>1, <1>5
  <2> QED
    BY <2>1 DEF Range
<1>6. ASSUME NEW x
      PROVE  x \in Range(r) <=> x \in Range(q) \ {h}
  BY <1>4, <1>5 DEF Range
<1> QED
  BY <1>3, <1>6 DEF h, r

-----------------------------------------------------------------------------
(* The operations on the queue. *)

\* Adding an item makes it dirty unless the queue is shut down.
LEMMA PushKeeps ==
  ASSUME QueueTypeOK, QueueInv, NEW k \in Keys, Push(k),
         processing' = processing
  PROVE  /\ queue' \in Seq(Keys)
         /\ dirty' \in SUBSET Keys
         /\ QueueInv'
         /\ dirty' = IF shut THEN dirty ELSE dirty \cup {k}
         /\ shut => queue' = queue
<1> USE DEF QueueTypeOK, QueueInv, Push
<1>1. CASE ~shut /\ k \notin dirty /\ k \notin processing
  <2>1. queue' = Append(queue, k) /\ dirty' = dirty \cup {k}
    BY <1>1
  <2>2. /\ queue' \in Seq(Keys)
        /\ IsInjective(queue')
        /\ Range(queue') = Range(queue) \cup {k}
    BY <1>1, <2>1, AppendRange, AppendDistinct
  <2> QED
    BY <1>1, <2>1, <2>2
<1>2. CASE ~shut /\ k \notin dirty /\ k \in processing
  BY <1>2
<1>3. CASE shut \/ k \in dirty
  BY <1>3
<1> QED
  BY <1>1, <1>2, <1>3

\* Adding an item after a delay makes it dirty or lets it wait.
LEMMA PushAfterKeeps ==
  ASSUME QueueTypeOK, QueueInv, NEW k \in Keys, NEW delay, PushAfter(k, delay),
         processing' = processing
  PROVE  /\ queue' \in Seq(Keys)
         /\ dirty' \in SUBSET Keys
         /\ waiting' \in SUBSET Keys
         /\ QueueInv'
         /\ dirty \subseteq dirty'
         /\ waiting \subseteq waiting'
         /\ ~shut => k \in dirty' \cup waiting'
         /\ shut => queue' = queue
<1>1. CASE delay <= 0 /\ Push(k) /\ UNCHANGED waiting
  BY <1>1, PushKeeps DEF QueueTypeOK
<1>2. CASE /\ delay > 0
           /\ waiting' = IF shut THEN waiting ELSE waiting \cup {k}
           /\ UNCHANGED <<queue, dirty>>
  BY <1>2 DEF QueueTypeOK, QueueInv
<1> QED
  BY <1>1, <1>2 DEF PushAfter

\* Get moves a ready item, in nobody's hands before, to processing.
LEMMA GetKeeps ==
  ASSUME QueueTypeOK, QueueInv, NEW k \in Keys, Get(k)
  PROVE  /\ QueueTypeOK'
         /\ QueueInv'
         /\ k \in dirty /\ k \notin processing
<1>1. queue # <<>> /\ k = Head(queue) /\ queue' = Tail(queue)
  BY DEF Get
<1>2. /\ queue' \in Seq(Keys)
      /\ k \in Range(queue)
      /\ IsInjective(queue')
      /\ Range(queue') = Range(queue) \ {k}
  BY <1>1, TailRange, TailDistinct DEF QueueTypeOK, QueueInv
<1> QED
  BY <1>2 DEF QueueTypeOK, QueueInv, Get

\* Done queues the item again if it was added while it was processed.
LEMMA DoneKeeps ==
  ASSUME QueueTypeOK, QueueInv, NEW k \in processing, Done(k)
  PROVE  QueueTypeOK' /\ QueueInv'
<1> USE DEF QueueTypeOK, QueueInv, Done
<1>1. CASE k \in dirty
  <2>1. queue' = Append(queue, k)
    BY <1>1
  <2>2. /\ queue' \in Seq(Keys)
        /\ IsInjective(queue')
        /\ Range(queue') = Range(queue) \cup {k}
    BY <2>1, AppendRange, AppendDistinct
  <2> QED
    BY <1>1, <2>2
<1>2. CASE k \notin dirty
  BY <1>2
<1> QED
  BY <1>1, <1>2

=============================================================================
