--------------------------- MODULE ObserverProofs ---------------------------
(***************************************************************************)
(* The cache follows the API server, and the handler the cache, for any    *)
(* retrievers, filters, selectors and number of changes and events.  The   *)
(* options that a stack of retrievers sends are left as they are: what the *)
(* proofs need is that List and Watch send the same ones.                  *)
(***************************************************************************)
EXTENDS Observer, SequenceTheorems, TLAPS

\* List and Watch pass through the same layers.
LEMMA SameOptions == WatchOptions(stack, {}) = ListOptions(stack, {})
BY DEF WatchOptions, ListOptions

\* The initial states satisfy every part.
LEMMA InitInv == Init => IndInv
<1> SUFFICES ASSUME Init PROVE IndInv
  OBVIOUS
<1> USE ObserverAssumption DEF ObserverAssumption, Init
<1>1. TypeOK
  <2>1. /\ version \in 0 .. MaxVersion /\ losses \in 0 .. MaxLosses
        /\ unseen \in Seq(Resources \cup {Nil})
        /\ events \in Seq(Events) /\ Len(events) <= MaxEvents
    OBVIOUS
  <2> QED
    BY <2>1 DEF TypeOK
<1>2. OrderInv
  BY DEF OrderInv
<1>3. CacheInv /\ PassInv
  BY DEF CacheInv, PassInv, Selects
<1> QED
  BY <1>1, <1>2, <1>3 DEF IndInv

-----------------------------------------------------------------------------
(* The API server. *)

\* What the API server held is seen first and then unseen.
LEMMA HistoryIs ==
  ASSUME TypeOK
  PROVE  /\ \A n \in 0 .. Len(unseen) :
              (<<seen>> \o unseen)[n + 1] = IF n = 0 THEN seen ELSE unseen[n]
         /\ Current = IF unseen = <<>> THEN seen ELSE unseen[Len(unseen)]
         /\ Current \in Resources \cup {Nil}
<1> DEFINE h == <<seen>> \o unseen
<1>1. unseen \in Seq(Resources \cup {Nil}) /\ Len(unseen) \in Nat
  BY DEF TypeOK
<1>2. /\ Len(h) = Len(unseen) + 1
      /\ \A n \in 0 .. Len(unseen) :
           h[n + 1] = IF n = 0 THEN seen ELSE unseen[n]
  BY <1>1
<1>3. Current = h[Len(unseen) + 1]
  BY <1>2 DEF Current, Last
<1>4. Len(unseen) = 0 <=> unseen = <<>>
  BY <1>1
<1>5. Current = IF unseen = <<>> THEN seen ELSE unseen[Len(unseen)]
  BY <1>1, <1>2, <1>3, <1>4
<1>6. Current \in Resources \cup {Nil}
  BY <1>1, <1>4, <1>5 DEF TypeOK
<1> QED
  BY <1>2, <1>5, <1>6

\* A change brings a version that was not there before.
LEMMA BecomesStep ==
  ASSUME IndInv, NEW obj \in Resources \cup {Nil}, Becomes(obj),
         obj # Nil => obj.rv = version + 1
  PROVE  IndInv'
<1>1. /\ version \in Nat /\ MaxVersion \in Nat
      /\ unseen \in Seq(Resources \cup {Nil})
      /\ version < MaxVersion /\ version' = version + 1
      /\ unseen' = Append(unseen, obj)
      /\ UNCHANGED <<config, old, informer, events, handler>>
  BY ObserverAssumption DEF IndInv, TypeOK, Becomes, ObserverAssumption
<1> USE DEF config, informer, handler
<1>2. TypeOK'
  <2>1. /\ version' \in 0 .. MaxVersion
        /\ unseen' \in Seq(Resources \cup {Nil})
    BY <1>1
  <2> QED
    BY <1>1, <2>1 DEF IndInv, TypeOK
<1>3. OrderInv'
  <2>1. /\ Len(unseen) \in Nat
        /\ DOMAIN unseen = 1 .. Len(unseen)
        /\ DOMAIN unseen' = 1 .. Len(unseen) + 1
        /\ \A i \in 1 .. Len(unseen) : unseen'[i] = unseen[i]
        /\ unseen'[Len(unseen) + 1] = obj
    BY <1>1
  <2>2. /\ seen # Nil => seen.rv \in Nat
        /\ \A i \in 1 .. Len(unseen) : unseen[i] # Nil => unseen[i].rv \in Nat
    BY <1>1, <2>1 DEF IndInv, TypeOK, Resources
  <2> QED
    BY <1>1, <2>1, <2>2 DEF IndInv, OrderInv
<1>4. CacheInv' /\ PassInv'
  BY <1>1 DEF IndInv, CacheInv, PassInv, Passes, MindsSpec
<1> QED
  BY <1>2, <1>3, <1>4 DEF IndInv

\* The API server changes the resource, or forgets its old versions.
LEMMA ServerStep ==
  ASSUME IndInv,
         \/ Create \/ ChangeSpec \/ ChangeStatus \/ ChangeTraits \/ Delete
         \/ Compact
  PROVE  IndInv'
<1>1. /\ version \in Nat /\ Current \in Resources \cup {Nil}
  BY HistoryIs DEF IndInv, TypeOK
<1>2. CASE Create
  <2>1. PICK traits \in SUBSET Traits :
          Becomes([gen |-> 1, rv |-> version + 1, traits |-> traits])
    BY <1>2 DEF Create
  <2> QED
    BY <1>1, <2>1, BecomesStep DEF Resources
<1>3. CASE ChangeSpec
  <2> DEFINE mid == [Current EXCEPT !.gen = @ + 1]
             obj == [Current EXCEPT !.gen = @ + 1, !.rv = version + 1]
  <2>1. Current \in Resources /\ Becomes(obj)
    BY <1>1, <1>3 DEF ChangeSpec
  <2>2. mid \in Resources
    BY <2>1 DEF Resources
  <2>3. obj = [mid EXCEPT !.rv = version + 1]
    OBVIOUS
  <2>4. obj \in Resources /\ obj.rv = version + 1
    <3> HIDE DEF mid, obj
    <3> QED
      BY <1>1, <2>2, <2>3 DEF Resources
  <2> QED
    BY <2>1, <2>4, BecomesStep
<1>4. CASE ChangeStatus
  <2> DEFINE obj == [Current EXCEPT !.rv = version + 1]
  <2>1. Becomes(obj) /\ obj \in Resources /\ obj.rv = version + 1
    BY <1>1, <1>4 DEF ChangeStatus, Resources
  <2> QED
    BY <2>1, BecomesStep
<1>5. CASE ChangeTraits
  <2>1. PICK traits \in SUBSET Traits :
          Becomes([Current EXCEPT !.traits = traits, !.rv = version + 1])
    BY <1>5 DEF ChangeTraits
  <2> DEFINE mid == [Current EXCEPT !.traits = traits]
             obj == [Current EXCEPT !.traits = traits, !.rv = version + 1]
  <2>2. Current \in Resources
    BY <1>1, <1>5 DEF ChangeTraits
  <2>3. mid \in Resources
    BY <2>2 DEF Resources
  <2>4. obj = [mid EXCEPT !.rv = version + 1]
    OBVIOUS
  <2>5. obj \in Resources /\ obj.rv = version + 1
    <3> HIDE DEF mid, obj
    <3> QED
      BY <1>1, <2>3, <2>4 DEF Resources
  <2> QED
    BY <2>1, <2>5, BecomesStep
<1>6. CASE Delete
  BY <1>6, BecomesStep DEF Delete
<1>7. CASE Compact
  BY <1>7 DEF Compact, IndInv, TypeOK, OrderInv, CacheInv, PassInv, Passes,
              MindsSpec, config, informer, handler
<1> QED
  BY <1>2, <1>3, <1>4, <1>5, <1>6, <1>7

-----------------------------------------------------------------------------
(* The informer. *)

\* What is left of a sequence after its first n elements.
LEMMA SuffixIs ==
  ASSUME NEW S, NEW q \in Seq(S), NEW n \in 0 .. Len(q), NEW r,
         r = SubSeq(q, n + 1, Len(q))
  PROVE  /\ r \in Seq(S)
         /\ \A i \in DOMAIN r : /\ i \in Nat \ {0} /\ n + i \in DOMAIN q
                               /\ r[i] = q[n + i]
<1>1. Len(q) \in Nat /\ n \in Nat /\ n <= Len(q) /\ DOMAIN q = 1 .. Len(q)
  OBVIOUS
<1>2. \A i \in n + 1 .. Len(q) : q[i] \in S
  BY <1>1
<1>3. /\ r \in Seq(S)
      /\ Len(r) = IF n + 1 <= Len(q) THEN Len(q) - (n + 1) + 1 ELSE 0
      /\ \A i \in 1 .. Len(q) - (n + 1) + 1 : r[i] = q[(n + 1) + i - 1]
  BY <1>1, <1>2, SubSeqProperties
<1>4. DOMAIN r = 1 .. Len(q) - n
  <2>1. DOMAIN r = 1 .. Len(r)
    BY <1>3
  <2>2. CASE n < Len(q)
    <3>1. n + 1 <= Len(q) /\ Len(q) - (n + 1) + 1 = Len(q) - n
      BY <1>1, <2>2
    <3> QED
      BY <1>3, <2>1, <3>1
  <2>3. CASE n = Len(q)
    <3>1. ~(n + 1 <= Len(q)) /\ Len(q) - n = 0
      BY <1>1, <2>3
    <3> QED
      BY <1>3, <2>1, <3>1
  <2> QED
    BY <1>1, <2>2, <2>3
<1>5. ASSUME NEW i \in DOMAIN r
      PROVE  i \in Nat \ {0} /\ n + i \in DOMAIN q /\ r[i] = q[n + i]
  <2>1. i \in 1 .. Len(q) - n /\ n + i \in DOMAIN q
    BY <1>1, <1>4
  <2>2. (n + 1) + i - 1 = n + i
    BY <1>1, <2>1
  <2> QED
    BY <1>1, <1>3, <2>1, <2>2
<1> QED
  BY <1>3, <1>5

\* The informer moves on by n changes, and a state it has seen keeps its version
\* to itself.
LEMMA Advance ==
  ASSUME TypeOK, OrderInv, NEW n \in 0 .. Len(unseen), version' = version,
         seen' = IF n = 0 THEN seen ELSE unseen[n],
         unseen' = SubSeq(unseen, n + 1, Len(unseen))
  PROVE  /\ seen' \in Resources \cup {Nil}
         /\ unseen' \in Seq(Resources \cup {Nil})
         /\ OrderInv'
         /\ seen # Nil /\ seen' # Nil => seen' = seen \/ seen'.rv # seen.rv
<1>1. /\ unseen \in Seq(Resources \cup {Nil}) /\ Len(unseen) \in Nat
      /\ DOMAIN unseen = 1 .. Len(unseen)
      /\ seen \in Resources \cup {Nil}
      /\ n \in Nat /\ n <= Len(unseen)
  BY DEF TypeOK
<1>2. /\ unseen' \in Seq(Resources \cup {Nil})
      /\ \A i \in DOMAIN unseen' : /\ i \in Nat \ {0} /\ n + i \in DOMAIN unseen
                                  /\ unseen'[i] = unseen[n + i]
  BY <1>1, SuffixIs
<1>3. n # 0 => n \in DOMAIN unseen
  BY <1>1
<1>4. seen' \in Resources \cup {Nil}
  BY <1>1, <1>3
<1>5. /\ version \in Nat
      /\ seen # Nil => seen.rv \in Nat
      /\ \A i \in DOMAIN unseen : unseen[i] # Nil => unseen[i].rv \in Nat
  BY <1>1 DEF TypeOK, Resources
<1>6. seen # Nil /\ seen' # Nil => seen' = seen \/ seen'.rv # seen.rv
  BY <1>3, <1>5 DEF OrderInv
<1>7. OrderInv'
  <2>1. seen' # Nil => seen'.rv <= version'
    BY <1>3 DEF OrderInv
  <2>2. ASSUME NEW i \in DOMAIN unseen', unseen'[i] # Nil
        PROVE  /\ unseen'[i].rv <= version'
               /\ seen' # Nil => seen'.rv < unseen'[i].rv
    <3>1. n + i \in DOMAIN unseen /\ unseen'[i] = unseen[n + i]
      BY <1>2
    <3>2. n < n + i
      BY <1>1, <1>2
    <3>3. unseen'[i].rv <= version'
      BY <2>2, <3>1 DEF OrderInv
    <3>4. CASE n = 0
      BY <2>2, <3>1, <3>3, <3>4 DEF OrderInv
    <3>5. CASE n # 0
      <4>1. n \in DOMAIN unseen /\ seen' = unseen[n]
        BY <1>3, <3>5
      <4> QED
        BY <2>2, <3>1, <3>2, <3>3, <4>1 DEF OrderInv
    <3> QED
      BY <3>4, <3>5
  <2>3. ASSUME NEW i \in DOMAIN unseen', NEW j \in DOMAIN unseen',
               unseen'[i] # Nil, unseen'[j] # Nil, i < j
        PROVE  unseen'[i].rv < unseen'[j].rv
    <3>1. n + i \in DOMAIN unseen /\ n + j \in DOMAIN unseen /\ n + i < n + j
      BY <1>1, <1>2, <2>3
    <3>2. unseen'[i] = unseen[n + i] /\ unseen'[j] = unseen[n + j]
      BY <1>2
    <3> QED
      BY <2>3, <3>1, <3>2 DEF OrderInv
  <2> QED
    BY <2>1, <2>2, <2>3 DEF OrderInv
<1> QED
  BY <1>2, <1>4, <1>6, <1>7

\* News of the spec: an addition, a deletion or a change of the generation.
\* Filters that are meant to pass it do.
LEMMA NewsPasses ==
  ASSUME TypeOK, MindsSpec, NEW e \in Events,
         \/ e.op # "update"
         \/ /\ e.prev \in Resources /\ e.obj \in Resources
            /\ e.prev # Nil /\ e.obj # Nil
            /\ e.prev.gen # e.obj.gen /\ e.prev.rv # e.obj.rv
  PROVE  Passes(e)
<1>1. /\ GenerationChanged(e) = TRUE
      /\ ResourceVersionChanged(e) = TRUE
  BY DEF GenerationChanged, ResourceVersionChanged, Unknown
<1>2. ASSUME NEW i \in DOMAIN filters
      PROVE  Verdict(filters[i], e) # FALSE
  <2>1. filters[i] \in FilterNames \ {"resync"}
    BY ObserverAssumption DEF TypeOK, MindsSpec, ObserverAssumption
  <2>2. CASE filters[i] = "nil"
    <3>1. Verdict(filters[i], e) = Nil
      BY <2>2 DEF Verdict
    <3> QED
      BY <3>1, NilAssumption DEF NilAssumption
  <2>3. CASE filters[i] = "generation"
    <3>1. Verdict(filters[i], e) = GenerationChanged(e)
      BY <2>3 DEF Verdict
    <3> QED
      BY <1>1, <3>1
  <2>4. CASE filters[i] = "version"
    <3>1. Verdict(filters[i], e) = ResourceVersionChanged(e)
      BY <2>4 DEF Verdict
    <3> QED
      BY <1>1, <3>1
  <2>5. CASE filters[i] = "either"
    <3> DEFINE vs == <<Nil, GenerationChanged(e),
                       Not(ResourceVersionChanged(e))>>
    <3>1. Verdict(filters[i], e) = Or(vs)
      BY <2>5 DEF Verdict
    <3>2. 2 \in DOMAIN vs /\ vs[2] = TRUE
      BY <1>1
    <3>3. Or(vs) = TRUE
      BY <3>2 DEF Or
    <3> QED
      BY <3>1, <3>3
  <2> QED
    BY <2>1, <2>2, <2>3, <2>4, <2>5 DEF FilterNames
<1> QED
  BY <1>2 DEF Passes, combine, And

\* An event that is appended comes last and the others stay.
LEMMA NotifyAdds ==
  ASSUME TypeOK, NEW e \in Events, Notify(e)
  PROVE  /\ events' \in Seq(Events) /\ Len(events') <= MaxEvents
         /\ \A i \in DOMAIN events :
              i \in DOMAIN events' /\ events'[i] = events[i]
         /\ \E i \in DOMAIN events' : events'[i] = e
<1>1. events \in Seq(Events) /\ Len(events) \in Nat /\ MaxEvents \in Nat
  BY ObserverAssumption DEF TypeOK, ObserverAssumption
<1>2. events' = Append(events, e) /\ Len(events) < MaxEvents
  BY DEF Notify
<1>3. Len(events) + 1 \in DOMAIN events' /\ events'[Len(events) + 1] = e
  BY <1>1, <1>2
<1> QED
  BY <1>1, <1>2, <1>3

\* The cache changes from one state of the resource to another, and says so.
\* A change of the spec that is announced passes, an older one stays on its way.
LEMMA CacheChange ==
  ASSUME TypeOK, PassInv, NEW c \in Resources \cup {Nil}, cached' = c,
         UNCHANGED <<filters, due, handled, gaveUp>>,
         cached # Nil /\ c # Nil => c = cached \/ c.rv # cached.rv,
         \/ c = cached /\ UNCHANGED events
         \/ \E e \in Events :
              /\ Notify(e)
              /\ \/ e.op # "update"
                 \/ c \notin {cached, Nil} /\ cached # Nil
                      /\ e.prev = cached /\ e.obj = c
  PROVE  /\ events' \in Seq(Events) /\ Len(events') <= MaxEvents
         /\ PassInv'
<1>1. CASE c = cached /\ UNCHANGED events
  BY <1>1 DEF TypeOK, PassInv, Passes, MindsSpec
<1>2. ASSUME NEW e \in Events, Notify(e),
             \/ e.op # "update"
             \/ c \notin {cached, Nil} /\ cached # Nil
                  /\ e.prev = cached /\ e.obj = c
      PROVE  /\ events' \in Seq(Events) /\ Len(events') <= MaxEvents
             /\ PassInv'
  <2>1. /\ events' \in Seq(Events) /\ Len(events') <= MaxEvents
        /\ \A i \in DOMAIN events :
             i \in DOMAIN events' /\ events'[i] = events[i]
        /\ \E i \in DOMAIN events' : events'[i] = e
    BY <1>2, NotifyAdds
  <2>2. \A d : Passes(d)' <=> Passes(d)
    BY DEF Passes
  <2> SUFFICES ASSUME ~due', ~gaveUp', MindsSpec'
               PROVE  \/ \E i \in DOMAIN events' : Passes(events'[i])
                      \/ Generation(handled') = Generation(cached')
    BY <2>1, <2>2 DEF PassInv, Generation
  <2>3. ~due /\ ~gaveUp /\ MindsSpec
    BY DEF MindsSpec
  <2>4. CASE \E i \in DOMAIN events : Passes(events[i])
    BY <2>1, <2>4
  <2>5. CASE Passes(e)
    BY <2>1, <2>5
  <2>6. CASE ~Passes(e) /\ Generation(handled) = Generation(cached)
    <3>1. /\ e.op = "update" /\ c \notin {cached, Nil} /\ cached # Nil
          /\ e.prev = cached /\ e.obj = c
      BY <1>2, <2>3, <2>6, NewsPasses
    <3>2. cached \in Resources /\ c \in Resources
      BY <3>1 DEF TypeOK
    <3>3. cached.gen = c.gen
      BY <2>3, <2>6, <3>1, <3>2, NewsPasses
    <3> QED
      BY <2>6, <3>1, <3>3 DEF Generation
  <2> QED
    BY <2>3, <2>4, <2>5, <2>6 DEF PassInv
<1> QED
  BY <1>1, <1>2

\* The two ways to change the cache are such changes.
LEMMA UpsertChanges ==
  ASSUME TypeOK, NEW c \in Resources \cup {Nil},
         \/ c # Nil /\ Upsert(c)
         \/ c = Nil /\ \E tombstone \in BOOLEAN : Evict(tombstone)
         \/ c = Nil /\ UNCHANGED <<cached, events>> /\ cached = Nil
  PROVE  /\ cached' = c
         /\ \/ c = cached /\ UNCHANGED events
            \/ \E e \in Events :
                 /\ Notify(e)
                 /\ \/ e.op # "update"
                    \/ c \notin {cached, Nil} /\ cached # Nil
                         /\ e.prev = cached /\ e.obj = c
<1>1. cached \in Resources \cup {Nil} /\ Nil \in Resources \cup {Nil}
  BY DEF TypeOK
<1>2. \A prev, obj \in Resources \cup {Nil} :
      \A op \in {"add", "update", "delete"} :
        /\ Event(op, prev, obj) \in Events
        /\ Event(op, prev, obj).op = op
        /\ Event(op, prev, obj).prev = prev
        /\ Event(op, prev, obj).obj = obj
  BY DEF Event, Events
<1>3. CASE c # Nil /\ Upsert(c)
  BY <1>1, <1>2, <1>3 DEF Upsert
<1>4. CASE c = Nil /\ \E tombstone \in BOOLEAN : Evict(tombstone)
  BY <1>1, <1>2, <1>4 DEF Evict
<1>5. CASE c = Nil /\ UNCHANGED <<cached, events>> /\ cached = Nil
  BY <1>5
<1> QED
  BY <1>3, <1>4, <1>5

\* The cache follows what the informer sees next, by a List or by the Watch.
LEMMA FollowStep ==
  ASSUME IndInv, NEW n \in 0 .. Len(unseen), NEW c, cached' = c,
         seen' = IF n = 0 THEN seen ELSE unseen[n],
         unseen' = SubSeq(unseen, n + 1, Len(unseen)),
         c = IF Selects(ListOptions(stack, {}), seen') THEN seen' ELSE Nil,
         \/ c # Nil /\ Upsert(c)
         \/ c = Nil /\ \E tombstone \in BOOLEAN : Evict(tombstone)
         \/ c = Nil /\ UNCHANGED <<cached, events>> /\ cached = Nil,
         UNCHANGED <<config, version, losses, handler>>,
         old' \in BOOLEAN, latest' \in BOOLEAN, phase' \in {"list", "watch"}
  PROVE  IndInv'
<1> USE DEF config, handler
<1>1. /\ seen' \in Resources \cup {Nil}
      /\ unseen' \in Seq(Resources \cup {Nil})
      /\ OrderInv'
      /\ seen # Nil /\ seen' # Nil => seen' = seen \/ seen'.rv # seen.rv
  BY Advance DEF IndInv
<1>2. c \in Resources \cup {Nil}
  BY <1>1
<1>3. cached # Nil /\ c # Nil => c = cached \/ c.rv # cached.rv
  BY <1>1 DEF IndInv, CacheInv, Selects
<1>4. /\ events' \in Seq(Events) /\ Len(events') <= MaxEvents
      /\ PassInv'
  BY <1>2, <1>3, UpsertChanges, CacheChange DEF IndInv
<1>5. CacheInv'
  BY DEF CacheInv, Selects
<1>6. TypeOK'
  BY <1>1, <1>2, <1>4 DEF IndInv, TypeOK
<1> QED
  BY <1>1, <1>4, <1>5, <1>6 DEF IndInv

\* The informer.
LEMMA InformerStep ==
  ASSUME IndInv,
         List \/ ListRefused \/ Watch \/ WatchRefused \/ WatchClosed \/ Resync
  PROVE  IndInv'
<1>0. TypeOK /\ Len(unseen) \in Nat
  BY DEF IndInv, TypeOK
<1>1. CASE List
  <2>1. PICK n \in 0 .. Len(unseen) :
          LET obj == (<<seen>> \o unseen)[n + 1] IN
          /\ seen' = obj
          /\ unseen' = SubSeq(unseen, n + 1, Len(unseen))
          /\ IF Selects(ListOptions(stack, {}), obj) THEN Upsert(obj)
             ELSE Evict(TRUE)
    BY <1>1 DEF List
  <2>2. seen' = IF n = 0 THEN seen ELSE unseen[n]
    BY <1>0, <2>1, HistoryIs
  <2> DEFINE c == IF Selects(ListOptions(stack, {}), seen') THEN seen' ELSE Nil
  <2>3. /\ cached' = c
        /\ \/ c # Nil /\ Upsert(c)
           \/ c = Nil /\ \E tombstone \in BOOLEAN : Evict(tombstone)
    BY <2>1 DEF Upsert, Evict, Selects
  <2>4. /\ UNCHANGED <<config, version, losses, handler>>
        /\ old' = FALSE /\ latest' = FALSE /\ phase' = "watch"
    BY <1>1 DEF List
  <2> QED
    BY <2>1, <2>2, <2>3, <2>4, FollowStep
<1>2. CASE Watch
  <2>1. /\ unseen # <<>> /\ seen' = Head(unseen) /\ unseen' = Tail(unseen)
        /\ UNCHANGED <<config, version, old, phase, latest, losses, handler>>
    BY <1>2 DEF Watch
  <2>2. /\ 1 \in 0 .. Len(unseen)
        /\ seen' = IF 1 = 0 THEN seen ELSE unseen[1]
        /\ unseen' = SubSeq(unseen, 1 + 1, Len(unseen))
    BY <1>0, <2>1, TailIsSubSeq DEF TypeOK
  <2> DEFINE opts == ListOptions(stack, {})
             c == IF Selects(opts, seen') THEN seen' ELSE Nil
  <2>3. \/ Selects(opts, seen') /\ Upsert(seen')
        \/ Selects(opts, seen) /\ ~Selects(opts, seen') /\ Evict(FALSE)
        \/ /\ ~Selects(opts, seen) /\ ~Selects(opts, seen')
           /\ UNCHANGED <<cached, events>>
    BY <1>2, <2>1, SameOptions DEF Watch
  <2>4. /\ cached' = c
        /\ \/ c # Nil /\ Upsert(c)
           \/ c = Nil /\ \E tombstone \in BOOLEAN : Evict(tombstone)
           \/ c = Nil /\ UNCHANGED <<cached, events>> /\ cached = Nil
    <3>1. CASE Selects(opts, seen') /\ Upsert(seen')
      BY <3>1 DEF Upsert, Selects
    <3>2. CASE ~Selects(opts, seen') /\ Evict(FALSE)
      BY <3>2 DEF Evict
    <3>3. CASE /\ ~Selects(opts, seen) /\ ~Selects(opts, seen')
               /\ UNCHANGED <<cached, events>>
      BY <3>3 DEF IndInv, CacheInv
    <3> QED
      BY <2>3, <3>1, <3>2, <3>3
  <2>5. old' \in BOOLEAN /\ latest' \in BOOLEAN /\ phase' \in {"list", "watch"}
    BY <1>0, <2>1 DEF TypeOK
  <2> QED
    BY <2>1, <2>2, <2>4, <2>5, FollowStep
<1>3. CASE ListRefused \/ WatchRefused \/ WatchClosed
  <2>1. /\ UNCHANGED <<config, version, unseen, seen, cached, events, handler>>
        /\ old' \in BOOLEAN /\ phase' \in {"list", "watch"}
    BY <1>0, <1>3
    DEF ListRefused, WatchRefused, WatchClosed, server, TypeOK
  <2>2. latest' \in BOOLEAN
    BY <1>0, <1>3 DEF ListRefused, WatchRefused, WatchClosed, Is, TypeOK
  <2>3. losses' \in 0 .. MaxLosses
    BY <1>0, <1>3, ObserverAssumption
    DEF ListRefused, WatchRefused, WatchClosed, TypeOK, ObserverAssumption
  <2> QED
    BY <2>1, <2>2, <2>3
    DEF IndInv, TypeOK, OrderInv, CacheInv, PassInv, Passes, MindsSpec,
        config, handler
<1>4. CASE Resync
  <2> DEFINE e == Event("update", cached, cached)
  <2>1. Notify(e) /\ UNCHANGED <<config, server, informer, handler>>
    BY <1>4 DEF Resync
  <2>2. e \in Events
    BY <1>0 DEF TypeOK, Event, Events
  <2>3. /\ events' \in Seq(Events) /\ Len(events') <= MaxEvents
        /\ \A i \in DOMAIN events :
             i \in DOMAIN events' /\ events'[i] = events[i]
    BY <1>0, <2>1, <2>2, NotifyAdds
  <2>4. \A d : Passes(d)' <=> Passes(d)
    BY <2>1 DEF Passes, config
  <2>5. PassInv'
    BY <2>1, <2>3, <2>4
    DEF IndInv, PassInv, MindsSpec, Generation, config, informer, handler
  <2>6. TypeOK' /\ OrderInv' /\ CacheInv'
    BY <2>1, <2>3
    DEF IndInv, TypeOK, OrderInv, CacheInv, config, server, informer, handler
  <2> QED
    BY <2>5, <2>6 DEF IndInv
<1> QED
  BY <1>1, <1>2, <1>3, <1>4

-----------------------------------------------------------------------------
(* The handler. *)

\* An event is dropped only if it does not pass.
LEMMA HandlerStep ==
  ASSUME IndInv, Enqueue \/ Reconcile \/ GiveUp
  PROVE  IndInv'
<1>1. CASE Enqueue
  <2>1. /\ events # <<>> /\ events' = Tail(events)
        /\ due' = (due \/ Passes(Head(events)))
        /\ UNCHANGED <<config, server, informer, handled, gaveUp>>
    BY <1>1 DEF Enqueue
  <2>2. events \in Seq(Events) /\ Len(events) <= MaxEvents /\ MaxEvents \in Nat
          /\ Len(events) \in Nat
    BY ObserverAssumption DEF IndInv, TypeOK, ObserverAssumption
  <2>3. /\ events' \in Seq(Events) /\ Len(events') <= MaxEvents
        /\ \A i \in DOMAIN events : i # 1 =>
             i - 1 \in DOMAIN events' /\ events'[i - 1] = events[i]
    BY <2>1, <2>2
  <2>4. \A d : Passes(d)' <=> Passes(d)
    BY <2>1 DEF Passes, config
  <2>5. PassInv'
    <3> SUFFICES ASSUME ~due', ~gaveUp', MindsSpec'
                 PROVE  \/ \E i \in DOMAIN events' : Passes(events'[i])
                        \/ Generation(handled) = Generation(cached)
      BY <2>1, <2>4 DEF PassInv, Generation, informer
    <3>1. ~due /\ ~gaveUp /\ MindsSpec /\ ~Passes(Head(events))
      BY <2>1 DEF MindsSpec, config
    <3>2. \/ \E i \in DOMAIN events : Passes(events[i])
          \/ Generation(handled) = Generation(cached)
      BY <3>1 DEF IndInv, PassInv
    <3>3. ASSUME NEW i \in DOMAIN events, Passes(events[i])
          PROVE  \E j \in DOMAIN events' : Passes(events'[j])
      <4>1. i # 1
        BY <2>1, <2>2, <3>1, <3>3
      <4> QED
        BY <2>3, <3>3, <4>1
    <3> QED
      BY <3>2, <3>3
  <2>6. due' \in BOOLEAN
    BY <2>1
  <2>7. TypeOK' /\ OrderInv' /\ CacheInv'
    BY <2>1, <2>3, <2>6
    DEF IndInv, TypeOK, OrderInv, CacheInv, config, server, informer
  <2> QED
    BY <2>5, <2>7 DEF IndInv
<1>2. CASE Reconcile
  BY <1>2
  DEF Reconcile, IndInv, TypeOK, OrderInv, CacheInv, PassInv, Generation,
      config, server, informer
<1>3. CASE GiveUp
  BY <1>3
  DEF GiveUp, IndInv, TypeOK, OrderInv, CacheInv, PassInv, config, server,
      informer
<1> QED
  BY <1>1, <1>2, <1>3

-----------------------------------------------------------------------------
(* The theorems. *)

\* The cache holds what was seen last and is selected, and a change of the spec
\* that is not reconciled is on its way to the handler, at every step.
THEOREM Invariance == Spec => []IndInv
<1>1. IndInv /\ [Next]_vars => IndInv'
  <2> SUFFICES ASSUME IndInv, [Next]_vars PROVE IndInv'
    OBVIOUS
  <2>1. CASE UNCHANGED vars
    BY <2>1
    DEF vars, config, server, informer, handler, IndInv, TypeOK, OrderInv,
        CacheInv, PassInv, Passes, MindsSpec
  <2> QED
    BY <2>1, ServerStep, InformerStep, HandlerStep DEF Next
<1> QED
  BY InitInv, <1>1, PTL DEF Spec

\* Every variable keeps its type.
THEOREM TypeCorrect == Spec => []TypeOK
BY Invariance, PTL DEF IndInv

\* The cache holds nothing that a selector of the retriever excludes, for every
\* retriever whose filters do not replace each other's selectors.
THEOREM Selection ==
  ASSUME Effective
  PROVE  Spec => []CacheSelected
<1>1. IndInv => CacheSelected
  <2> SUFFICES ASSUME IndInv, cached # Nil, NEW i \in DOMAIN stack
               PROVE  stack[i].selectors \subseteq cached.traits
    BY DEF CacheSelected
  <2>1. ListOptions(stack, {}) \subseteq cached.traits
    BY DEF IndInv, CacheInv, Selects
  <2>2. stack[i].selectors \subseteq ListOptions(stack, {})
    BY DEF Effective, IndInv, TypeOK
  <2> QED
    BY <2>1, <2>2
<1> QED
  BY Invariance, <1>1, PTL

\* A handler that minds changes of the spec, and has nothing left to do, has
\* reconciled the generation in the cache.
THEOREM SpecSeen == Spec => []SpecChangeSeen
<1>1. IndInv => SpecChangeSeen
  BY DEF IndInv, PassInv, SpecChangeSeen
<1> QED
  BY Invariance, <1>1, PTL

=============================================================================
