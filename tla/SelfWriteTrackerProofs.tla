----------------------- MODULE SelfWriteTrackerProofs -----------------------
(***************************************************************************)
(* The safety of the SelfWriteTracker for any number of versions, events   *)
(* and own writes, and any order of writes, marks, events and expiry.      *)
(***************************************************************************)
EXTENDS SelfWriteTracker, TLAPS

\* The initial state satisfies every part.
LEMMA InitInv == Init => IndInv
<1> SUFFICES ASSUME Init PROVE IndInv
  OBVIOUS
<1> USE TrackerAssumption DEF TrackerAssumption, Init
<1>1. TypeOK
  <2>1. /\ version \in Versions /\ cached \in Versions /\ seen \in Versions
        /\ events \in Seq(Events)
        /\ read = 0 /\ written = 0 /\ entry = 0
        /\ marks \in Nat /\ drops \in Nat
    BY DEF Versions
  <2>2. own \in SUBSET Versions /\ gone \in SUBSET Versions /\ fresh \in BOOLEAN
    BY Zenon
  <2> QED
    BY <2>1, <2>2 DEF TypeOK
<1>2. EntryInv
  BY DEF EntryInv
<1>3. BasisInv /\ EventsInv
  BY DEF BasisInv, EventsInv, Covered
<1> QED
  BY <1>1, <1>2, <1>3 DEF IndInv

-----------------------------------------------------------------------------
(* Types. *)

\* Reporting an event keeps the type of everything.
LEMMA NotifyType ==
  ASSUME TypeOK, NEW op \in {"add", "update", "delete"}, NEW prev \in Versions,
         NEW rv \in Versions, NEW meta \in BOOLEAN, Notify(op, prev, rv, meta),
         cached' \in Versions
  PROVE  TypeOK'
<1> DEFINE e == [op |-> op, prev |-> prev, rv |-> rv, meta |-> meta]
<1>1. e \in Events
  BY DEF Events
<1>2. events' \in Seq(Events)
  BY <1>1 DEF TypeOK, Notify
<1> QED
  BY <1>2 DEF TypeOK, Notify, server, handler, tracker, history

\* The cache moves on to a version there is.
LEMMA ObserveType ==
  ASSUME TypeOK, NEW v \in Versions, Observe(v)
  PROVE  TypeOK'
<1>1. cached \in Versions /\ cached' \in Versions
  BY DEF TypeOK, Observe
<1> QED
  BY <1>1, NotifyType DEF Observe

\* Every step keeps the types.
LEMMA TypeStep ==
  ASSUME TypeOK, [Next]_vars
  PROVE  TypeOK'
<1> USE TrackerAssumption DEF TrackerAssumption, TypeOK, Versions, vars,
        server, informer, handler, tracker, history
<1>1. CASE Change \/ Delete
  <2>1. version' \in Versions
    BY <1>1 DEF Change, Delete
  <2>2. own' = own /\ gone' \in {gone, gone \cup {version'}}
    BY <1>1 DEF Change, Delete
  <2>3. UNCHANGED <<informer, handler, tracker, history>>
    BY <1>1 DEF Change, Delete
  <2>4. gone' \in SUBSET Versions
    BY <2>1, <2>2
  <2> QED
    BY <2>1, <2>2, <2>3, <2>4
<1>2. CASE Read \/ Return
  BY <1>2 DEF Read, Return, Later
<1>3. CASE Write \/ WriteNothing
  <2>1. version' \in Versions /\ written' = version' /\ gone' = gone
    BY <1>3 DEF Write, WriteNothing
  <2>2. own' \in {own, own \cup {version'}}
    BY <1>3 DEF Write, WriteNothing
  <2>3. own' \in SUBSET Versions
    BY <2>1, <2>2
  <2>4. UNCHANGED <<informer, read, tracker, history>>
    BY <1>3 DEF Write, WriteNothing
  <2> QED
    BY <2>1, <2>3, <2>4
<1>4. CASE Mark \/ Expire
  <2>1. /\ entry' \in Versions /\ marks' \in Nat
        /\ read' \in {read, 0} /\ written' \in {written, 0}
        /\ UNCHANGED <<server, informer, seen, drops>>
    BY <1>4 DEF Mark, Expire
  <2>2. fresh' \in BOOLEAN
    BY <1>4, Zenon DEF Mark, Expire
  <2> QED
    BY <2>1, <2>2
<1>5. CASE Watch
  <2>1. cached + 1 \in Versions /\ Observe(cached + 1)
    BY <1>5 DEF Watch
  <2> QED
    BY <2>1, ObserveType
<1>6. CASE Relist
  BY <1>6, ObserveType, NotifyType DEF Relist
<1>7. CASE Resync
  BY <1>7, NotifyType DEF Resync
<1>8. CASE Filter
  <2>1. Head(events) \in Events /\ events' \in Seq(Events)
    BY <1>8 DEF Filter
  <2>2. Head(events).rv \in Versions
    BY <2>1 DEF Events
  <2>3. seen' \in Versions /\ drops' \in Nat /\ entry' \in Versions \cup {0}
    BY <1>8, <2>2 DEF Filter, Later
  <2> QED
    BY <1>8, <2>1, <2>3 DEF Filter
<1>9. CASE UNCHANGED vars
  BY <1>9
<1> QED
  BY <1>1, <1>2, <1>3, <1>4, <1>5, <1>6, <1>7, <1>8, <1>9 DEF Next

-----------------------------------------------------------------------------
(* The entry. *)

\* An event that is dropped takes the entry with it.
LEMMA DropTakesEntry ==
  ASSUME TypeOK, NEW e \in Events, Drops(e)
  PROVE  entry # 0 /\ Clears(e)
BY DEF TypeOK, Events, Versions, Drops, Clears

\* Every step keeps what is known of the entry.
LEMMA EntryStep ==
  ASSUME TypeOK, EntryInv, [Next]_vars
  PROVE  EntryInv'
<1> USE DEF EntryInv, vars, server, informer, handler, tracker, history
<1>1. CASE Mark
  BY <1>1 DEF Mark, TypeOK
<1>2. CASE Filter
  <2> DEFINE e == Head(events)
  <2>1. e \in Events
    BY <1>2 DEF Filter, TypeOK
  <2>2. /\ entry' = IF Clears(e) THEN 0 ELSE entry
        /\ drops' = IF Drops(e) THEN drops + 1 ELSE drops
        /\ marks' = marks
    BY <1>2 DEF Filter
  <2>3. drops \in Nat /\ marks \in Nat
    BY DEF TypeOK
  <2>4. CASE Drops(e)
    BY <2>1, <2>2, <2>3, <2>4, DropTakesEntry
  <2>5. CASE ~Drops(e)
    BY <2>2, <2>3, <2>5
  <2> QED
    BY <2>4, <2>5
<1>3. CASE Change \/ Delete \/ Read \/ Write \/ WriteNothing \/ Return
  BY <1>3 DEF Change, Delete, Read, Write, WriteNothing, Return
<1>4. CASE Watch \/ Relist \/ Resync
  BY <1>4 DEF Watch, Relist, Resync, Observe, Notify
<1>5. CASE Expire \/ UNCHANGED vars
  BY <1>5 DEF Expire
<1> QED
  BY <1>1, <1>2, <1>3, <1>4, <1>5 DEF Next

-----------------------------------------------------------------------------
(* What the handler knows. *)

\* The handler forgets nothing.
LEMMA SeenGrows ==
  ASSUME TypeOK, [Next]_vars
  PROVE  seen <= seen' /\ own \subseteq own'
<1> USE DEF TypeOK, Versions, vars, server, informer, handler, tracker, history
<1>1. CASE Filter
  <2>1. Head(events) \in Events
    BY <1>1 DEF Filter
  <2>2. Head(events).rv \in Nat
    BY <2>1 DEF Events
  <2> QED
    BY <1>1, <2>2 DEF Filter, Later
<1>2. CASE Change \/ Delete \/ Read \/ Write \/ WriteNothing \/ Return \/ Mark
  BY <1>2 DEF Change, Delete, Read, Write, WriteNothing, Return, Mark, Later
<1>3. CASE Watch \/ Relist \/ Resync
  BY <1>3 DEF Watch, Relist, Resync, Observe, Notify
<1>4. CASE Expire \/ UNCHANGED vars
  BY <1>4 DEF Expire
<1> QED
  BY <1>1, <1>2, <1>3, <1>4 DEF Next

\* What is covered stays covered.
LEMMA CoveredStays ==
  ASSUME TypeOK, [Next]_vars, NEW n \in Nat, Covered(n)
  PROVE  Covered(n)'
<1>1. seen <= seen' /\ own \subseteq own'
  BY SeenGrows
<1>2. seen \in Nat /\ seen' \in Nat
  BY TypeStep DEF TypeOK, Versions
<1> QED
  BY <1>1, <1>2 DEF Covered

\* Writes carry the version read, so what is written is covered as well.
LEMMA BasisStep ==
  ASSUME TypeOK, Precondition, BasisInv, [Next]_vars
  PROVE  BasisInv'
<1>1. read \in Nat /\ written \in Nat /\ entry \in Nat /\ seen \in Nat
  BY DEF TypeOK, Versions
<1>2. ASSUME NEW n \in {read, written, entry, 0}
      PROVE  Covered(n)'
  <2>1. n \in Nat /\ Covered(n)
    BY <1>1 DEF BasisInv, Covered
  <2> QED
    BY <2>1, CoveredStays
<1>3. CASE Read
  <2>1. /\ read' = cached /\ seen' = Later(cached)
        /\ UNCHANGED <<written, entry>>
    BY <1>3 DEF Read, tracker
  <2>2. \A v \in 1 .. cached : v <= seen'
    BY <2>1 DEF Later, TypeOK, Versions
  <2>3. Covered(read)'
    BY <2>1, <2>2 DEF Covered
  <2> QED
    BY <1>2, <2>1, <2>3 DEF BasisInv, Covered
<1>4. CASE Write
  <2>1. /\ written' = read + 1 /\ own' = own \cup {read + 1}
        /\ UNCHANGED <<read, entry, seen>>
    BY <1>4 DEF Write, CanWrite, tracker, history
  <2>2. \A v \in 1 .. read + 1 : v \in 1 .. read \/ v = read + 1
    BY <1>1
  <2>3. Covered(written)'
    BY <2>1, <2>2 DEF BasisInv, Covered
  <2> QED
    BY <1>2, <2>1, <2>3 DEF BasisInv, Covered
<1>5. CASE WriteNothing
  <2>1. written' = read /\ UNCHANGED <<read, entry>>
    BY <1>5 DEF WriteNothing, CanWrite, tracker
  <2> QED
    BY <1>2, <2>1 DEF BasisInv, Covered
<1>6. CASE Filter
  <2>1. entry' \in {entry, 0} /\ UNCHANGED <<read, written>>
    BY <1>6 DEF Filter, handler
  <2> QED
    BY <1>2, <2>1 DEF BasisInv, Covered
<1>7. CASE Return \/ Mark
  <2>1. /\ read' = 0 /\ written' \in {written, 0}
        /\ entry' \in {entry, written}
    BY <1>7 DEF Return, Mark, tracker
  <2> QED
    BY <1>2, <2>1 DEF BasisInv, Covered
<1>8. CASE \/ Change \/ Delete \/ Watch \/ Relist \/ Resync \/ Expire
           \/ UNCHANGED vars
  <2>1. UNCHANGED <<read, written, entry>>
    BY <1>8 DEF Change, Delete, Watch, Relist, Resync, Expire, Observe, Notify,
                vars, handler, tracker
  <2> QED
    BY <1>2, <2>1 DEF BasisInv, Covered
<1> QED
  BY <1>3, <1>4, <1>5, <1>6, <1>7, <1>8 DEF Next

-----------------------------------------------------------------------------
(* The events on their way. *)

\* The event that is reported is about the version in the cache afterwards.
LEMMA NotifyLast ==
  ASSUME TypeOK, NEW op, NEW prev, NEW rv, NEW meta, Notify(op, prev, rv, meta),
         cached' = rv
  PROVE  EventsInv'
<1> DEFINE e == [op |-> op, prev |-> prev, rv |-> rv, meta |-> meta]
<1>1. Len(events) \in Nat /\ events' = Append(events, e)
  BY DEF TypeOK, Notify
<1>2. /\ events' # <<>>
      /\ events'[Len(events')] = e
  BY <1>1 DEF TypeOK
<1> QED
  BY <1>2 DEF EventsInv

\* An event that is dropped is about a version the handler knows.
LEMMA FilterCovers ==
  ASSUME TypeOK, BasisInv, Filter
  PROVE  \A v \in 1 .. Head(events).rv : v \in own' \/ v <= seen'
<1> DEFINE e == Head(events)
<1>1. e \in Events
  BY DEF Filter, TypeOK
<1>2. e.rv \in Nat /\ seen \in Nat
  BY <1>1 DEF Events, TypeOK, Versions
<1>3. own' = own /\ seen' = IF Drops(e) THEN seen ELSE Later(e.rv)
  BY DEF Filter, server
<1>4. CASE Drops(e)
  BY <1>3, <1>4 DEF Drops, BasisInv, Covered
<1>5. CASE ~Drops(e)
  <2>1. e.rv <= seen'
    BY <1>2, <1>3, <1>5 DEF Later
  <2>2. seen' \in Nat
    BY <1>2, <1>3, <1>5 DEF Later
  <2> QED
    BY <1>2, <2>1, <2>2 DEF Covered
<1> QED
  BY <1>4, <1>5

\* Every step keeps what is known of the events on their way.
LEMMA EventsStep ==
  ASSUME TypeOK, BasisInv, EventsInv, [Next]_vars
  PROVE  EventsInv'
<1>1. CASE Watch \/ Relist \/ Resync
  BY <1>1, NotifyLast DEF Watch, Relist, Resync, Observe
<1>2. CASE Filter
  <2>1. /\ events \in Seq(Events) /\ events # <<>> /\ events' = Tail(events)
        /\ cached' = cached
    BY <1>2 DEF Filter, TypeOK
  <2>2. CASE Len(events) = 1
    <3>1. events' = <<>> /\ Head(events) = events[Len(events)]
      BY <2>1, <2>2
    <3>2. Head(events).rv = cached
      BY <2>1, <3>1 DEF EventsInv
    <3> QED
      BY <1>2, <2>1, <3>1, <3>2, FilterCovers DEF EventsInv, Covered
  <2>3. CASE Len(events) # 1
    <3>1. /\ events' # <<>>
          /\ events'[Len(events')] = events[Len(events)]
      <4> DEFINE n == Len(events)
                 t == Tail(events)
      <4>1. n \in Nat /\ n > 1 /\ Len(t) = n - 1
        BY <2>1, <2>3
      <4>2. t[n - 1] = events[n]
        BY <2>1, <4>1
      <4>3. t # <<>>
        BY <4>1
      <4> HIDE DEF n, t
      <4> QED
        BY <2>1, <4>1, <4>2, <4>3 DEF n, t
    <3> QED
      BY <2>1, <3>1 DEF EventsInv
  <2> QED
    BY <2>2, <2>3
<1>3. CASE \/ Change \/ Delete \/ Read \/ Write \/ WriteNothing \/ Return
           \/ Mark \/ Expire \/ UNCHANGED vars
  <2>1. UNCHANGED <<cached, events>>
    BY <1>3 DEF Change, Delete, Read, Write, WriteNothing, Return, Mark,
                Expire, vars, informer
  <2>2. cached \in Nat
    BY DEF TypeOK, Versions
  <2>3. Covered(cached) => Covered(cached)'
    BY <2>1, <2>2, CoveredStays DEF Covered
  <2> QED
    BY <2>1, <2>3 DEF EventsInv
<1> QED
  BY <1>1, <1>2, <1>3 DEF Next

-----------------------------------------------------------------------------
(* The theorems. *)

\* The parts of the invariant hold together in every reachable state.
THEOREM Invariance == Spec => []IndInv
<1>1. IndInv /\ [Next]_vars => IndInv'
  BY TypeStep, EntryStep, BasisStep, EventsStep DEF IndInv
<1> QED
  BY <1>1, InitInv, PTL DEF Spec

\* Every variable of the tracker and of its surroundings keeps its type.
THEOREM TypeCorrect == Spec => []TypeOK
<1>1. IndInv => TypeOK
  BY DEF IndInv
<1> QED
  BY <1>1, Invariance, PTL

\* If own writes carry the version read, Filter never hides a change by others,
\* whatever is marked late, expires, is re-listed or replayed.
THEOREM NothingHidden ==
  ASSUME Precondition
  PROVE  Spec => []ForeignChangeSeen
<1>1. IndInv => ForeignChangeSeen
  BY DEF IndInv, EventsInv, ForeignChangeSeen
<1> QED
  BY <1>1, Invariance, PTL

\* Filter drops no more events than Mark was called, with or without a
\* precondition on the writes.
THEOREM DropsBounded == Spec => []DropsOnce
<1>1. IndInv => DropsOnce
  BY DEF IndInv, TypeOK, EntryInv, DropsOnce
<1> QED
  BY <1>1, Invariance, PTL

=============================================================================
