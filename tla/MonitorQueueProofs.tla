------------------------- MODULE MonitorQueueProofs -------------------------
(***************************************************************************)
(* The accounts of the MonitorQueue and its Recorder for any number of     *)
(* items, workers and calls, on top of what QueueProofs says of the queue. *)
(***************************************************************************)
EXTENDS MonitorQueue, QueueProofs

\* A worker that is not about to take an item holds one.
LEMMA Holds ==
  ASSUME TypeOK, HeldInv, NEW w \in Workers, pc[w] \notin {"get", "exit"}
  PROVE  /\ key[w] \in Keys /\ key[w] \in processing
         /\ \A v \in Workers : v # w => key[v] # key[w]
BY DEF TypeOK, HeldInv

\* The initial state satisfies every part.
LEMMA InitInv == Init => IndInv
<1> SUFFICES ASSUME Init PROVE IndInv
  OBVIOUS
<1> USE MonitorAssumption DEF MonitorAssumption, Init, QueueInit
<1>1. TypeOK
  <2>1. queue \in Seq(Keys) /\ failures \in [Keys -> Nat]
    OBVIOUS
  <2>2. /\ dirty \in SUBSET Keys /\ processing \in SUBSET Keys
        /\ waiting \in SUBSET Keys /\ shut \in BOOLEAN
        /\ time \in SUBSET Keys /\ refused \in SUBSET Keys
    BY Zenon
  <2>3. /\ source \in Keys \cup {NoKey}
        /\ pc \in [Workers -> Phases]
        /\ key \in [Workers -> Keys \cup {NoKey}]
    BY DEF Phases
  <2>4. /\ adds \in [Keys -> Nat] /\ samples \in [Keys -> Nat]
        /\ handled \in [Keys -> Nat]
    OBVIOUS
  <2> QED
    BY <2>1, <2>2, <2>3, <2>4 DEF TypeOK, QueueTypeOK
<1>2. QueueInv
  BY DEF QueueInv, IsInjective, Range
<1>3. HeldInv
  BY DEF HeldInv
<1>4. MeasuredOnce /\ TimesAccounted
  BY DEF MeasuredOnce, TimesAccounted
<1>5. AccountInv
  BY DEF AccountInv, Owed, Calling, Count
<1> QED
  BY <1>1, <1>2, <1>3, <1>4, <1>5 DEF IndInv

-----------------------------------------------------------------------------
(* The queue and the types. *)

\* The queue keeps its discipline, whoever calls it.
LEMMA QueueStep ==
  ASSUME TypeOK, QueueInv, HeldInv, [Next]_vars
  PROVE  QueueTypeOK' /\ QueueInv'
<1>1. ASSUME UNCHANGED queueVars
      PROVE  QueueTypeOK' /\ QueueInv'
  BY <1>1 DEF TypeOK, QueueTypeOK, QueueInv, queueVars
<1>2. ASSUME NEW k \in Keys, NEW delay, PushAfter(k, delay),
             processing' = processing, failures' \in [Keys -> Nat],
             shut' = shut
      PROVE  QueueTypeOK' /\ QueueInv'
  BY <1>2, PushAfterKeeps DEF TypeOK, QueueTypeOK
<1>3. ASSUME NEW k \in Keys, Push(k), waiting' \in SUBSET Keys,
             UNCHANGED <<processing, failures, shut>>
      PROVE  QueueTypeOK' /\ QueueInv'
  BY <1>3, PushKeeps DEF TypeOK, QueueTypeOK
<1>4. ASSUME NEW k \in Keys, Forget(k)
      PROVE  QueueTypeOK' /\ QueueInv'
  BY <1>4 DEF TypeOK, QueueTypeOK, QueueInv, Forget
<1>5. CASE \E k \in Keys : AddTime(k) \/ Timer(k)
  <2>1. ASSUME NEW k \in Keys, AddTime(k)
        PROVE  QueueTypeOK' /\ QueueInv'
    BY <1>1, <2>1 DEF AddTime, LoadOrStore
  <2>2. ASSUME NEW k \in Keys, Timer(k)
        PROVE  QueueTypeOK' /\ QueueInv'
    BY <1>3, <2>2 DEF Timer, Expire, TypeOK, QueueTypeOK
  <2> QED
    BY <1>5, <2>1, <2>2
<1>6. CASE AddItem
  <2>1. source \in Keys
    BY <1>6 DEF AddItem, TypeOK
  <2>2. CASE Add(source)
    BY <1>3, <2>1, <2>2 DEF Add, TypeOK, QueueTypeOK
  <2>3. CASE AddAfter(source, 1)
    BY <1>2, <2>1, <2>3 DEF AddAfter, TypeOK, QueueTypeOK
  <2> QED
    BY <1>6, <2>2, <2>3 DEF AddItem
<1>7. CASE Stop
  BY <1>7 DEF Stop, ShutDown, TypeOK, QueueTypeOK, QueueInv
<1>8. ASSUME NEW w \in Workers, Worker(w)
      PROVE  QueueTypeOK' /\ QueueInv'
  <2>1. CASE GetItem(w)
    BY <2>1, GetKeeps DEF GetItem, TypeOK
  <2>2. CASE GetExit(w) \/ GetTime(w) \/ Handle(w)
    BY <1>1, <2>2 DEF GetExit, GetTime, Handle, LoadOrStore
  <2>3. CASE Schedule(w)
    <3>1. key[w] \in Keys
      BY <2>3, Holds DEF Schedule, Goto
    <3> QED
      BY <1>2, <2>3, <3>1 DEF Schedule, AddAfter, TypeOK, QueueTypeOK
  <2>4. CASE Requeue(w)
    <3>1. key[w] \in Keys
      BY <2>4, Holds DEF Requeue, Goto
    <3>2. ASSUME NEW delay \in 0 .. 1, AddRateLimited(key[w], delay)
          PROVE  QueueTypeOK' /\ QueueInv'
      <4>1. failures' \in [Keys -> Nat]
        BY <3>1, <3>2 DEF AddRateLimited, TypeOK, QueueTypeOK
      <4> QED
        BY <1>2, <3>1, <3>2, <4>1 DEF AddRateLimited
    <3> QED
      BY <1>4, <2>4, <3>1, <3>2 DEF Requeue
  <2>5. CASE ForgetItem(w)
    BY <1>4, <2>5, Holds DEF ForgetItem, Goto
  <2>6. CASE DoneItem(w)
    <3>1. key[w] \in processing
      BY <2>6, Holds DEF DoneItem, Goto
    <3> QED
      BY <2>6, <3>1, DoneKeeps DEF DoneItem, TypeOK
  <2> QED
    BY <1>8, <2>1, <2>2, <2>3, <2>4, <2>5, <2>6 DEF Worker
<1>9. CASE UNCHANGED vars
  BY <1>1, <1>9 DEF vars
<1> QED
  BY <1>5, <1>6, <1>7, <1>8, <1>9 DEF Next

\* The event handler, the timers and the shutdown.
LEMMA OthersType ==
  ASSUME TypeOK, QueueTypeOK',
         \/ \E k \in Keys : AddTime(k) \/ Timer(k)
         \/ AddItem \/ Stop \/ UNCHANGED vars
  PROVE  TypeOK'
<1> USE DEF TypeOK
<1>1. ASSUME NEW k \in Keys, AddTime(k)
      PROVE  TypeOK'
  BY <1>1 DEF AddTime, LoadOrStore, AddEvent
<1>2. ASSUME NEW k \in Keys, Timer(k)
      PROVE  TypeOK'
  BY <1>2 DEF Timer, callers, recorder
<1>3. CASE AddItem
  BY <1>3 DEF AddItem, recorder
<1>4. CASE Stop \/ UNCHANGED vars
  BY <1>4 DEF Stop, vars, callers, recorder
<1> QED
  BY <1>1, <1>2, <1>3, <1>4

\* A worker goes from one of its phases to another.
LEMMA GotoType ==
  ASSUME TypeOK, NEW w \in Workers, NEW from, NEW to \in Phases,
         Goto(w, from, to)
  PROVE  pc' \in [Workers -> Phases]
BY DEF TypeOK, Goto

\* The workers.
LEMMA WorkerType ==
  ASSUME TypeOK, HeldInv, QueueTypeOK', NEW w \in Workers, Worker(w)
  PROVE  TypeOK'
<1>1. pc' \in [Workers -> Phases]
  BY GotoType DEF Worker, GetItem, GetExit, GetTime, Handle, Schedule, Requeue,
                  ForgetItem, DoneItem, Phases
<1>2. key' \in [Workers -> Keys \cup {NoKey}]
  BY DEF TypeOK, Worker, GetItem, GetExit, GetTime, Handle, Schedule, Requeue,
         ForgetItem, DoneItem
<1>3. source' = source
  BY DEF Worker, GetItem, GetExit, GetTime, Handle, Schedule, Requeue,
         ForgetItem, DoneItem
<1>4. CASE GetItem(w) \/ GetExit(w) \/ Schedule(w) \/ ForgetItem(w)
  <2>1. UNCHANGED <<time, recorder, refused>>
    BY <1>4 DEF GetItem, GetExit, Schedule, ForgetItem
  <2> QED
    BY <1>1, <1>2, <1>3, <2>1 DEF TypeOK, recorder
<1>5. CASE GetTime(w)
  <2>1. /\ samples' \in [Keys -> Nat] /\ time' \in SUBSET Keys
        /\ refused' \in SUBSET Keys /\ UNCHANGED <<adds, handled>>
    BY <1>5 DEF GetTime, GetEvent, TypeOK
  <2> QED
    BY <1>1, <1>2, <1>3, <2>1 DEF TypeOK
<1>6. CASE Handle(w)
  <2>1. key[w] \in Keys
    BY <1>6, Holds DEF Handle, Goto
  <2>2. /\ adds' \in [Keys -> Nat] /\ time' \in SUBSET Keys
        /\ UNCHANGED <<samples, handled, refused>>
    BY <1>6, <2>1 DEF Handle, LoadOrStore, AddEvent, TypeOK, recorder
  <2> QED
    BY <1>1, <1>2, <1>3, <2>2 DEF TypeOK
<1>7. CASE Requeue(w)
  <2>1. key[w] \in Keys
    BY <1>7, Holds DEF Requeue, Goto
  <2>2. refused' \in SUBSET Keys /\ UNCHANGED <<time, recorder>>
    BY <1>7, <2>1 DEF Requeue, TypeOK
  <2> QED
    BY <1>1, <1>2, <1>3, <2>2 DEF TypeOK, recorder
<1>8. CASE DoneItem(w)
  <2>1. key[w] \in Keys
    BY <1>8, Holds DEF DoneItem, Goto
  <2>2. handled' \in [Keys -> Nat]
    BY <1>8, <2>1 DEF DoneItem, DoneEvent, TypeOK
  <2>3. UNCHANGED <<time, adds, samples, refused>>
    BY <1>8 DEF DoneItem
  <2> QED
    BY <1>1, <1>2, <1>3, <2>2, <2>3 DEF TypeOK
<1> QED
  BY <1>4, <1>5, <1>6, <1>7, <1>8 DEF Worker

\* Every step keeps the types.
LEMMA TypeStep ==
  ASSUME TypeOK, QueueInv, HeldInv, [Next]_vars
  PROVE  TypeOK'
BY QueueStep, OthersType, WorkerType DEF Next

-----------------------------------------------------------------------------
(* The workers and their items. *)

\* An item is in the hands of one worker from Get to Done.
LEMMA HeldStep ==
  ASSUME TypeOK, QueueInv, HeldInv, [Next]_vars
  PROVE  HeldInv'
<1> USE MonitorAssumption DEF MonitorAssumption
<1>1. ASSUME UNCHANGED <<pc, key, processing>>
      PROVE  HeldInv'
  BY <1>1 DEF HeldInv
<1>2. CASE (\E k \in Keys : AddTime(k) \/ Timer(k)) \/ AddItem \/ Stop
  BY <1>1, <1>2 DEF AddTime, Timer, AddItem, Stop, LoadOrStore, Expire, Add,
                    AddAfter, ShutDown, queueVars, callers
<1>3. ASSUME NEW w \in Workers, GetItem(w)
      PROVE  HeldInv'
  <2>1. PICK k \in Keys : Get(k) /\ key' = [key EXCEPT ![w] = k]
    BY <1>3 DEF GetItem
  <2>2. k \notin processing /\ processing' = processing \cup {k}
    BY <2>1, GetKeeps DEF Get, TypeOK
  <2>3. pc[w] = "get" /\ pc' = [pc EXCEPT ![w] = "sample"]
    BY <1>3 DEF GetItem, Goto
  <2>4. \A v \in Workers : key[v] # k
    BY <2>2 DEF HeldInv
  <2> QED
    BY <2>1, <2>2, <2>3, <2>4 DEF HeldInv, TypeOK
<1>4. ASSUME NEW w \in Workers, GetExit(w)
      PROVE  HeldInv'
  BY <1>4 DEF GetExit, Goto, HeldInv, TypeOK, queueVars
<1>5. ASSUME NEW w \in Workers, GetTime(w) \/ Handle(w) \/ Schedule(w)
                                 \/ Requeue(w) \/ ForgetItem(w)
      PROVE  HeldInv'
  <2>1. UNCHANGED <<key, processing>>
    BY <1>5 DEF GetTime, Handle, Schedule, Requeue, ForgetItem, LoadOrStore,
                AddAfter, AddRateLimited, Forget, queueVars
  <2>2. \E from, to \in Phases \ {"get", "exit"} : Goto(w, from, to)
    BY <1>5 DEF GetTime, Handle, Schedule, Requeue, ForgetItem, Phases
  <2> QED
    BY <2>1, <2>2 DEF HeldInv, TypeOK, Goto
<1>6. ASSUME NEW w \in Workers, DoneItem(w)
      PROVE  HeldInv'
  <2>1. /\ pc[w] = "done" /\ pc' = [pc EXCEPT ![w] = "get"]
        /\ key' = [key EXCEPT ![w] = NoKey]
        /\ processing' = processing \ {key[w]}
    BY <1>6 DEF DoneItem, Goto, Done
  <2>2. \A v \in Workers : v # w => key[v] # key[w]
    BY <2>1, Holds
  <2> QED
    BY <2>1, <2>2 DEF HeldInv, TypeOK
<1>7. CASE UNCHANGED vars
  BY <1>1, <1>7 DEF vars, callers, queueVars
<1> QED
  BY <1>2, <1>3, <1>4, <1>5, <1>6, <1>7 DEF Next, Worker

-----------------------------------------------------------------------------
(* The times. *)

\* A sample takes the time that was stored for it.
LEMMA MeasuredStep ==
  ASSUME TypeOK, HeldInv, MeasuredOnce, [Next]_vars
  PROVE  MeasuredOnce'
<1> USE DEF TypeOK, MeasuredOnce
<1>1. ASSUME UNCHANGED <<time, adds, samples>>
      PROVE  MeasuredOnce'
  BY <1>1
<1>2. ASSUME NEW k \in Keys, LoadOrStore(k)
      PROVE  MeasuredOnce'
  BY <1>2 DEF LoadOrStore, AddEvent
<1>3. ASSUME NEW w \in Workers, GetTime(w)
      PROVE  MeasuredOnce'
  BY <1>3 DEF GetTime, GetEvent
<1>4. ASSUME NEW w \in Workers, Handle(w)
      PROVE  MeasuredOnce'
  <2>1. key[w] \in Keys
    BY <1>4, Holds DEF Handle, Goto
  <2> QED
    BY <1>1, <1>2, <1>4, <2>1 DEF Handle, recorder
<1>5. ASSUME NEW w \in Workers, GetItem(w) \/ GetExit(w) \/ Schedule(w)
                   \/ Requeue(w) \/ ForgetItem(w) \/ DoneItem(w)
      PROVE  MeasuredOnce'
  BY <1>1, <1>5 DEF GetItem, GetExit, Schedule, Requeue, ForgetItem, DoneItem,
                    recorder
<1>6. CASE \E k \in Keys : AddTime(k)
  BY <1>2, <1>6 DEF AddTime
<1>7. CASE (\E k \in Keys : Timer(k)) \/ AddItem \/ Stop \/ UNCHANGED vars
  BY <1>1, <1>7 DEF Timer, AddItem, Stop, vars, recorder
<1> QED
  BY <1>3, <1>4, <1>5, <1>6, <1>7 DEF Next, Worker

\* A time that is stored is on its way into the queue, and leaves with its item.
LEMMA TimesStep ==
  ASSUME TypeOK, QueueInv, HeldInv, TimesAccounted, [Next]_vars
  PROVE  TimesAccounted'
<1> SUFFICES ASSUME NEW k \in time', ~InQueue(k)', ~Pending(k)',
                    k \notin refused', ~shut'
             PROVE  FALSE
  BY DEF TimesAccounted
<1>1. k \in Keys /\ QueueTypeOK
  BY TypeStep DEF TypeOK
<1>2. ~shut
  BY DEF Next, Worker, AddTime, Timer, AddItem, Stop, GetItem, GetExit, GetTime,
         Handle, Schedule, Requeue, ForgetItem, DoneItem, LoadOrStore, Expire,
         Add, AddAfter, AddRateLimited, Forget, Get, Done, ShutDown, vars,
         queueVars
<1>3. ASSUME time' = time, refused \subseteq refused',
             UNCHANGED <<source, pc, key>>, InQueue(k) => InQueue(k)'
      PROVE  FALSE
  BY <1>2, <1>3 DEF TimesAccounted, Pending
<1>4. CASE \E j \in Keys : AddTime(j)
  <2>1. PICK j \in Keys : AddTime(j)
    BY <1>4
  <2>2. /\ source = NoKey /\ source' = j /\ time' = time \cup {j}
        /\ UNCHANGED <<pc, key, dirty, waiting, refused>>
    BY <2>1 DEF AddTime, LoadOrStore, queueVars
  <2>3. k # j /\ k \in time
    BY <2>2 DEF Pending
  <2>4. ~Pending(k)
    BY <1>1, <2>2, MonitorAssumption DEF Pending, MonitorAssumption
  <2> QED
    BY <1>2, <2>2, <2>3, <2>4 DEF TimesAccounted, InQueue
<1>5. CASE \E j \in Keys : Timer(j)
  <2>1. PICK j \in Keys : Timer(j)
    BY <1>5
  <2>2. waiting' = waiting \ {j} /\ dirty' = dirty \cup {j}
    BY <1>1, <1>2, <2>1, PushKeeps DEF Timer, Expire
  <2> QED
    BY <1>3, <2>1, <2>2 DEF Timer, callers, InQueue
<1>6. CASE AddItem
  <2>1. source \in Keys
    BY <1>6 DEF AddItem, TypeOK
  <2>2. dirty \subseteq dirty' /\ waiting \subseteq waiting'
          /\ source \in dirty' \cup waiting'
    BY <1>1, <1>2, <1>6, <2>1, PushKeeps, PushAfterKeeps
    DEF AddItem, Add, AddAfter
  <2>3. k # source
    BY <2>2 DEF InQueue
  <2>4. Pending(k) => Pending(k)'
    BY <1>6, <2>3 DEF AddItem, Pending
  <2> QED
    BY <1>2, <1>6, <2>2, <2>4 DEF AddItem, TimesAccounted, InQueue
<1>7. CASE Stop
  BY <1>7 DEF Stop, ShutDown
<1>8. ASSUME NEW w \in Workers, Worker(w)
      PROVE  FALSE
  <2>0. /\ source' = source
        /\ \A v \in Workers : v # w => pc'[v] = pc[v] /\ key'[v] = key[v]
    BY <1>8 DEF Worker, GetItem, GetExit, GetTime, Handle, Schedule, Requeue,
                ForgetItem, DoneItem, Goto, TypeOK
  <2>1. CASE GetItem(w)
    <3>1. PICK j \in Keys : Get(j) /\ key' = [key EXCEPT ![w] = j]
      BY <2>1 DEF GetItem
    <3>2. /\ pc'[w] = "sample" /\ pc[w] = "get" /\ key'[w] = j
          /\ waiting' = waiting /\ dirty' = dirty \ {j}
          /\ time' = time /\ refused' = refused
      BY <2>1, <3>1 DEF GetItem, Goto, Get, TypeOK
    <3>3. k # j
      BY <3>2 DEF Pending
    <3> QED
      BY <1>2, <2>0, <3>2, <3>3 DEF TimesAccounted, InQueue, Pending
  <2>2. CASE GetTime(w)
    <3>1. /\ pc[w] = "sample" /\ key' = key /\ UNCHANGED <<waiting, dirty>>
          /\ time' = time \ {key[w]} /\ refused' = refused \ {key[w]}
      BY <2>2 DEF GetTime, Goto, queueVars
    <3> QED
      BY <1>2, <2>0, <3>1 DEF TimesAccounted, InQueue, Pending
  <2>3. CASE Handle(w)
    <3>1. /\ pc[w] = "handle" /\ key' = key /\ UNCHANGED <<waiting, dirty>>
          /\ refused' = refused
      BY <2>3 DEF Handle, Goto, LoadOrStore, queueVars
    <3>2. \/ time' = time
          \/ time' = time \cup {key[w]} /\ pc'[w] \in {"schedule", "requeue"}
      BY <2>3 DEF Handle, Goto, LoadOrStore, TypeOK
    <3> QED
      BY <1>2, <2>0, <3>1, <3>2 DEF TimesAccounted, InQueue, Pending
  <2>4. CASE Schedule(w)
    <3>1. /\ pc[w] = "schedule" /\ key' = key
          /\ UNCHANGED <<time, refused, processing>>
      BY <2>4 DEF Schedule, Goto, AddAfter
    <3>2. /\ dirty \subseteq dirty' /\ waiting \subseteq waiting'
          /\ key[w] \in dirty' \cup waiting'
      BY <1>1, <1>2, <2>4, <3>1, Holds, PushAfterKeeps DEF Schedule, AddAfter
    <3> QED
      BY <1>2, <2>0, <3>1, <3>2 DEF TimesAccounted, InQueue, Pending
  <2>5. CASE Requeue(w)
    <3>1. pc[w] = "requeue" /\ key' = key /\ time' = time
      BY <2>5 DEF Requeue, Goto
    <3>2. CASE \E delay \in 0 .. 1 : AddRateLimited(key[w], delay)
      <4>1. /\ dirty \subseteq dirty' /\ waiting \subseteq waiting'
            /\ key[w] \in dirty' \cup waiting'
        BY <1>1, <1>2, <3>1, <3>2, Holds, PushAfterKeeps DEF AddRateLimited
      <4>2. refused \subseteq refused'
        BY <2>5 DEF Requeue
      <4> QED
        BY <1>2, <2>0, <3>1, <4>1, <4>2 DEF TimesAccounted, InQueue, Pending
    <3>3. CASE Forget(key[w]) /\ refused' = refused \cup {key[w]}
      BY <1>2, <2>0, <3>1, <3>3 DEF TimesAccounted, InQueue, Pending, Forget
    <3> QED
      BY <2>5, <3>2, <3>3 DEF Requeue
  <2>6. CASE ForgetItem(w) \/ DoneItem(w) \/ GetExit(w)
    <3>1. /\ pc[w] \in {"forget", "done", "get"}
          /\ UNCHANGED <<time, refused, waiting, dirty>>
      BY <2>6 DEF ForgetItem, DoneItem, GetExit, Goto, Forget, Done, queueVars
    <3> QED
      BY <1>2, <2>0, <3>1 DEF TimesAccounted, InQueue, Pending
  <2> QED
    BY <1>8, <2>1, <2>2, <2>3, <2>4, <2>5, <2>6 DEF Worker
<1>9. CASE UNCHANGED vars
  BY <1>3, <1>9 DEF vars, callers, queueVars, InQueue
<1> QED
  BY <1>4, <1>5, <1>6, <1>7, <1>8, <1>9 DEF Next

-----------------------------------------------------------------------------
(* The accounts: a step that opens one more way to DoneEvent is an AddEvent, *)
(* and every other step closes one way for each one it opens.                *)

\* An item that is added again before it is taken joins its own earlier self.
LEMMA PushAfterOwes ==
  ASSUME TypeOK, QueueInv, NEW k \in Keys, NEW delay, PushAfter(k, delay),
         processing' = processing, NEW j \in Keys
  PROVE  Count(j \in waiting') + Count(j \in dirty')
           <= Count(j \in waiting) + Count(j \in dirty) + Count(j = k)
<1>1. \/ waiting' = waiting /\ (dirty' = dirty \/ dirty' = dirty \cup {k})
      \/ dirty' = dirty /\ (waiting' = waiting \/ waiting' = waiting \cup {k})
  BY DEF PushAfter, Push
<1> QED
  BY <1>1 DEF Count

\* Only the worker that holds item k announces it.
LEMMA CallingOne ==
  ASSUME TypeOK, HeldInv, NEW w \in Workers, pc[w] \notin {"get", "exit"}
  PROVE  Calling(key[w]) <=> pc[w] \in {"schedule", "requeue"}
BY Holds DEF Calling

\* The steps of worker w leave the announcements of the others alone.
LEMMA CallingOthers ==
  ASSUME TypeOK, NEW w \in Workers, NEW from, NEW to, Goto(w, from, to),
         NEW j \in Keys, key' = key, j # key[w]
  PROVE  Calling(j)' <=> Calling(j)
BY DEF Calling, Goto, TypeOK

\* What a step may do to the account of item j.
LEMMA AccountKept ==
  ASSUME TypeOK, TypeOK', AccountInv, NEW j \in Keys,
         (handled'[j] - handled[j]) + (Owed(j)' - Owed(j)) <= adds'[j] - adds[j]
  PROVE  handled'[j] + Owed(j)' <= adds'[j]
<1>1. /\ handled[j] + Owed(j) <= adds[j]
      /\ handled[j] \in Int /\ handled'[j] \in Int
      /\ adds[j] \in Int /\ adds'[j] \in Int
  BY DEF AccountInv, TypeOK
<1>2. Owed(j) \in Int /\ Owed(j)' \in Int
  BY DEF Owed, Count
<1> QED
  BY <1>1, <1>2

\* The event handler announces an item and queues it.
LEMMA SourceAccount ==
  ASSUME TypeOK, TypeOK', QueueInv, AccountInv, NEW j \in Keys,
         (\E k \in Keys : AddTime(k)) \/ AddItem
  PROVE  handled'[j] + Owed(j)' <= adds'[j]
<1> USE MonitorAssumption DEF MonitorAssumption
<1>1. ASSUME NEW k \in Keys, AddTime(k)
      PROVE  handled'[j] + Owed(j)' <= adds'[j]
  <2>1. /\ source = NoKey /\ source' = k
        /\ adds' = [adds EXCEPT ![k] = @ + 1]
        /\ UNCHANGED <<handled, waiting, dirty, processing, pc, key>>
    BY <1>1 DEF AddTime, LoadOrStore, AddEvent, queueVars
  <2>2. Calling(j)' <=> Calling(j)
    BY <2>1 DEF Calling
  <2>3. adds'[j] = adds[j] + Count(j = k) /\ handled'[j] = handled[j]
    BY <2>1 DEF TypeOK, Count
  <2>4. Owed(j)' = Owed(j) + Count(j = k)
    BY <2>1, <2>2 DEF Owed, Count
  <2>5. handled[j] \in Int /\ adds[j] \in Int /\ Owed(j) \in Int
    BY DEF TypeOK, Owed, Count
  <2> QED
    BY <2>3, <2>4, <2>5, AccountKept DEF Count
<1>2. CASE AddItem
  <2>1. /\ source \in Keys /\ source' = NoKey
        /\ UNCHANGED <<handled, adds, processing, pc, key>>
    BY <1>2 DEF AddItem, Add, AddAfter, recorder, TypeOK
  <2>2. \E delay \in {0, 1} : PushAfter(source, delay)
    BY <1>2 DEF AddItem, Add, AddAfter, PushAfter
  <2>3. Count(j \in waiting') + Count(j \in dirty')
          <= Count(j \in waiting) + Count(j \in dirty) + Count(j = source)
    BY <2>1, <2>2, PushAfterOwes
  <2>4. Calling(j)' <=> Calling(j)
    BY <2>1 DEF Calling
  <2>5. Owed(j)' <= Owed(j)
    BY <2>1, <2>3, <2>4 DEF Owed, Count
  <2>6. handled[j] \in Int /\ adds[j] \in Int /\ Owed(j) \in Int
          /\ Owed(j)' \in Int
    BY DEF TypeOK, Owed, Count
  <2> QED
    BY <2>1, <2>5, <2>6, AccountKept
<1> QED
  BY <1>1, <1>2

\* A worker turns a queued item into one in its hands, and that into a
\* DoneEvent.
LEMMA TakenAccount ==
  ASSUME TypeOK, TypeOK', QueueInv, HeldInv, AccountInv, NEW j \in Keys,
         NEW w \in Workers, GetItem(w) \/ DoneItem(w)
  PROVE  handled'[j] + Owed(j)' <= adds'[j]
<1> USE MonitorAssumption DEF MonitorAssumption
<1>1. CASE GetItem(w)
  <2>1. PICK k \in Keys : Get(k) /\ key' = [key EXCEPT ![w] = k]
    BY <1>1 DEF GetItem
  <2>2. /\ k \in dirty /\ k \notin processing
        /\ dirty' = dirty \ {k} /\ processing' = processing \cup {k}
        /\ UNCHANGED <<handled, adds, source, waiting>>
    BY <1>1, <2>1, GetKeeps DEF Get, GetItem, recorder, TypeOK
  <2>3. pc[w] = "get" /\ pc' = [pc EXCEPT ![w] = "sample"]
    BY <1>1 DEF GetItem, Goto
  <2>4. Calling(j)' <=> Calling(j)
    BY <2>1, <2>3 DEF Calling, TypeOK
  <2>5. Owed(j)' = Owed(j)
    BY <2>2, <2>4 DEF Owed, Count
  <2> QED
    BY <2>2, <2>5 DEF AccountInv
<1>2. CASE DoneItem(w)
  <2>1. /\ pc[w] = "done" /\ pc' = [pc EXCEPT ![w] = "get"]
        /\ key' = [key EXCEPT ![w] = NoKey]
        /\ processing' = processing \ {key[w]}
        /\ handled' = [handled EXCEPT ![key[w]] = @ + 1]
        /\ UNCHANGED <<adds, source, waiting, dirty>>
    BY <1>2 DEF DoneItem, DoneEvent, Done, Goto
  <2>2. key[w] \in Keys /\ key[w] \in processing
    BY <2>1, Holds
  <2>3. Calling(j)' <=> Calling(j)
    BY <2>1 DEF Calling, TypeOK
  <2>4. Owed(j)' = Owed(j) - Count(j = key[w])
    BY <2>1, <2>2, <2>3 DEF Owed, Count
  <2>5. handled'[j] = handled[j] + Count(j = key[w])
    BY <2>1, <2>2 DEF TypeOK, Count
  <2>6. handled[j] \in Int /\ adds[j] \in Int /\ Owed(j) \in Int
    BY DEF TypeOK, Owed, Count
  <2> QED
    BY <2>1, <2>4, <2>5, <2>6 DEF AccountInv, Count
<1> QED
  BY <1>1, <1>2

\* A worker announces the item in its hands and queues it again.
LEMMA AgainAccount ==
  ASSUME TypeOK, TypeOK', QueueInv, HeldInv, AccountInv, NEW j \in Keys,
         NEW w \in Workers, Handle(w) \/ Schedule(w) \/ Requeue(w)
  PROVE  handled'[j] + Owed(j)' <= adds'[j]
<1>0. /\ pc[w] \in {"handle", "schedule", "requeue"}
      /\ UNCHANGED <<key, source, processing, handled>>
  BY DEF Handle, Schedule, Requeue, Goto, LoadOrStore, AddAfter, AddRateLimited,
         Forget, recorder, queueVars
<1>1. key[w] \in Keys /\ (Calling(key[w]) <=> pc[w] \in {"schedule", "requeue"})
  BY <1>0, Holds, CallingOne
<1>2. HeldInv'
  BY HeldStep DEF Next, Worker
<1>3. Calling(key[w])' <=> pc'[w] \in {"schedule", "requeue"}
  BY <1>0, <1>1, <1>2 DEF Calling, HeldInv, TypeOK
<1>4. j # key[w] => (Calling(j)' <=> Calling(j))
  BY <1>0, CallingOthers DEF Handle, Schedule, Requeue
<1>5. /\ handled[j] \in Int /\ adds[j] \in Int /\ adds'[j] \in Int
      /\ Owed(j) \in Int /\ Owed(j)' \in Int
  BY DEF TypeOK, Owed, Count
<1>6. CASE Handle(w)
  <2>1. UNCHANGED <<waiting, dirty>>
    BY <1>6 DEF Handle, LoadOrStore, queueVars
  <2>2. pc[w] = "handle"
    BY <1>6 DEF Handle, Goto
  <2>3. CASE LoadOrStore(key[w])
    <3>1. adds'[j] = adds[j] + Count(j = key[w])
      BY <1>1, <2>3 DEF LoadOrStore, AddEvent, TypeOK, Count
    <3>2. Owed(j)' <= Owed(j) + Count(j = key[w])
      BY <1>0, <1>1, <1>4, <2>1, <2>2 DEF Owed, Count
    <3> QED
      BY <1>0, <1>5, <3>1, <3>2, AccountKept DEF Count
  <2>4. CASE pc'[w] \in {"forget", "done"} /\ UNCHANGED recorder
    <3>1. Owed(j)' <= Owed(j)
      BY <1>0, <1>3, <1>4, <2>1, <2>4 DEF Owed, Count
    <3> QED
      BY <1>0, <1>5, <2>4, <3>1, AccountKept DEF recorder
  <2> QED
    BY <1>6, <2>3, <2>4 DEF Handle, Goto, TypeOK
<1>7. CASE Schedule(w) \/ Requeue(w)
  <2>1. /\ pc[w] \in {"schedule", "requeue"} /\ pc'[w] \in {"forget", "done"}
        /\ UNCHANGED adds
    BY <1>7 DEF Schedule, Requeue, Goto, TypeOK, recorder
  <2>2. \/ \E delay \in 0 .. 1 : PushAfter(key[w], delay)
        \/ UNCHANGED <<waiting, dirty>>
    BY <1>7 DEF Schedule, Requeue, AddAfter, AddRateLimited, Forget
  <2>3. Count(j \in waiting') + Count(j \in dirty')
          <= Count(j \in waiting) + Count(j \in dirty) + Count(j = key[w])
    <3>1. CASE UNCHANGED <<waiting, dirty>>
      BY <3>1 DEF Count
    <3> QED
      BY <1>0, <1>1, <2>2, <3>1, PushAfterOwes
  <2>4. Owed(j)' <= Owed(j)
    BY <1>0, <1>1, <1>3, <1>4, <2>1, <2>3 DEF Owed, Count
  <2> QED
    BY <1>0, <1>5, <2>1, <2>4, AccountKept
<1> QED
  BY <1>6, <1>7

\* Every step keeps the accounts.
LEMMA AccountStep ==
  ASSUME TypeOK, QueueInv, HeldInv, AccountInv, [Next]_vars
  PROVE  AccountInv'
<1> SUFFICES ASSUME NEW j \in Keys
             PROVE  handled'[j] + Owed(j)' <= adds'[j]
  BY DEF AccountInv
<1>1. TypeOK'
  BY TypeStep
<1>2. ASSUME UNCHANGED <<handled, adds>>, Owed(j)' <= Owed(j)
      PROVE  handled'[j] + Owed(j)' <= adds'[j]
  <2>1. handled[j] \in Int /\ adds[j] \in Int /\ Owed(j) \in Int
          /\ Owed(j)' \in Int
    BY DEF TypeOK, Owed, Count
  <2> QED
    BY <1>1, <1>2, <2>1, AccountKept
<1>3. CASE \E k \in Keys : Timer(k)
  <2>1. PICK k \in Keys : Timer(k)
    BY <1>3
  <2>2. /\ k \in waiting /\ waiting' = waiting \ {k}
        /\ dirty' = dirty \/ dirty' = dirty \cup {k}
        /\ UNCHANGED <<processing, source, pc, key, handled, adds>>
    BY <2>1 DEF Timer, Expire, Push, callers, recorder
  <2>3. Calling(j)' <=> Calling(j)
    BY <2>2 DEF Calling
  <2>4. Owed(j)' <= Owed(j)
    BY <2>2, <2>3 DEF Owed, Count
  <2> QED
    BY <1>2, <2>2, <2>4
<1>4. CASE Stop
  <2>1. /\ waiting' = {}
        /\ UNCHANGED <<dirty, processing, source, pc, key, handled, adds>>
    BY <1>4 DEF Stop, ShutDown, callers, recorder
  <2>2. Calling(j)' <=> Calling(j)
    BY <2>1 DEF Calling
  <2>3. Owed(j)' <= Owed(j)
    BY <2>1, <2>2 DEF Owed, Count
  <2> QED
    BY <1>2, <2>1, <2>3
<1>5. ASSUME NEW w \in Workers, GetExit(w) \/ GetTime(w) \/ ForgetItem(w)
      PROVE  handled'[j] + Owed(j)' <= adds'[j]
  <2>1. UNCHANGED <<waiting, dirty, processing, source, key, handled, adds>>
    BY <1>5 DEF GetExit, GetTime, ForgetItem, Forget, queueVars, recorder
  <2>2. /\ pc[w] \in {"get", "sample", "forget"}
        /\ \E to \in {"exit", "handle", "done"} : pc' = [pc EXCEPT ![w] = to]
    BY <1>5 DEF GetExit, GetTime, ForgetItem, Goto
  <2>3. Calling(j)' <=> Calling(j)
    BY <2>1, <2>2 DEF Calling, TypeOK
  <2>4. Owed(j)' <= Owed(j)
    BY <2>1, <2>3 DEF Owed, Count
  <2> QED
    BY <1>2, <2>1, <2>4
<1>6. CASE UNCHANGED vars
  <2>1. /\ UNCHANGED <<waiting, dirty, processing, source, handled, adds>>
        /\ Calling(j)' <=> Calling(j)
    BY <1>6 DEF vars, queueVars, callers, recorder, Calling
  <2>2. Owed(j)' <= Owed(j)
    BY <2>1 DEF Owed, Count
  <2> QED
    BY <1>2, <2>1, <2>2
<1> QED
  BY <1>1, <1>3, <1>4, <1>5, <1>6, SourceAccount, TakenAccount, AgainAccount
  DEF Next, Worker

-----------------------------------------------------------------------------
(* The theorems. *)

\* The accounts of queue, map and Recorder hold at every step, for any number
\* of items, of workers and of calls.
THEOREM Invariance == Spec => []IndInv
<1>1. IndInv /\ [Next]_vars => IndInv'
  BY TypeStep, QueueStep, HeldStep, MeasuredStep, AccountStep, TimesStep
  DEF IndInv
<1> QED
  BY InitInv, <1>1, PTL DEF Spec

\* Every variable keeps its type.
THEOREM TypeCorrect == Spec => []TypeOK
BY Invariance, PTL DEF IndInv

\* No item is measured by GetEvent more often than AddEvent announced it.
THEOREM Measured == Spec => []MeasuredOnce
BY Invariance, PTL DEF IndInv

\* No item is counted by DoneEvent more often than AddEvent announced it.
THEOREM HandledBounded == Spec => []HandledOnce
<1>1. IndInv => HandledOnce
  <2> SUFFICES ASSUME IndInv, NEW k \in Keys
               PROVE  handled[k] <= adds[k]
    BY DEF HandledOnce
  <2>1. handled[k] + Owed(k) <= adds[k]
    BY DEF IndInv, AccountInv
  <2>2. handled[k] \in Int /\ adds[k] \in Int
    BY DEF IndInv, TypeOK
  <2>3. Owed(k) \in Int /\ Owed(k) >= 0
    BY DEF Owed, Count
  <2> QED
    BY <2>1, <2>2, <2>3
<1> QED
  BY Invariance, <1>1, PTL

\* The map holds times only of items that are on their way through the queue,
\* until the queue is shut down, except the ones a refused Requeue left.
THEOREM TimesKept == Spec => []TimesAccounted
BY Invariance, PTL DEF IndInv

=============================================================================
