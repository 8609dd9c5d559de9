-------------------------- MODULE ProcessorProofs --------------------------
(***************************************************************************)
(* The safety of a handler's Processor for any number of workers and       *)
(* resources, any retry limit and any delays.  IndInv is inductive; the    *)
(* lemmas show this one part at a time and the theorems follow from it.    *)
(* Under the same invariant every step of Processor is matched with a step *)
(* of the abstract Reconciler or a stutter: the one implements the other.  *)
(***************************************************************************)
EXTENDS ProcessorRefines, QueueProofs

\* A busy worker holds an item, and no two of them the same.
LEMMA HeldKey ==
  ASSUME TypeOK, HeldInv, NEW w \in Workers, Busy(w)
  PROVE  /\ key[w] \in Keys
         /\ key[w] \in processing
         /\ \A v \in Workers : v # w /\ Busy(v) => key[v] # key[w]
BY DEF TypeOK, QueueTypeOK, HeldInv, Exclusive

\* The initial states satisfy every part.
LEMMA InitInv == Init => IndInv
<1> SUFFICES ASSUME Init PROVE IndInv
  OBVIOUS
<1> USE RetriesAssumption, ProcessorAssumption DEF Init, QueueInit
<1>1. TypeOK
  <2>1. QueueTypeOK
    <3>1. queue \in Seq(Keys) /\ failures \in [Keys -> Nat]
      OBVIOUS
    <3>2. /\ dirty \in SUBSET Keys /\ processing \in SUBSET Keys
          /\ waiting \in SUBSET Keys /\ shut \in BOOLEAN
      BY Zenon
    <3> QED
      BY <3>1, <3>2 DEF QueueTypeOK
  <2>2. /\ version \in [Keys -> Nat]
        /\ live \in SUBSET Keys
        /\ events \in Seq(Events)
    OBVIOUS
  <2>3. /\ pc \in [Workers -> Phases]
        /\ key \in [Workers -> Keys \cup {NoKey}]
        /\ obj \in [Workers -> Nat]
    BY DEF Phases
  <2>4. /\ want \in [Keys -> Nat]
        /\ settled \in [Keys -> Nat]
    OBVIOUS
  <2> QED
    BY <2>1, <2>2, <2>3, <2>4 DEF TypeOK
<1>2. QueueInv
  BY DEF QueueInv, IsInjective, Range
<1>3. HeldInv
  BY DEF HeldInv, Exclusive, Busy
<1>4. RetryInv
  BY DEF RetryInv, RetryBound
<1>5. VersionInv
  BY DEF VersionInv, Range
<1>6. NoLostChange
  BY DEF NoLostChange
<1>7. DelayInv /\ ExitInv
  BY DEF DelayInv, ExitInv
<1> QED
  BY <1>1, <1>2, <1>3, <1>4, <1>5, <1>6, <1>7 DEF IndInv

-----------------------------------------------------------------------------
(* Types and the queue. *)

\* The steps of the informer and of the event handler.
LEMMA EventTypeStep ==
  ASSUME TypeOK, QueueInv,
         (\E k \in Keys : Store(k) \/ Remove(k) \/ Resync(k))
           \/ Enqueue \/ Discard
  PROVE  TypeOK' /\ QueueInv'
<1> USE DEF TypeOK, QueueTypeOK, queueVars, workerVars, history
<1>1. ASSUME NEW op \in {"add", "update", "delete"}, NEW k \in Keys,
             NEW prev \in Nat, NEW rv \in Nat, Notification(op, k, prev, rv),
             version' \in [Keys -> Nat], live' \in SUBSET Keys
      PROVE  TypeOK' /\ QueueInv'
  <2>1. [op |-> op, key |-> k, prev |-> prev, rv |-> rv] \in Events
    BY DEF Events
  <2>2. events' \in Seq(Events)
    BY <1>1, <2>1, AppendRange DEF Notification
  <2> QED
    BY <1>1, <2>2 DEF Notification, QueueInv
<1>2. ASSUME NEW k \in Keys, Store(k)
      PROVE  TypeOK' /\ QueueInv'
  <2>1. /\ version[k] \in Nat /\ version[k] + 1 \in Nat
        /\ version' \in [Keys -> Nat] /\ live' \in SUBSET Keys
    BY <1>2 DEF Store
  <2>2. CASE Notification("update", k, version[k], version[k] + 1)
    BY <1>1, <2>1, <2>2
  <2>3. CASE Notification("add", k, 0, version[k] + 1)
    BY <1>1, <2>1, <2>3
  <2> QED
    BY <1>2, <2>2, <2>3 DEF Store
<1>3. ASSUME NEW k \in Keys, Remove(k)
      PROVE  TypeOK' /\ QueueInv'
  <2>1. /\ version[k] + 1 \in Nat
        /\ version' \in [Keys -> Nat] /\ live' \in SUBSET Keys
        /\ Notification("delete", k, 0, version[k] + 1)
    BY <1>3 DEF Remove
  <2> QED
    BY <1>1, <2>1
<1>4. ASSUME NEW k \in Keys, Resync(k)
      PROVE  TypeOK' /\ QueueInv'
  <2>1. /\ version[k] \in Nat
        /\ version' \in [Keys -> Nat] /\ live' \in SUBSET Keys
        /\ Notification("update", k, version[k], version[k])
    BY <1>4 DEF Resync
  <2> QED
    BY <1>1, <2>1
<1>5. CASE Enqueue
  <2> DEFINE e == Head(events)
  <2>1. events' \in Seq(Events) /\ e \in Events
    BY <1>5, TailRange DEF Enqueue
  <2>2. e.key \in Keys /\ e.rv \in Nat
    BY <2>1 DEF Events
  <2>3. CASE AddAfter(e.key, DelayOf(e))
    <3>1. /\ queue' \in Seq(Keys) /\ dirty' \in SUBSET Keys
          /\ waiting' \in SUBSET Keys /\ QueueInv'
      BY <2>2, <2>3, PushAfterKeeps DEF AddAfter
    <3> QED
      BY <1>5, <2>1, <2>2, <2>3, <3>1 DEF Enqueue, AddAfter
  <2>4. CASE Add(e.key)
    <3>1. queue' \in Seq(Keys) /\ dirty' \in SUBSET Keys /\ QueueInv'
      BY <2>2, <2>4, PushKeeps DEF Add
    <3> QED
      BY <1>5, <2>1, <2>2, <2>4, <3>1 DEF Enqueue, Add
  <2> QED
    BY <1>5, <2>3, <2>4 DEF Enqueue, EnqueueKey
<1>6. CASE Discard
  <2>1. events' \in Seq(Events)
    BY <1>6, TailRange DEF Discard
  <2> QED
    BY <1>6, <2>1 DEF Discard, QueueInv
<1> QED
  BY <1>2, <1>3, <1>4, <1>5, <1>6

\* The steps of Run, of the context and of the delaying queue.
LEMMA LifeTypeStep ==
  ASSUME TypeOK, QueueInv, Run \/ Cancel \/ Stop \/ (\E k \in Keys : Timer(k))
  PROVE  TypeOK' /\ QueueInv'
<1> USE DEF TypeOK, QueueTypeOK, queueVars, cacheVars, workerVars, history
<1>1. CASE Run
  BY <1>1 DEF Run, QueueInv
<1>2. CASE Cancel
  BY <1>2 DEF Cancel, QueueInv
<1>3. CASE Stop
  BY <1>3 DEF Stop, ShutDown, QueueInv
<1>4. ASSUME NEW k \in Keys, Timer(k)
      PROVE  TypeOK' /\ QueueInv'
  <2>1. queue' \in Seq(Keys) /\ dirty' \in SUBSET Keys /\ QueueInv'
    BY <1>4, PushKeeps DEF Timer, Expire
  <2> QED
    BY <1>4, <2>1 DEF Timer, Expire
<1> QED
  BY <1>1, <1>2, <1>3, <1>4

\* The steps of the workers.
LEMMA WorkerTypeStep ==
  ASSUME TypeOK, QueueInv, HeldInv, NEW w \in Workers, Worker(w)
  PROVE  TypeOK' /\ QueueInv'
<1> USE DEF TypeOK, QueueTypeOK, queueVars, cacheVars, workerVars, history,
            Goto, Settle
<1>1. CASE Begin(w)
  BY <1>1 DEF Begin, QueueInv, Phases
<1>2. CASE ProcessGet(w)
  <2>1. PICK k \in Keys : Get(k) /\ key' = [key EXCEPT ![w] = k]
    BY <1>2 DEF ProcessGet
  <2>2. QueueTypeOK' /\ QueueInv'
    BY <2>1, GetKeeps
  <2> QED
    BY <1>2, <2>1, <2>2 DEF ProcessGet, Phases
<1>3. CASE ProcessExit(w)
  BY <1>3 DEF ProcessExit, QueueInv, Phases
<1>4. CASE Lookup(w)
  BY <1>4, HeldKey DEF Lookup, QueueInv, Phases, Busy
<1>5. CASE LookupAbsent(w) \/ LookupError(w)
  <2>1. CASE LookupAbsent(w)
    BY <2>1, HeldKey DEF LookupAbsent, QueueInv, Phases, Busy
  <2>2. CASE LookupError(w)
    BY <2>2, HeldKey DEF LookupError, QueueInv, Phases, Busy
  <2> QED
    BY <1>5, <2>1, <2>2
<1>6. CASE HandleOk(w) \/ HandlePanic(w)
  <2>1. CASE HandleOk(w)
    BY <2>1 DEF HandleOk, QueueInv, Phases
  <2>2. CASE HandlePanic(w)
    BY <2>2 DEF HandlePanic, QueueInv, Phases
  <2> QED
    BY <1>6, <2>1, <2>2
<1>7. CASE HandleError(w)
  BY <1>7 DEF HandleError, QueueInv, Phases
<1>8. CASE RequeueAllowed(w)
  BY <1>8 DEF RequeueAllowed, QueueInv, Phases
<1>9. CASE RequeueLimited(w)
  <2>1. key[w] \in Keys
    BY <1>9, HeldKey DEF RequeueLimited, Busy
  <2>2. PICK delay \in 0 .. 1 : AddRateLimited(key[w], delay)
    BY <1>9 DEF RequeueLimited
  <2>3. /\ queue' \in Seq(Keys) /\ dirty' \in SUBSET Keys
        /\ waiting' \in SUBSET Keys /\ QueueInv'
    BY <2>1, <2>2, PushAfterKeeps DEF AddRateLimited
  <2>4. failures' \in [Keys -> Nat]
    BY <2>1, <2>2 DEF AddRateLimited
  <2> QED
    BY <1>9, <2>2, <2>3, <2>4 DEF RequeueLimited, AddRateLimited, Phases
<1>10. CASE RequeueRefused(w)
  BY <1>10 DEF RequeueRefused, Forget, QueueInv, Phases
<1>11. CASE Schedule(w)
  <2>1. key[w] \in Keys
    BY <1>11, HeldKey DEF Schedule, Busy
  <2>2. PICK delay \in 0 .. 1 : AddAfter(key[w], delay)
    BY <1>11 DEF Schedule
  <2>3. /\ queue' \in Seq(Keys) /\ dirty' \in SUBSET Keys
        /\ waiting' \in SUBSET Keys /\ QueueInv'
    BY <2>1, <2>2, PushAfterKeeps DEF AddAfter
  <2> QED
    BY <1>11, <2>2, <2>3 DEF Schedule, AddAfter, Phases
<1>12. CASE ProcessForget(w)
  BY <1>12 DEF ProcessForget, Forget, QueueInv, Phases
<1>13. CASE ProcessDone(w)
  <2>1. key[w] \in processing
    BY <1>13, HeldKey DEF ProcessDone, Busy
  <2>2. QueueTypeOK' /\ QueueInv'
    BY <1>13, <2>1, DoneKeeps DEF ProcessDone
  <2> QED
    BY <1>13, <2>2 DEF ProcessDone, Phases
<1> QED
  BY <1>1, <1>2, <1>3, <1>4, <1>5, <1>6, <1>7, <1>8, <1>9, <1>10, <1>11,
     <1>12, <1>13 DEF Worker

\* Every step keeps the types and the queue.
LEMMA TypeStep ==
  ASSUME TypeOK, QueueInv, HeldInv, [Next]_vars
  PROVE  TypeOK' /\ QueueInv'
<1>1. CASE UNCHANGED vars
  BY <1>1 DEF TypeOK, QueueTypeOK, QueueInv, vars, queueVars, cacheVars,
              workerVars, history
<1>2. CASE Next
  BY <1>2, EventTypeStep, LifeTypeStep, WorkerTypeStep DEF Next
<1> QED
  BY <1>1, <1>2

-----------------------------------------------------------------------------
(* Which steps leave what alone. *)

\* A step outside the workers changes no worker and takes no item.
LEMMA OutsideFrame ==
  ASSUME [Next]_vars, ~(\E w \in Workers : Worker(w))
  PROVE  UNCHANGED <<workerVars, processing, failures, settled>>
<1> USE DEF queueVars, cacheVars, workerVars, history
<1>1. CASE UNCHANGED vars
  BY <1>1 DEF vars
<1>2. ASSUME NEW k \in Keys, Store(k) \/ Remove(k) \/ Resync(k)
      PROVE  UNCHANGED <<workerVars, processing, failures, settled>>
  BY <1>2 DEF Store, Remove, Resync, Notification
<1>3. ASSUME NEW k \in Keys, Timer(k)
      PROVE  UNCHANGED <<workerVars, processing, failures, settled>>
  BY <1>3 DEF Timer, Expire
<1>4. CASE Enqueue \/ Discard
  BY <1>4 DEF Enqueue, Discard, EnqueueKey, Add, AddAfter
<1>5. CASE Run \/ Cancel \/ Stop
  BY <1>5 DEF Run, Cancel, Stop, ShutDown
<1> QED
  BY <1>1, <1>2, <1>3, <1>4, <1>5 DEF Next

\* Only ProcessGet and ProcessDone change who holds which item.
LEMMA BusyFrame ==
  ASSUME TypeOK, NEW w \in Workers, Worker(w), ~ProcessGet(w), ~ProcessDone(w)
  PROVE  /\ UNCHANGED <<key, processing>>
         /\ \A v \in Workers : Busy(v)' <=> Busy(v)
<1> USE DEF TypeOK, queueVars, Goto, Busy
<1>1. CASE Begin(w) \/ ProcessExit(w)
  BY <1>1 DEF Begin, ProcessExit
<1>2. CASE Lookup(w) \/ LookupAbsent(w) \/ LookupError(w)
  BY <1>2 DEF Lookup, LookupAbsent, LookupError
<1>3. CASE HandleOk(w) \/ HandleError(w) \/ HandlePanic(w)
  BY <1>3 DEF HandleOk, HandleError, HandlePanic
<1>4. CASE RequeueAllowed(w) \/ RequeueLimited(w) \/ RequeueRefused(w)
  BY <1>4 DEF RequeueAllowed, RequeueLimited, RequeueRefused,
              AddRateLimited, Forget
<1>5. CASE Schedule(w) \/ ProcessForget(w)
  BY <1>5 DEF Schedule, ProcessForget, AddAfter, Forget
<1> QED
  BY <1>1, <1>2, <1>3, <1>4, <1>5 DEF Worker

\* A worker step changes that worker only, no event and no request.
LEMMA WorkerFrame ==
  ASSUME TypeOK, NEW w \in Workers, Worker(w)
  PROVE  /\ UNCHANGED <<cacheVars, ctx, run, want, shut>>
         /\ \A v \in Workers \ {w} :
              UNCHANGED <<pc[v], key[v], obj[v]>>
<1> USE DEF TypeOK, queueVars, history, Goto
<1>1. CASE Begin(w) \/ ProcessExit(w)
  BY <1>1 DEF Begin, ProcessExit
<1>2. CASE ProcessGet(w) \/ ProcessDone(w)
  BY <1>2 DEF ProcessGet, ProcessDone, Get, Done
<1>3. CASE Lookup(w) \/ LookupAbsent(w) \/ LookupError(w)
  BY <1>3 DEF Lookup, LookupAbsent, LookupError
<1>4. CASE HandleOk(w) \/ HandleError(w) \/ HandlePanic(w)
  BY <1>4 DEF HandleOk, HandleError, HandlePanic
<1>5. CASE RequeueAllowed(w) \/ RequeueLimited(w) \/ RequeueRefused(w)
  BY <1>5 DEF RequeueAllowed, RequeueLimited, RequeueRefused,
              AddRateLimited, Forget
<1>6. CASE Schedule(w) \/ ProcessForget(w)
  BY <1>6 DEF Schedule, ProcessForget, AddAfter, Forget
<1> QED
  BY <1>1, <1>2, <1>3, <1>4, <1>5, <1>6 DEF Worker

-----------------------------------------------------------------------------
(* One worker per item. *)

\* Every step keeps items in processing and busy workers in correspondence.
LEMMA HeldStep ==
  ASSUME TypeOK, QueueInv, HeldInv, [Next]_vars
  PROVE  HeldInv'
<1>1. CASE ~(\E w \in Workers : Worker(w))
  <2>1. UNCHANGED <<pc, key, processing>>
    BY <1>1, OutsideFrame DEF workerVars
  <2> QED
    BY <2>1 DEF HeldInv, Exclusive, Busy
<1>2. ASSUME NEW w \in Workers, Worker(w), ~ProcessGet(w), ~ProcessDone(w)
      PROVE  HeldInv'
  <2>1. /\ UNCHANGED <<key, processing>>
        /\ \A v \in Workers : Busy(v)' <=> Busy(v)
    BY <1>2, BusyFrame
  <2> QED
    BY <2>1 DEF HeldInv, Exclusive
<1>3. ASSUME NEW w \in Workers, ProcessGet(w)
      PROVE  HeldInv'
  <2>1. PICK k \in Keys : Get(k) /\ key' = [key EXCEPT ![w] = k]
    BY <1>3 DEF ProcessGet
  <2>2. k \notin processing
    BY <2>1, GetKeeps DEF TypeOK
  <2>3. /\ processing' = processing \cup {k}
        /\ key'[w] = k /\ Busy(w)' /\ ~Busy(w)
        /\ \A v \in Workers \ {w} : key'[v] = key[v] /\ (Busy(v)' <=> Busy(v))
    BY <1>3, <2>1 DEF ProcessGet, Get, Goto, Busy, TypeOK
  <2> QED
    BY <2>2, <2>3 DEF HeldInv, Exclusive
<1>4. ASSUME NEW w \in Workers, ProcessDone(w)
      PROVE  HeldInv'
  <2>1. /\ processing' = processing \ {key[w]}
        /\ ~Busy(w)' /\ Busy(w)
        /\ \A v \in Workers \ {w} : key'[v] = key[v] /\ (Busy(v)' <=> Busy(v))
    BY <1>4 DEF ProcessDone, Done, Goto, Busy, TypeOK
  <2> QED
    BY <2>1 DEF HeldInv, Exclusive
<1> QED
  BY <1>1, <1>2, <1>3, <1>4

-----------------------------------------------------------------------------
(* Retries. *)

\* Every step keeps the number of requeues within the limit: between the check
\* and the requeue nobody else can change the count of a held item.
LEMMA RetryStep ==
  ASSUME TypeOK, HeldInv, RetryInv, [Next]_vars
  PROVE  RetryInv'
<1> USE RetriesAssumption DEF RetryInv, RetryBound, CanRetry
<1>0. \A v \in Workers : pc[v] = "limit" => Busy(v) /\ key[v] \in Keys
  BY HeldKey DEF Busy
<1>1. CASE ~(\E w \in Workers : Worker(w))
  BY <1>1, OutsideFrame DEF workerVars
<1>2. ASSUME NEW w \in Workers, Worker(w), failures' = failures,
             pc'[w] # "limit"
      PROVE  RetryInv'
  BY <1>2, WorkerFrame
<1>3. ASSUME NEW w \in Workers, Worker(w),
             failures' = [failures EXCEPT ![key[w]] = 0], pc'[w] # "limit"
      PROVE  RetryInv'
  <2>1. \A k \in Keys : failures[k] \in Nat /\ failures'[k] \in {failures[k], 0}
    BY <1>3 DEF TypeOK, QueueTypeOK
  <2>2. \A v \in Workers : 
          pc'[v] = "limit" => pc[v] = "limit" /\ key'[v] = key[v]
    BY <1>3, WorkerFrame
  <2> QED
    BY <1>0, <2>1, <2>2
<1>4. ASSUME NEW w \in Workers, RequeueAllowed(w)
      PROVE  RetryInv'
  <2>1. CanRetry(key[w]) /\ failures' = failures /\ key' = key
    BY <1>4 DEF RequeueAllowed, queueVars
  <2> QED
    BY <1>4, <2>1, WorkerFrame DEF Worker
<1>5. ASSUME NEW w \in Workers, RequeueLimited(w)
      PROVE  RetryInv'
  <2>1. /\ Busy(w) /\ key[w] \in Keys /\ CanRetry(key[w])
        /\ \A v \in Workers : v # w /\ Busy(v) => key[v] # key[w]
    BY <1>5, HeldKey DEF RequeueLimited, Goto, Busy
  <2>2. /\ failures' = [failures EXCEPT ![key[w]] = @ + 1]
        /\ pc'[w] # "limit"
    BY <1>5 DEF RequeueLimited, AddRateLimited, Goto, TypeOK
  <2>3. \A v \in Workers \ {w} : pc'[v] = pc[v] /\ key'[v] = key[v]
    BY <1>5, WorkerFrame DEF Worker
  <2>4. \A k \in Keys : /\ failures[k] \in Nat
                        /\ k # key[w] => failures'[k] = failures[k]
                        /\ k = key[w] => failures'[k] = failures[k] + 1
    BY <2>1, <2>2 DEF TypeOK, QueueTypeOK
  <2>5. RetryBound'
    BY <2>1, <2>4
  <2>6. ASSUME NEW v \in Workers, pc'[v] = "limit"
        PROVE  CanRetry(key[v])' /\ key'[v] = key[v]
    BY <1>0, <2>1, <2>2, <2>3, <2>4, <2>6
  <2> QED
    BY <2>5, <2>6
<1>6. ASSUME NEW w \in Workers, Worker(w),
             ~RequeueAllowed(w), ~RequeueLimited(w)
      PROVE  /\ pc'[w] # "limit"
             /\ \/ failures' = failures
                \/ failures' = [failures EXCEPT ![key[w]] = 0]
  <2> USE DEF Goto, TypeOK, queueVars
  <2>1. CASE Begin(w) \/ ProcessGet(w) \/ ProcessExit(w) \/ ProcessDone(w)
    BY <2>1 DEF Begin, ProcessGet, ProcessExit, ProcessDone, Get, Done
  <2>2. CASE Lookup(w) \/ LookupAbsent(w) \/ LookupError(w)
    BY <2>2 DEF Lookup, LookupAbsent, LookupError
  <2>3. CASE HandleOk(w) \/ HandleError(w) \/ HandlePanic(w)
    BY <2>3 DEF HandleOk, HandleError, HandlePanic
  <2>4. CASE RequeueRefused(w) \/ Schedule(w) \/ ProcessForget(w)
    BY <2>4 DEF RequeueRefused, Schedule, ProcessForget, AddAfter, Forget
  <2> QED
    BY <1>6, <2>1, <2>2, <2>3, <2>4 DEF Worker
<1> QED
  BY <1>1, <1>2, <1>3, <1>4, <1>5, <1>6

-----------------------------------------------------------------------------
(* Versions. *)

\* The steps of the informer and of the event handler keep the versions in
\* order: the cache is ahead of every event.
LEMMA EventVersionStep ==
  ASSUME TypeOK, HeldInv, VersionInv,
         (\E k \in Keys : Store(k) \/ Remove(k) \/ Resync(k))
           \/ Enqueue \/ Discard
  PROVE  VersionInv'
<1> USE DEF TypeOK, VersionInv, history, workerVars
<1>0. \A e \in Range(events) : e.key \in Keys /\ e.rv \in Nat
  <2>1. \A e \in Range(events) : e \in Events
    BY DEF Range
  <2> QED
    BY <2>1 DEF Events
<1>1. ASSUME NEW op \in {"add", "update", "delete"}, NEW k \in Keys,
             NEW prev \in Nat, NEW rv \in Nat, Notification(op, k, prev, rv),
             version' \in [Keys -> Nat], rv <= version'[k],
             \A j \in Keys : version[j] <= version'[j]
      PROVE  VersionInv'
  <2> DEFINE e == [op |-> op, key |-> k, prev |-> prev, rv |-> rv]
  <2>1. e \in Events /\ e.key = k /\ e.rv = rv
    BY DEF Events
  <2>2. Range(events') = Range(events) \cup {e}
    BY <1>1, <2>1, AppendRange DEF Notification
  <2> HIDE DEF e
  <2>3. ASSUME NEW f \in Range(events')
        PROVE  f.rv <= version'[f.key]
    <3>1. CASE f = e
      BY <1>1, <2>1, <3>1
    <3>2. CASE f \in Range(events)
      <4>1. /\ f.key \in Keys /\ f.rv \in Nat /\ f.rv <= version[f.key]
            /\ version[f.key] \in Nat /\ version'[f.key] \in Nat
            /\ version[f.key] <= version'[f.key]
        BY <1>0, <1>1, <3>2
      <4> QED
        BY ONLY <4>1
    <3> QED
      BY <2>2, <3>1, <3>2
  <2>4. \A w \in Workers :
          pc[w] \in {"handle", "requeue", "limit"} => key[w] \in Keys
    BY HeldKey DEF Busy
  <2>5. UNCHANGED <<pc, key, obj, want, settled>>
    BY <1>1 DEF Notification
  <2>6. ASSUME NEW j \in Keys
        PROVE  want'[j] <= version'[j] /\ settled'[j] <= version'[j]
    <3>1. /\ want[j] \in Nat /\ settled[j] \in Nat
          /\ version[j] \in Nat /\ version'[j] \in Nat
      BY <1>1
    <3>2. want[j] <= version[j] /\ settled[j] <= version[j]
      OBVIOUS
    <3>3. version[j] <= version'[j]
      BY <1>1
    <3>4. want'[j] = want[j] /\ settled'[j] = settled[j]
      BY <2>5
    <3> QED
      BY ONLY <3>1, <3>2, <3>3, <3>4
  <2>7. ASSUME NEW w \in Workers, pc'[w] \in {"handle", "requeue", "limit"}
        PROVE  settled'[key'[w]] <= obj'[w] /\ obj'[w] <= version'[key'[w]]
    <3>1. /\ pc[w] \in {"handle", "requeue", "limit"}
          /\ key[w] \in Keys /\ key'[w] = key[w] /\ obj'[w] = obj[w]
      BY <2>4, <2>5, <2>7
    <3>2. settled[key[w]] <= obj[w] /\ obj[w] <= version[key[w]]
      BY <3>1
    <3>3. /\ obj[w] \in Nat /\ version[key[w]] \in Nat
          /\ version'[key[w]] \in Nat
          /\ version[key[w]] <= version'[key[w]]
      BY <1>1, <3>1
    <3>4. settled' = settled
      BY <2>5
    <3> QED
      BY ONLY <3>1, <3>2, <3>3, <3>4
  <2> QED
    BY <2>3, <2>6, <2>7
<1>2. ASSUME NEW k \in Keys, Store(k)
      PROVE  VersionInv'
  <2>1. /\ version[k] \in Nat /\ version[k] + 1 \in Nat
        /\ version' \in [Keys -> Nat]
        /\ version[k] + 1 <= version'[k]
        /\ \A j \in Keys : version[j] <= version'[j]
    BY <1>2 DEF Store
  <2>2. CASE Notification("update", k, version[k], version[k] + 1)
    BY <1>1, <2>1, <2>2
  <2>3. CASE Notification("add", k, 0, version[k] + 1)
    BY <1>1, <2>1, <2>3
  <2> QED
    BY <1>2, <2>2, <2>3 DEF Store
<1>3. ASSUME NEW k \in Keys, Remove(k)
      PROVE  VersionInv'
  <2>1. /\ version[k] + 1 \in Nat
        /\ version' \in [Keys -> Nat]
        /\ version[k] + 1 <= version'[k]
        /\ \A j \in Keys : version[j] <= version'[j]
        /\ Notification("delete", k, 0, version[k] + 1)
    BY <1>3 DEF Remove
  <2> QED
    BY <1>1, <2>1
<1>4. ASSUME NEW k \in Keys, Resync(k)
      PROVE  VersionInv'
  <2>1. /\ version[k] \in Nat
        /\ version' \in [Keys -> Nat] /\ version[k] <= version'[k]
        /\ \A j \in Keys : version[j] <= version'[j]
        /\ Notification("update", k, version[k], version[k])
    BY <1>4 DEF Resync
  <2> QED
    BY <1>1, <2>1
<1>5. ASSUME events # <<>>, events' = Tail(events),
             UNCHANGED <<version, workerVars, settled>>
      PROVE  /\ Head(events) \in Range(events)
             /\ want' = want => VersionInv'
             /\ want' = [want EXCEPT ![Head(events).key] = Head(events).rv]
                  => VersionInv'
  <2>1. Head(events) \in Range(events) /\ Range(events') \subseteq Range(events)
    BY <1>5, TailRange
  <2>2. /\ Head(events).key \in Keys
        /\ Head(events).rv <= version[Head(events).key]
    BY <1>0, <2>1
  <2> QED
    BY <1>5, <2>1, <2>2
<1>6. CASE Enqueue
  BY <1>5, <1>6 DEF Enqueue
<1>7. CASE Discard
  BY <1>5, <1>7 DEF Discard
<1> QED
  BY <1>2, <1>3, <1>4, <1>6, <1>7

\* The version a worker settles if it does so now.
Reads(w) == IF pc[w] = "lookup" THEN version[key[w]] ELSE obj[w]

\* What a worker settles lies between what was settled before and the cache.
LEMMA SettleStep ==
  ASSUME TypeOK, HeldInv, VersionInv, NEW w \in Workers, Worker(w)
  PROVE  \/ settled' = settled
         \/ /\ Busy(w) /\ key[w] \in Keys /\ key'[w] = key[w]
            /\ pc'[w] \notin {"lookup", "handle", "requeue", "limit"}
            /\ settled' = [settled EXCEPT ![key[w]] = Reads(w)]
            /\ Reads(w) \in Nat
            /\ settled[key[w]] <= Reads(w) /\ Reads(w) <= version[key[w]]
<1> USE DEF TypeOK, history, Goto, Settle
<1>1. CASE Begin(w) \/ ProcessGet(w) \/ ProcessExit(w) \/ ProcessDone(w)
  BY <1>1 DEF Begin, ProcessGet, ProcessExit, ProcessDone
<1>2. CASE Lookup(w) \/ HandleError(w) \/ RequeueAllowed(w) \/ RequeueLimited(w)
  BY <1>2 DEF Lookup, HandleError, RequeueAllowed, RequeueLimited
<1>3. CASE Schedule(w) \/ ProcessForget(w)
  BY <1>3 DEF Schedule, ProcessForget
<1>4. CASE LookupAbsent(w) \/ LookupError(w)
  <2>1. /\ Busy(w) /\ key[w] \in Keys /\ pc[w] = "lookup"
        /\ key' = key /\ pc'[w] \in {"forget", "done"}
        /\ settled' = [settled EXCEPT ![key[w]] = version[key[w]]]
    BY <1>4, HeldKey DEF LookupAbsent, LookupError, Busy
  <2>2. /\ Reads(w) = version[key[w]] /\ Reads(w) \in Nat
        /\ settled[key[w]] <= Reads(w) /\ Reads(w) <= version[key[w]]
    BY <2>1 DEF VersionInv, Reads
  <2> QED
    BY <2>1, <2>2
<1>5. CASE HandleOk(w) \/ HandlePanic(w) \/ RequeueRefused(w)
  <2>1. /\ Busy(w) /\ key[w] \in Keys /\ pc[w] \in {"handle", "requeue"}
        /\ key' = key /\ pc'[w] \in {"forget", "next", "done"}
        /\ settled' = [settled EXCEPT ![key[w]] = obj[w]]
    BY <1>5, HeldKey DEF HandleOk, HandlePanic, RequeueRefused, Busy
  <2>2. /\ Reads(w) = obj[w] /\ Reads(w) \in Nat
        /\ settled[key[w]] <= Reads(w) /\ Reads(w) <= version[key[w]]
    BY <2>1 DEF VersionInv, Reads
  <2> QED
    BY <2>1, <2>2
<1> QED
  BY <1>1, <1>2, <1>3, <1>4, <1>5 DEF Worker

\* A worker on its way to settle has just read the cache or keeps what it read.
LEMMA ReadStep ==
  ASSUME TypeOK, NEW w \in Workers, Worker(w),
         pc'[w] \in {"handle", "requeue", "limit"}
  PROVE  /\ key'[w] = key[w] /\ settled' = settled
         /\ \/ pc[w] = "lookup" /\ obj'[w] = version[key[w]]
            \/ pc[w] \in {"handle", "requeue"} /\ obj'[w] = obj[w]
<1> USE DEF TypeOK, Goto, history
<1>1. CASE Begin(w) \/ ProcessGet(w) \/ ProcessExit(w) \/ ProcessDone(w)
  BY <1>1 DEF Begin, ProcessGet, ProcessExit, ProcessDone
<1>2. CASE Lookup(w)
  BY <1>2 DEF Lookup
<1>3. CASE HandleError(w) \/ RequeueAllowed(w)
  BY <1>3 DEF HandleError, RequeueAllowed
<1>4. CASE \/ LookupAbsent(w) \/ LookupError(w) \/ HandleOk(w) \/ HandlePanic(w)
  BY <1>4 DEF LookupAbsent, LookupError, HandleOk, HandlePanic
<1>5. CASE \/ RequeueLimited(w) \/ RequeueRefused(w)
           \/ Schedule(w) \/ ProcessForget(w)
  BY <1>5 DEF RequeueLimited, RequeueRefused, Schedule, ProcessForget
<1> QED
  BY <1>1, <1>2, <1>3, <1>4, <1>5 DEF Worker

\* The steps of the workers keep the versions in order.
LEMMA WorkerVersionStep ==
  ASSUME TypeOK, HeldInv, VersionInv, NEW w \in Workers, Worker(w)
  PROVE  /\ VersionInv'
         /\ \A k \in Keys : settled[k] <= settled'[k]
<1>0. UNCHANGED <<events, version, want>>
  BY WorkerFrame DEF cacheVars
<1>1. \A v \in Workers :
        pc[v] \in {"handle", "requeue", "limit"} =>
          Busy(v) /\ key[v] \in Keys /\ (v # w /\ Busy(w) => key[v] # key[w])
  BY HeldKey DEF Busy
<1>2. \A k \in Keys :
        /\ settled[k] \in Nat
        /\ settled[k] <= settled'[k] /\ settled'[k] <= version[k]
        /\ settled'[k] # settled[k] =>
             /\ Busy(w) /\ k = key[w]
             /\ pc'[w] \notin {"handle", "requeue", "limit"}
  <2>1. CASE settled' = settled
    BY <2>1 DEF TypeOK, VersionInv
  <2>2. CASE settled' # settled
    <3>1. /\ Busy(w) /\ key[w] \in Keys
          /\ pc'[w] \notin {"handle", "requeue", "limit"}
          /\ settled' = [settled EXCEPT ![key[w]] = Reads(w)]
          /\ Reads(w) \in Nat
          /\ settled[key[w]] <= Reads(w) /\ Reads(w) <= version[key[w]]
      BY <2>2, SettleStep
    <3> QED
      BY <3>1 DEF TypeOK, VersionInv
  <2> QED
    BY <2>1, <2>2
<1>3. ASSUME NEW v \in Workers, pc'[v] \in {"handle", "requeue", "limit"}
      PROVE  settled'[key'[v]] <= obj'[v] /\ obj'[v] <= version'[key'[v]]
  <2>1. CASE v = w
    <3>1. /\ key'[w] = key[w] /\ settled' = settled
          /\ \/ pc[w] = "lookup" /\ obj'[w] = version[key[w]]
             \/ pc[w] \in {"handle", "requeue"} /\ obj'[w] = obj[w]
      BY <1>3, <2>1, ReadStep
    <3>2. pc[w] = "lookup" => key[w] \in Keys
      BY HeldKey DEF Busy
    <3> QED
      BY <1>0, <2>1, <3>1, <3>2 DEF VersionInv, TypeOK
  <2>2. CASE v # w
    <3>1. pc'[v] = pc[v] /\ key'[v] = key[v] /\ obj'[v] = obj[v]
      BY <2>2, WorkerFrame
    <3>2. settled'[key[v]] = settled[key[v]]
      BY <1>1, <1>2, <1>3, <2>2, <3>1
    <3> QED
      BY <1>0, <1>3, <3>1, <3>2 DEF VersionInv
  <2> QED
    BY <2>1, <2>2
<1>4. VersionInv'
  BY <1>0, <1>2, <1>3 DEF VersionInv
<1> QED
  BY <1>2, <1>4

\* Every step keeps the versions in order, and never settles an older one.
LEMMA VersionStep ==
  ASSUME TypeOK, HeldInv, VersionInv, [Next]_vars
  PROVE  /\ VersionInv'
         /\ \A k \in Keys : settled[k] <= settled'[k]
<1>1. CASE \E w \in Workers : Worker(w)
  BY <1>1, WorkerVersionStep
<1>2. CASE ~(\E w \in Workers : Worker(w))
  <2>1. settled' = settled /\ UNCHANGED workerVars
    BY <1>2, OutsideFrame
  <2>2. CASE (\E k \in Keys : Store(k) \/ Remove(k) \/ Resync(k))
               \/ Enqueue \/ Discard
    BY <2>1, <2>2, EventVersionStep DEF TypeOK
  <2>3. CASE \/ Run \/ Cancel \/ Stop \/ (\E k \in Keys : Timer(k))
             \/ UNCHANGED vars
    <3>1. UNCHANGED <<events, version, want>>
      BY <2>3 DEF Run, Cancel, Stop, Timer, vars, cacheVars, history
    <3> QED
      BY <2>1, <3>1 DEF VersionInv, TypeOK, workerVars
  <2> QED
    BY <1>2, <2>2, <2>3 DEF Next
<1> QED
  BY <1>1, <1>2

-----------------------------------------------------------------------------
(* No lost change. *)

\* Only ProcessGet takes an item out of the queue; a requeued or scheduled
\* item is in the queue afterwards unless it is shut down.
LEMMA QueuedStep ==
  ASSUME TypeOK, QueueInv, HeldInv, NEW w \in Workers, Worker(w), ~ProcessGet(w)
  PROVE  /\ dirty \subseteq dirty' /\ waiting \subseteq waiting'
         /\ RequeueLimited(w) => shut \/ key[w] \in dirty' \cup waiting'
<1> USE DEF queueVars, Goto, TypeOK
<1>1. CASE Begin(w) \/ ProcessExit(w) \/ ProcessDone(w)
  BY <1>1 DEF Begin, ProcessExit, ProcessDone, Done, RequeueLimited
<1>2. CASE Lookup(w) \/ LookupAbsent(w) \/ LookupError(w)
  BY <1>2 DEF Lookup, LookupAbsent, LookupError, RequeueLimited
<1>3. CASE HandleOk(w) \/ HandleError(w) \/ HandlePanic(w)
  BY <1>3 DEF HandleOk, HandleError, HandlePanic, RequeueLimited
<1>4. CASE RequeueAllowed(w) \/ RequeueRefused(w) \/ ProcessForget(w)
  BY <1>4 DEF RequeueAllowed, RequeueRefused, ProcessForget, Forget,
              RequeueLimited
<1>5. CASE RequeueLimited(w)
  <2>1. key[w] \in Keys
    BY <1>5, HeldKey DEF RequeueLimited, Busy
  <2>2. PICK delay \in 0 .. 1 : AddRateLimited(key[w], delay)
    BY <1>5 DEF RequeueLimited
  <2> QED
    BY <2>1, <2>2, PushAfterKeeps DEF AddRateLimited
<1>6. CASE Schedule(w)
  <2>1. key[w] \in Keys
    BY <1>6, HeldKey DEF Schedule, Busy
  <2>2. PICK delay \in 0 .. 1 : AddAfter(key[w], delay)
    BY <1>6 DEF Schedule
  <2> QED
    BY <1>6, <2>1, <2>2, PushAfterKeeps DEF AddAfter, Schedule, RequeueLimited
<1> QED
  BY <1>1, <1>2, <1>3, <1>4, <1>5, <1>6 DEF Worker

\* A serving worker settles what is asked for, queues the item again, or goes
\* on serving it.
LEMMA ServingStep ==
  ASSUME TypeOK, QueueInv, HeldInv, VersionInv, NEW w \in Workers, Worker(w),
         NEW k \in Keys, Serving(w, k)
  PROVE  \/ want[k] <= settled'[k]
         \/ RequeueLimited(w)
         \/ Serving(w, k)'
<1>0. /\ key[w] = k /\ want' = want
      /\ pc[w] \in {"lookup", "handle", "requeue", "limit"}
      /\ want[k] \in Nat /\ version[k] \in Nat /\ obj[w] \in Nat
      /\ want[k] <= version[k]
      /\ want[k] <= Reads(w)
  BY WorkerFrame DEF Serving, Reads, TypeOK, VersionInv
<1>1. CASE settled' # settled
  <2>1. settled' = [settled EXCEPT ![k] = Reads(w)]
    BY <1>0, <1>1, SettleStep
  <2> QED
    BY <1>0, <2>1 DEF TypeOK
<1>2. CASE pc'[w] \in {"handle", "requeue", "limit"}
  <2>1. key'[w] = k /\ obj'[w] = Reads(w)
    BY <1>0, <1>2, ReadStep DEF Reads
  <2> QED
    BY <1>0, <1>2, <2>1 DEF Serving
<1>3. CASE settled' = settled /\ pc'[w] \notin {"handle", "requeue", "limit"}
  <2> USE <1>0, <1>3 DEF Goto, TypeOK
  <2>1. CASE Begin(w) \/ ProcessGet(w) \/ ProcessExit(w) \/ ProcessDone(w)
    BY <2>1 DEF Begin, ProcessGet, ProcessExit, ProcessDone
  <2>2. CASE Lookup(w) \/ HandleError(w) \/ RequeueAllowed(w)
    BY <2>2 DEF Lookup, HandleError, RequeueAllowed
  <2>3. CASE LookupAbsent(w) \/ LookupError(w)
    BY <2>3 DEF LookupAbsent, LookupError, Settle
  <2>4. CASE HandleOk(w) \/ HandlePanic(w) \/ RequeueRefused(w)
    BY <2>4 DEF HandleOk, HandlePanic, RequeueRefused, Settle, Reads
  <2>5. CASE Schedule(w) \/ ProcessForget(w)
    BY <2>5 DEF Schedule, ProcessForget
  <2> QED
    BY <2>1, <2>2, <2>3, <2>4, <2>5 DEF Worker
<1> QED
  BY <1>1, <1>2, <1>3

\* The steps of the workers lose no change.
LEMMA WorkerNoLostStep ==
  ASSUME TypeOK, QueueInv, HeldInv, VersionInv, NoLostChange,
         NEW w \in Workers, Worker(w)
  PROVE  NoLostChange'
<1> SUFFICES ASSUME NEW k \in Keys, ~shut', ~(want'[k] <= settled'[k]),
                    k \notin dirty' \cup waiting'
             PROVE  \E v \in Workers : Serving(v, k)'
  BY DEF NoLostChange
<1>1. /\ want' = want /\ shut' = shut
      /\ \A v \in Workers \ {w} : Serving(v, k) => Serving(v, k)'
  BY WorkerFrame DEF Serving
<1>2. ~(want[k] <= settled[k])
  <2>1. want[k] \in Nat /\ settled[k] \in Nat /\ settled'[k] \in Nat
    BY WorkerTypeStep DEF TypeOK
  <2>2. settled[k] <= settled'[k]
    BY WorkerVersionStep
  <2> QED
    BY <1>1, <2>1, <2>2
<1>3. CASE ProcessGet(w)
  <2>1. PICK j \in Keys : Get(j) /\ key' = [key EXCEPT ![w] = j]
    BY <1>3 DEF ProcessGet
  <2>2. CASE j = k
    BY <1>3, <2>1, <2>2 DEF ProcessGet, Goto, Serving, TypeOK
  <2>3. CASE j # k
    <3>1. k \notin dirty \cup waiting
      BY <2>1, <2>3 DEF Get
    <3>2. ~Serving(w, k)
      BY <1>3 DEF ProcessGet, Goto, Serving
    <3> QED
      BY <1>1, <1>2, <3>1, <3>2 DEF NoLostChange
  <2> QED
    BY <2>2, <2>3
<1>4. CASE ~ProcessGet(w)
  <2>1. k \notin dirty \cup waiting
    BY <1>4, QueuedStep
  <2>2. PICK v \in Workers : Serving(v, k)
    BY <1>1, <1>2, <2>1 DEF NoLostChange
  <2>3. CASE v # w
    BY <1>1, <2>2, <2>3
  <2>4. CASE v = w
    <3>1. ~RequeueLimited(w)
      BY <1>1, <1>4, <2>2, <2>4, QueuedStep DEF Serving
    <3> QED
      BY <1>1, <2>2, <2>4, <3>1, ServingStep
  <2> QED
    BY <2>3, <2>4
<1> QED
  BY <1>3, <1>4

\* Every step loses no change.
LEMMA NoLostStep ==
  ASSUME TypeOK, QueueInv, HeldInv, VersionInv, NoLostChange, [Next]_vars
  PROVE  NoLostChange'
<1>1. CASE \E w \in Workers : Worker(w)
  BY <1>1, WorkerNoLostStep
<1>2. CASE ~(\E w \in Workers : Worker(w))
  <2>0. UNCHANGED <<workerVars, settled>>
    BY <1>2, OutsideFrame
  <2>1. ASSUME UNCHANGED want, shut => shut',
               shut' \/ (dirty \cup waiting \subseteq dirty' \cup waiting')
        PROVE  NoLostChange'
    BY <2>0, <2>1 DEF NoLostChange, Serving, workerVars
  <2>2. ASSUME NEW k \in Keys, Store(k) \/ Remove(k) \/ Resync(k)
        PROVE  NoLostChange'
    BY <2>1, <2>2 DEF Store, Remove, Resync, Notification, queueVars, history
  <2>3. ASSUME NEW k \in Keys, Timer(k)
        PROVE  NoLostChange'
    <3>1. /\ want' = want /\ shut' = shut
          /\ waiting' = waiting \ {k}
          /\ dirty' = IF shut THEN dirty ELSE dirty \cup {k}
      BY <2>3, PushKeeps DEF Timer, Expire, history, TypeOK
    <3> QED
      BY <2>1, <3>1 DEF TypeOK, QueueTypeOK
  <2>4. CASE Enqueue
    <3> DEFINE e == Head(events)
    <3>1. e \in Events /\ e.key \in Keys
      <4>1. e \in Events
        BY <2>4, TailRange DEF Enqueue, TypeOK
      <4> QED
        BY <4>1 DEF Events
    <3> HIDE DEF e
    <3>2. /\ shut' = shut
          /\ dirty \subseteq dirty' /\ waiting \subseteq waiting'
          /\ ~shut => e.key \in dirty' \cup waiting'
      <4>1. CASE AddAfter(e.key, DelayOf(e))
        BY <3>1, <4>1, PushAfterKeeps DEF AddAfter, TypeOK
      <4>2. CASE Add(e.key)
        BY <3>1, <4>2, PushKeeps DEF Add, TypeOK
      <4> QED
        BY <2>4, <4>1, <4>2 DEF Enqueue, EnqueueKey, e
    <3>3. want' = [want EXCEPT ![e.key] = e.rv]
      BY <2>4 DEF Enqueue, e
    <3>4. ASSUME NEW k \in Keys, k # e.key, ~shut', ~(want'[k] <= settled'[k]),
                 k \notin dirty' \cup waiting'
          PROVE  \E w \in Workers : Serving(w, k)'
      <4>1. want'[k] = want[k]
        BY <3>3, <3>4 DEF TypeOK
      <4>2. PICK w \in Workers : Serving(w, k)
        BY <2>0, <3>2, <3>4, <4>1 DEF NoLostChange
      <4> QED
        BY <2>0, <4>1, <4>2 DEF Serving, workerVars
    <3> QED
      BY <3>2, <3>4 DEF NoLostChange
  <2>5. CASE Discard \/ Run \/ Cancel \/ UNCHANGED vars
    BY <2>1, <2>5 DEF Discard, Run, Cancel, vars, queueVars, history
  <2>6. CASE Stop
    BY <2>1, <2>6 DEF Stop, ShutDown, history
  <2> QED
    BY <1>2, <2>2, <2>3, <2>4, <2>5, <2>6 DEF Next
<1> QED
  BY <1>1, <1>2

-----------------------------------------------------------------------------
(* Shutdown. *)

\* No step holds an item back once the queue is shut down.
LEMMA DelayStep ==
  ASSUME TypeOK, DelayInv, [Next]_vars
  PROVE  DelayInv'
<1> USE DEF DelayInv, queueVars
<1>1. ASSUME NEW w \in Workers, Worker(w)
      PROVE  DelayInv'
  <2>1. CASE Begin(w) \/ ProcessGet(w) \/ ProcessExit(w) \/ ProcessDone(w)
    BY <2>1 DEF Begin, ProcessGet, ProcessExit, ProcessDone, Get, Done
  <2>2. CASE Lookup(w) \/ LookupAbsent(w) \/ LookupError(w)
    BY <2>2 DEF Lookup, LookupAbsent, LookupError
  <2>3. CASE HandleOk(w) \/ HandleError(w) \/ HandlePanic(w)
    BY <2>3 DEF HandleOk, HandleError, HandlePanic
  <2>4. CASE RequeueAllowed(w) \/ RequeueRefused(w) \/ ProcessForget(w)
    BY <2>4 DEF RequeueAllowed, RequeueRefused, ProcessForget, Forget
  <2>5. CASE RequeueLimited(w) \/ Schedule(w)
    BY <2>5 DEF RequeueLimited, Schedule, AddRateLimited, AddAfter, PushAfter
  <2> QED
    BY <1>1, <2>1, <2>2, <2>3, <2>4, <2>5 DEF Worker
<1>2. ASSUME NEW k \in Keys, Store(k) \/ Remove(k) \/ Resync(k) \/ Timer(k)
      PROVE  DelayInv'
  BY <1>2 DEF Store, Remove, Resync, Notification, Timer, Expire
<1>3. CASE Enqueue \/ Discard
  BY <1>3 DEF Enqueue, Discard, EnqueueKey, Add, AddAfter, PushAfter
<1>4. CASE Run \/ Cancel \/ Stop \/ UNCHANGED vars
  BY <1>4 DEF Run, Cancel, Stop, ShutDown, vars
<1> QED
  BY <1>1, <1>2, <1>3, <1>4 DEF Next

\* Every step keeps the account of the workers that have returned.
LEMMA ExitStep ==
  ASSUME TypeOK, QueueInv, HeldInv, ExitInv, [Next]_vars
  PROVE  ExitInv'
<1> DEFINE Active(w) == Busy(w) \/ pc[w] = "get"
<1>1. ASSUME NEW w \in Workers, Worker(w)
      PROVE  ExitInv'
  <2>1. /\ UNCHANGED <<ctx, run, shut>>
        /\ \A v \in Workers \ {w} : pc'[v] = pc[v]
        /\ \A v \in Workers \ {w} : Active(v)' <=> Active(v)
    BY <1>1, WorkerFrame DEF Busy
  <2>2. CASE Active(w) /\ ~ProcessExit(w)
    <3>1. Active(w)' /\ pc'[w] # "exit"
      <4>1. CASE ProcessGet(w) \/ ProcessDone(w)
        BY <4>1 DEF ProcessGet, ProcessDone, Goto, Busy, TypeOK
      <4>2. CASE Begin(w)
        BY <2>2, <4>2 DEF Begin, Goto, Busy
      <4>3. CASE ~ProcessGet(w) /\ ~ProcessDone(w) /\ ~Begin(w)
        <5>1. Busy(w)
          BY <1>1, <2>2, <4>3 DEF Worker, Lookup, LookupAbsent, LookupError,
             HandleOk, HandleError, HandlePanic, RequeueAllowed, RequeueLimited,
             RequeueRefused, Schedule, ProcessForget, Goto, Busy
        <5> QED
          BY <1>1, <4>3, <5>1, BusyFrame DEF Busy
      <4> QED
        BY <4>1, <4>2, <4>3
    <3> QED
      BY <2>1, <3>1 DEF ExitInv
  <2>3. CASE ProcessExit(w)
    BY <2>1, <2>3 DEF ProcessExit, GetShutDown, queueVars, ExitInv
  <2>4. CASE ~Active(w)
    <3>1. Begin(w)
      BY <1>1, <2>4 DEF Worker, ProcessGet, ProcessExit, ProcessDone, Lookup,
         LookupAbsent, LookupError, HandleOk, HandleError, HandlePanic,
         RequeueAllowed, RequeueLimited, RequeueRefused, Schedule,
         ProcessForget, Goto, Busy
    <3>2. pc'[w] # "exit" /\ queue' = queue
      BY <3>1 DEF Begin, Goto, TypeOK, queueVars
    <3> QED
      BY <2>1, <2>4, <3>2 DEF ExitInv
  <2> QED
    BY <2>2, <2>3, <2>4
<1>2. CASE ~(\E w \in Workers : Worker(w))
  <2>0. UNCHANGED <<pc, key, obj>>
    BY <1>2, OutsideFrame DEF workerVars
  <2>1. ASSUME shut => queue' = queue /\ ctx' = ctx /\ run' = run /\ shut',
               shut' => shut \/ (run' = "stopped" /\ ctx' = "done")
        PROVE  ExitInv'
    BY <2>0, <2>1 DEF ExitInv, Busy
  <2>2. ASSUME NEW k \in Keys, Store(k) \/ Remove(k) \/ Resync(k)
        PROVE  ExitInv'
    BY <2>1, <2>2 DEF Store, Remove, Resync, Notification, queueVars
  <2>3. ASSUME NEW k \in Keys, Timer(k)
        PROVE  ExitInv'
    BY <2>1, <2>3 DEF Timer, Expire, Push
  <2>4. CASE Enqueue
    BY <2>1, <2>4 DEF Enqueue, EnqueueKey, Add, AddAfter, PushAfter, Push
  <2>5. CASE Discard \/ UNCHANGED vars
    BY <2>1, <2>5 DEF Discard, vars, queueVars
  <2>6. CASE Run \/ Cancel
    BY <2>1, <2>6 DEF Run, Cancel, queueVars, ExitInv
  <2>7. CASE Stop
    BY <2>1, <2>7 DEF Stop, ShutDown, ExitInv
  <2> QED
    BY <1>2, <2>2, <2>3, <2>4, <2>5, <2>6, <2>7 DEF Next
<1> QED
  BY <1>1, <1>2

-----------------------------------------------------------------------------
(* The theorems. *)

\* IndInv holds in every reachable state of the Processor.
THEOREM Invariance == Spec => []IndInv
<1>1. Init => IndInv
  BY InitInv
<1>2. IndInv /\ [Next]_vars => IndInv'
  BY TypeStep, HeldStep, RetryStep, VersionStep, NoLostStep, DelayStep,
     ExitStep DEF IndInv
<1> QED
  BY <1>1, <1>2, PTL DEF Spec

\* Every variable of the handler, its queue and its workers keeps its type.
THEOREM TypeCorrect == Spec => []TypeOK
<1>1. IndInv => TypeOK
  BY DEF IndInv
<1> QED
  BY <1>1, Invariance, PTL

\* No two workers ever hold the same resource key.
THEOREM MutualExclusion == Spec => []Exclusive
<1>1. IndInv => Exclusive
  BY DEF IndInv, HeldInv
<1> QED
  BY <1>1, Invariance, PTL

\* The number of requeues never exceeds Config.Retries.
THEOREM BoundedRetries == Spec => []RetryBound
<1>1. IndInv => RetryBound
  BY DEF IndInv, RetryInv
<1> QED
  BY <1>1, Invariance, PTL

\* No change whose event was queued is ever lost.
THEOREM ChangesKept == Spec => []NoLostChange
<1>1. IndInv => NoLostChange
  BY DEF IndInv
<1> QED
  BY <1>1, Invariance, PTL

\* When the last worker returns the queue holds nothing.
THEOREM DrainedAtExit == Spec => []NothingStranded
<1>1. IndInv => NothingStranded
  <2> SUFFICES ASSUME IndInv,
                      \A w \in Workers : pc[w] \in {"exit", "never"},
                      \E w \in Workers : pc[w] = "exit"
               PROVE  dirty = {} /\ processing = {}
    BY DEF NothingStranded
  <2>1. \A w \in Workers : ~Busy(w) /\ pc[w] # "get"
    BY DEF Busy
  <2>2. processing = {}
    BY <2>1 DEF IndInv, HeldInv
  <2>3. queue = <<>>
    BY <2>1 DEF IndInv, ExitInv
  <2>4. Range(queue) = {}
    BY <2>3 DEF Range
  <2> QED
    BY <2>2, <2>4 DEF IndInv, QueueInv
<1> QED
  BY <1>1, Invariance, PTL

\* Once a version was reconciled no older one is ever reconciled again.
THEOREM Monotone == Spec => NeverGoesBack
<1>1. IndInv /\ [Next]_vars => [\A k \in Keys : settled'[k] >= settled[k]]_vars
  <2> SUFFICES ASSUME IndInv, [Next]_vars
               PROVE  \A k \in Keys : settled'[k] >= settled[k]
    OBVIOUS
  <2>1. TypeOK /\ TypeOK' /\ \A k \in Keys : settled[k] <= settled'[k]
    BY TypeStep, VersionStep DEF IndInv
  <2> QED
    BY <2>1 DEF TypeOK
<1> QED
  BY <1>1, Invariance, PTL DEF Spec, NeverGoesBack

-----------------------------------------------------------------------------
(* The processor implements the Reconciler. *)

\* The initial states map to the initial state of the Reconciler.
LEMMA InitMaps == Init => Abstract!Init
<1> SUFFICES ASSUME Init PROVE Abstract!Init
  OBVIOUS
<1>1. Attempts = {}
  BY DEF Init, Attempts, Busy
<1> QED
  BY <1>1 DEF Init, QueueInit, Abstract!Init

-----------------------------------------------------------------------------
(* The attempts under a step. *)

\* What each phase of a worker is to the Reconciler.
LEMMA AttemptIs ==
  ASSUME NEW w \in Workers
  PROVE  /\ pc[w] = "lookup" => Attempt(w) = Abstract!New(key[w])
         /\ pc[w] \in {"handle", "requeue", "limit"} =>
              Attempt(w) = Abstract!Looked(key[w], obj[w])
         /\ pc[w] \in {"next", "forget", "done"} =>
              Attempt(w) = Abstract!Over(key[w])
  BY DEF Attempt, Abstract!New, Abstract!Looked, Abstract!Over

\* An attempt is on the item its worker holds.
LEMMA AttemptKey ==
  ASSUME NEW w \in Workers
  PROVE  Attempt(w).key = key[w]
  BY DEF Attempt

\* The attempts of the workers that a step of worker w leaves alone.
LEMMA OthersKept ==
  ASSUME NEW w \in Workers, NEW v \in Workers \ {w},
         UNCHANGED <<pc[v], key[v], obj[v]>>
  PROVE  Attempt(v)' = Attempt(v) /\ (Busy(v)' <=> Busy(v))
  BY DEF Attempt, Busy

\* A step that changes no worker changes no attempt.
LEMMA AttemptsKept ==
  ASSUME UNCHANGED workerVars
  PROVE  Attempts' = Attempts
  BY DEF workerVars, Attempts, Attempt, Busy

\* A step of a worker without an item before and after changes no attempt.
LEMMA AttemptsIdle ==
  ASSUME NEW w \in Workers, ~Busy(w), ~Busy(w)',
         \A v \in Workers \ {w} : UNCHANGED <<pc[v], key[v], obj[v]>>
  PROVE  Attempts' = Attempts
<1>1. \A v \in Workers \ {w} :
        Attempt(v)' = Attempt(v) /\ (Busy(v)' <=> Busy(v))
  BY OthersKept
<1>2. ASSUME NEW a PROVE a \in Attempts' <=> a \in Attempts
  BY <1>1 DEF Attempts
<1> QED
  BY <1>2

\* Taking an item starts an attempt.
LEMMA AttemptsMore ==
  ASSUME NEW w \in Workers, ~Busy(w), Busy(w)',
         \A v \in Workers \ {w} : UNCHANGED <<pc[v], key[v], obj[v]>>
  PROVE  Attempts' = Attempts \cup {Attempt(w)'}
<1>1. \A v \in Workers \ {w} :
        Attempt(v)' = Attempt(v) /\ (Busy(v)' <=> Busy(v))
  BY OthersKept
<1>2. ASSUME NEW a
      PROVE  a \in Attempts' <=> a \in Attempts \cup {Attempt(w)'}
  BY <1>1 DEF Attempts
<1> QED
  BY <1>2

\* Marking an item as done ends its attempt and no other one.
LEMMA AttemptsLess ==
  ASSUME HeldInv, NEW w \in Workers, Busy(w), ~Busy(w)',
         \A v \in Workers \ {w} : UNCHANGED <<pc[v], key[v], obj[v]>>
  PROVE  Attempts' = Attempts \ {Attempt(w)}
<1>1. \A v \in Workers \ {w} :
        Attempt(v)' = Attempt(v) /\ (Busy(v)' <=> Busy(v))
  BY OthersKept
<1>2. \A v \in Workers \ {w} : Busy(v) => Attempt(v) # Attempt(w)
  BY AttemptKey DEF HeldInv, Exclusive
<1>3. ASSUME NEW a
      PROVE  a \in Attempts' <=> a \in Attempts \ {Attempt(w)}
  BY <1>1, <1>2 DEF Attempts
<1> QED
  BY <1>3

\* A worker that keeps its item goes on with its attempt.
LEMMA AttemptsGoOn ==
  ASSUME HeldInv, NEW w \in Workers, Busy(w), Busy(w)',
         \A v \in Workers \ {w} : UNCHANGED <<pc[v], key[v], obj[v]>>
  PROVE  Abstract!Becomes(Attempt(w), Attempt(w)')
<1>1. \A v \in Workers \ {w} :
        Attempt(v)' = Attempt(v) /\ (Busy(v)' <=> Busy(v))
  BY OthersKept
<1>2. \A v \in Workers \ {w} : Busy(v) => Attempt(v) # Attempt(w)
  BY AttemptKey DEF HeldInv, Exclusive
<1>3. ASSUME NEW a
      PROVE  a \in Attempts' <=> a \in (Attempts \ {Attempt(w)})
                                          \cup {Attempt(w)'}
  BY <1>1, <1>2 DEF Attempts
<1>4. Attempt(w) \in Attempts
  BY DEF Attempts
<1> QED
  BY <1>3, <1>4 DEF Abstract!Becomes

-----------------------------------------------------------------------------
(* Every step is a step of the Reconciler or a stutter. *)

\* A request that the queue accepts makes its item pending.
LEMMA PushIsDue ==
  ASSUME NEW k \in Keys, Push(k), UNCHANGED waiting
  PROVE  Abstract!Due(k)
  BY DEF Push, Abstract!Due

\* So does one that is accepted for a later time.
LEMMA PushAfterIsDue ==
  ASSUME NEW k \in Keys, NEW delay, PushAfter(k, delay)
  PROVE  Abstract!Due(k)
<1>1. CASE Push(k) /\ UNCHANGED waiting
  BY <1>1, PushIsDue
<1>2. CASE /\ waiting' = IF shut THEN waiting ELSE waiting \cup {k}
           /\ UNCHANGED <<queue, dirty>>
  BY <1>2 DEF Abstract!Due
<1> QED
  BY <1>1, <1>2 DEF PushAfter

\* The informer and the timers.
LEMMA InformerStep ==
  ASSUME IndInv, NEW k \in Keys,
         Store(k) \/ Remove(k) \/ Resync(k) \/ Timer(k)
  PROVE  [Abstract!Next]_(Abstract!vars)
<1>1. CASE Store(k) \/ Remove(k)
  <2>1. /\ version' = [version EXCEPT ![k] = @ + 1]
        /\ UNCHANGED <<queueVars, workerVars, history>>
    BY <1>1 DEF Store, Remove, Notification
  <2>2. Attempts' = Attempts
    BY <2>1, AttemptsKept
  <2>3. Abstract!Change(k)
    BY <2>1, <2>2 DEF Abstract!Change, queueVars, history
  <2> QED
    BY <2>3 DEF Abstract!Next
<1>2. CASE Resync(k)
  <2>1. /\ UNCHANGED <<version, queueVars, workerVars, history>>
    BY <1>2 DEF Resync, Notification
  <2> QED
    BY <2>1, AttemptsKept DEF Abstract!vars, queueVars, history
<1>3. CASE Timer(k)
  <2>1. /\ UNCHANGED <<version, shut, workerVars, history>>
        /\ k \in waiting /\ waiting' = waiting \ {k} /\ Push(k)
    BY <1>3 DEF Timer, Expire, cacheVars
  <2>2. ~shut
    BY <2>1 DEF IndInv, DelayInv
  <2>3. UNCHANGED (dirty \cup waiting)
    BY <2>1, <2>2 DEF Push
  <2> QED
    BY <2>1, <2>3, AttemptsKept DEF Abstract!vars, history
<1> QED
  BY <1>1, <1>2, <1>3

\* The event handler.
LEMMA HandlerStep ==
  ASSUME IndInv, Enqueue \/ Discard
  PROVE  [Abstract!Next]_(Abstract!vars)
<1>1. CASE Enqueue
  <2> DEFINE e == Head(events)
  <2>1. e \in Events /\ e \in Range(events)
    BY <1>1 DEF Enqueue, IndInv, TypeOK, Range
  <2>2. e.key \in Keys /\ e.rv \in 0 .. version[e.key]
    <3>1. e.key \in Keys /\ e.rv \in Nat
      BY ONLY <2>1 DEF Events
    <3>2. e.rv <= version[e.key]
      BY <2>1 DEF IndInv, VersionInv
    <3>3. version[e.key] \in Nat
      BY <3>1 DEF IndInv, TypeOK
    <3> QED
      BY ONLY <3>1, <3>2, <3>3
  <2>3. /\ UNCHANGED <<version, workerVars, settled, shut>>
        /\ want' = [want EXCEPT ![e.key] = e.rv]
    BY <1>1 DEF Enqueue, EnqueueKey, Add, AddAfter
  <2>4. Abstract!Due(e.key)
    <3>1. CASE DelayOf(e) > 0
      BY <1>1, <2>2, <3>1, PushAfterIsDue DEF Enqueue, EnqueueKey, AddAfter
    <3>2. CASE ~(DelayOf(e) > 0)
      BY <1>1, <2>2, <3>2, PushIsDue DEF Enqueue, EnqueueKey, Add
    <3> QED
      BY <3>1, <3>2
  <2>5. Abstract!Ask(e.key)
    BY <2>2, <2>3, <2>4, AttemptsKept DEF Abstract!Ask
  <2> QED
    BY <2>2, <2>5 DEF Abstract!Next
<1>2. CASE Discard
  <2>1. UNCHANGED <<version, queueVars, workerVars, history>>
    BY <1>2 DEF Discard
  <2> QED
    BY <2>1, AttemptsKept DEF Abstract!vars, queueVars, history
<1> QED
  BY <1>1, <1>2

\* The life of the processor.
LEMMA LifeStep ==
  ASSUME IndInv, Run \/ Cancel \/ Stop
  PROVE  [Abstract!Next]_(Abstract!vars)
<1>1. CASE Run \/ Cancel
  <2>1. UNCHANGED <<version, queueVars, workerVars, history>>
    BY <1>1 DEF Run, Cancel, cacheVars
  <2> QED
    BY <2>1, AttemptsKept DEF Abstract!vars, queueVars, history
<1>2. CASE Stop
  <2>1. /\ UNCHANGED <<version, workerVars, want, settled, dirty>>
        /\ shut' = TRUE /\ waiting' = {}
    BY <1>2 DEF Stop, ShutDown, cacheVars, history
  <2>2. Abstract!Close
    BY <2>1, AttemptsKept DEF Abstract!Close
  <2> QED
    BY <2>2 DEF Abstract!Next
<1> QED
  BY <1>1, <1>2

\* A worker takes an item, or finds none.
LEMMA TakeStep ==
  ASSUME IndInv, NEW w \in Workers,
         Begin(w) \/ ProcessGet(w) \/ ProcessExit(w)
  PROVE  [Abstract!Next]_(Abstract!vars)
<1>0. /\ UNCHANGED <<version, want, shut>>
      /\ \A v \in Workers \ {w} : UNCHANGED <<pc[v], key[v], obj[v]>>
  BY WorkerFrame DEF IndInv, Worker, cacheVars
<1>1. CASE Begin(w) \/ ProcessExit(w)
  <2>1. ~Busy(w) /\ ~Busy(w)' /\ UNCHANGED <<queueVars, history>>
    BY <1>1 DEF Begin, ProcessExit, Goto, Busy, IndInv, TypeOK
  <2> QED
    BY <1>0, <2>1, AttemptsIdle DEF Abstract!vars, queueVars, history
<1>2. CASE ProcessGet(w)
  <2>1. PICK k \in Keys : Get(k) /\ key' = [key EXCEPT ![w] = k]
    BY <1>2 DEF ProcessGet
  <2>2. /\ ~Busy(w) /\ Busy(w)' /\ UNCHANGED settled
        /\ pc'[w] = "lookup" /\ key'[w] = k
    BY <1>2, <2>1 DEF ProcessGet, Goto, Busy, IndInv, TypeOK, history
  <2>3. k \in dirty /\ k \notin processing
    BY <2>1, GetKeeps DEF IndInv, TypeOK
  <2>4. Attempts' = Attempts \cup {Abstract!New(k)}
    <3>1. Attempt(w)' = Abstract!New(k)
      BY <2>2 DEF Attempt, Abstract!New
    <3> QED
      BY <1>0, <2>2, <3>1, AttemptsMore
  <2>5. \A a \in Attempts : a.key # k
    BY <2>3, AttemptKey DEF Attempts, IndInv, HeldInv
  <2>6. dirty' = dirty \ {k} /\ waiting' = waiting
    BY <2>1 DEF Get
  <2>7. Abstract!Start(k)
    BY <1>0, <2>2, <2>3, <2>4, <2>5, <2>6 DEF Abstract!Start
  <2> QED
    BY <2>7 DEF Abstract!Next
<1> QED
  BY <1>1, <1>2

\* What a worker that holds an item changes, and what its attempt becomes.
LEMMA HeldFrame ==
  ASSUME IndInv, NEW w \in Workers, Busy(w), Worker(w), ~ProcessDone(w)
  PROVE  /\ UNCHANGED <<version, want, shut>>
         /\ key[w] \in Keys /\ key'[w] = key[w]
         /\ Abstract!Becomes(Attempt(w), Attempt(w)')
<1>1. /\ UNCHANGED <<version, want, shut>>
      /\ \A v \in Workers \ {w} : UNCHANGED <<pc[v], key[v], obj[v]>>
  BY WorkerFrame DEF IndInv, cacheVars
<1>2. key[w] \in Keys
  BY HeldKey DEF IndInv
<1>3. Busy(w)' /\ key' = key
  <2>1. ~ProcessGet(w)
    BY DEF ProcessGet, Goto, Busy
  <2> QED
    BY <2>1, BusyFrame DEF IndInv
<1> QED
  BY <1>1, <1>2, <1>3, AttemptsGoOn DEF IndInv

\* A worker looks its item up.
LEMMA LookStep ==
  ASSUME IndInv, NEW w \in Workers,
         Lookup(w) \/ LookupAbsent(w) \/ LookupError(w)
  PROVE  [Abstract!Next]_(Abstract!vars)
<1> DEFINE k == key[w]
<1>0. pc[w] = "lookup" /\ Busy(w) /\ Worker(w) /\ ~ProcessDone(w)
  BY DEF Lookup, LookupAbsent, LookupError, ProcessDone, Goto, Busy, Worker
<1>1. /\ UNCHANGED <<version, want, shut>> /\ k \in Keys /\ key'[w] = k
      /\ Abstract!Becomes(Abstract!New(k), Attempt(w)')
  BY <1>0, HeldFrame, AttemptIs
<1>2. CASE Lookup(w)
  <2>1. /\ UNCHANGED <<dirty, waiting, settled>>
        /\ pc'[w] = "handle" /\ obj'[w] = version[k]
    BY <1>2 DEF Lookup, Goto, IndInv, TypeOK, queueVars, history
  <2>2. Attempt(w)' = Abstract!Looked(k, version[k])
    BY <1>1, <2>1 DEF Attempt, Abstract!Looked
  <2>3. Abstract!Look(k)
    BY <1>1, <2>1, <2>2 DEF Abstract!Look
  <2> QED
    BY <1>1, <2>3 DEF Abstract!Next
<1>3. CASE LookupAbsent(w) \/ LookupError(w)
  <2>1. /\ UNCHANGED <<dirty, waiting>>
        /\ pc'[w] \in {"forget", "done"}
        /\ settled' = [settled EXCEPT ![k] = version[k]]
    BY <1>3 DEF LookupAbsent, LookupError, Settle, Goto, IndInv, TypeOK,
                queueVars
  <2>2. Attempt(w)' = Abstract!Over(k)
    BY <1>1, <2>1 DEF Attempt, Abstract!Over
  <2>3. Abstract!Settle(k, version[k])
    BY <1>1, <2>1, <2>2 DEF Abstract!Settle
  <2>4. version[k] \in 0 .. version[k]
    BY <1>1 DEF IndInv, TypeOK
  <2> QED
    BY <1>1, <2>3, <2>4 DEF Abstract!Next
<1> QED
  BY <1>2, <1>3

\* A worker handles what it has looked at.
LEMMA HandleStep ==
  ASSUME IndInv, NEW w \in Workers,
         \/ HandleOk(w) \/ HandleError(w) \/ HandlePanic(w)
         \/ RequeueAllowed(w) \/ RequeueLimited(w) \/ RequeueRefused(w)
  PROVE  [Abstract!Next]_(Abstract!vars)
<1> DEFINE k == key[w]
           v == obj[w]
<1>0. /\ pc[w] \in {"handle", "requeue", "limit"}
      /\ Busy(w) /\ Worker(w) /\ ~ProcessDone(w)
  BY DEF HandleOk, HandleError, HandlePanic, RequeueAllowed, RequeueLimited,
         RequeueRefused, ProcessDone, Goto, Busy, Worker
<1>1. /\ UNCHANGED <<version, want, shut>> /\ k \in Keys /\ key'[w] = k
      /\ Abstract!Becomes(Abstract!Looked(k, v), Attempt(w)')
  BY <1>0, HeldFrame, AttemptIs
<1>2. v \in 0 .. version[k]
  <2>1. v <= version[k]
    BY <1>0 DEF IndInv, VersionInv
  <2>2. v \in Nat /\ version[k] \in Nat
    BY <1>1 DEF IndInv, TypeOK
  <2> QED
    BY ONLY <2>1, <2>2
<1>3. CASE HandleError(w) \/ RequeueAllowed(w)
  <2>1. /\ UNCHANGED <<dirty, waiting, settled>> /\ obj'[w] = v
        /\ pc'[w] \in {"requeue", "limit"}
    BY <1>3 DEF HandleError, RequeueAllowed, Goto, IndInv, TypeOK, queueVars,
                history
  <2>2. Attempt(w)' = Abstract!Looked(k, v)
    BY <1>1, <2>1 DEF Attempt, Abstract!Looked
  <2>3. Attempts' = Attempts
    BY <1>1, <2>2 DEF Abstract!Becomes
  <2> QED
    BY <1>1, <2>1, <2>3 DEF Abstract!vars
<1>4. CASE HandleOk(w) \/ HandlePanic(w) \/ RequeueRefused(w)
  <2>1. /\ UNCHANGED <<dirty, waiting>>
        /\ pc'[w] \in {"forget", "next", "done"}
        /\ settled' = [settled EXCEPT ![k] = v]
    BY <1>4 DEF HandleOk, HandlePanic, RequeueRefused, Forget, Settle, Goto,
                IndInv, TypeOK, queueVars
  <2>2. Attempt(w)' = Abstract!Over(k)
    BY <1>1, <2>1 DEF Attempt, Abstract!Over
  <2>3. Abstract!Settle(k, v)
    BY <1>1, <2>1, <2>2 DEF Abstract!Settle
  <2> QED
    BY <1>1, <1>2, <2>3 DEF Abstract!Next
<1>5. CASE RequeueLimited(w)
  <2>1. PICK delay \in 0 .. 1 : AddRateLimited(k, delay)
    BY <1>5 DEF RequeueLimited
  <2>2. Abstract!Due(k)
    BY <1>1, <2>1, PushAfterIsDue DEF AddRateLimited
  <2>3. pc'[w] = "done" /\ UNCHANGED settled
    BY <1>5 DEF RequeueLimited, Goto, IndInv, TypeOK, history
  <2>4. Attempt(w)' = Abstract!Over(k)
    BY <1>1, <2>3 DEF Attempt, Abstract!Over
  <2>5. Abstract!Retry(k, v)
    BY <1>1, <2>2, <2>3, <2>4 DEF Abstract!Retry
  <2> QED
    BY <1>1, <1>2, <2>5 DEF Abstract!Next
<1> QED
  BY <1>3, <1>4, <1>5

\* A worker schedules and forgets its item, and marks it as done.
LEMMA FinishStep ==
  ASSUME IndInv, NEW w \in Workers,
         Schedule(w) \/ ProcessForget(w) \/ ProcessDone(w)
  PROVE  [Abstract!Next]_(Abstract!vars)
<1> DEFINE k == key[w]
<1>0. pc[w] \in {"next", "forget", "done"} /\ Busy(w) /\ Worker(w)
  BY DEF Schedule, ProcessForget, ProcessDone, Goto, Busy, Worker
<1>1. Attempt(w) = Abstract!Over(k) /\ Attempt(w) \in Attempts /\ k \in Keys
  BY <1>0, AttemptIs, HeldKey DEF Attempts, IndInv
<1>2. CASE Schedule(w) \/ ProcessForget(w)
  <2>1. /\ UNCHANGED <<version, want, shut>> /\ key'[w] = k
        /\ Abstract!Becomes(Abstract!Over(k), Attempt(w)')
    <3>1. ~ProcessDone(w)
      BY <1>2 DEF Schedule, ProcessForget, ProcessDone, Goto
    <3> QED
      BY <1>0, <1>1, <3>1, HeldFrame
  <2>2. pc'[w] \in {"forget", "done"} /\ UNCHANGED settled
    BY <1>2 DEF Schedule, ProcessForget, Goto, IndInv, TypeOK, history
  <2>3. Attempt(w)' = Abstract!Over(k)
    BY <2>1, <2>2 DEF Attempt, Abstract!Over
  <2>4. Attempts' = Attempts
    BY <2>1, <2>3 DEF Abstract!Becomes
  <2>5. CASE Schedule(w)
    <3>1. PICK delay \in 0 .. 1 : AddAfter(k, delay)
      BY <2>5 DEF Schedule
    <3>2. Abstract!Due(k)
      BY <1>1, <3>1, PushAfterIsDue DEF AddAfter
    <3>3. Abstract!Again(k)
      BY <1>1, <2>1, <2>2, <2>4, <3>2 DEF Abstract!Again
    <3> QED
      BY <1>1, <3>3 DEF Abstract!Next
  <2>6. CASE ProcessForget(w)
    <3>1. UNCHANGED <<dirty, waiting>>
      BY <2>6 DEF ProcessForget, Forget
    <3> QED
      BY <2>1, <2>2, <2>4, <3>1 DEF Abstract!vars
  <2> QED
    BY <1>2, <2>5, <2>6
<1>3. CASE ProcessDone(w)
  <2>1. /\ UNCHANGED <<version, want, shut>>
        /\ \A v \in Workers \ {w} : UNCHANGED <<pc[v], key[v], obj[v]>>
    BY <1>0, WorkerFrame DEF IndInv, cacheVars
  <2>2. ~Busy(w)' /\ UNCHANGED <<dirty, waiting, settled>>
    BY <1>3 DEF ProcessDone, Done, Goto, Busy, IndInv, TypeOK, history
  <2>3. Attempts' = Attempts \ {Abstract!Over(k)}
    BY <1>0, <1>1, <2>1, <2>2, AttemptsLess DEF IndInv
  <2>4. Abstract!End(k)
    BY <1>1, <2>1, <2>2, <2>3 DEF Abstract!End
  <2> QED
    BY <1>1, <2>4 DEF Abstract!Next
<1> QED
  BY <1>2, <1>3

-----------------------------------------------------------------------------
(* The theorem. *)

\* The processor implements the Reconciler: whatever the event handler, the
\* timers, the workers and the shutdown do to each other, an attempt starts for
\* a pending resource only, one at a time, looks at the cache once, and ends
\* only when what it saw is settled or the resource is pending again.
THEOREM Refinement == Spec => Implements
<1>1. IndInv /\ [Next]_vars => [Abstract!Next]_(Abstract!vars)
  <2> SUFFICES ASSUME IndInv, [Next]_vars
               PROVE  [Abstract!Next]_(Abstract!vars)
    OBVIOUS
  <2>1. CASE UNCHANGED vars
    <3>1. UNCHANGED <<version, queueVars, workerVars, history>>
      BY <2>1 DEF vars, cacheVars
    <3> QED
      BY <3>1, AttemptsKept DEF Abstract!vars, queueVars, history
  <2>2. ASSUME NEW w \in Workers, Worker(w)
        PROVE  [Abstract!Next]_(Abstract!vars)
    BY <2>2, TakeStep, LookStep, HandleStep, FinishStep DEF Worker
  <2> QED
    BY <2>1, <2>2, InformerStep, HandlerStep, LifeStep DEF Next
<1> QED
  BY <1>1, InitMaps, Invariance, PTL DEF Spec, Implements, Abstract!Spec

=============================================================================
