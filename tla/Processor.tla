----------------------------- MODULE Processor -----------------------------
(***************************************************************************)
(* One handler of a controller (controller/processor.go): the informer     *)
(* changes the cache and afterwards delivers events to the                 *)
(* ResourceEventHandler, which filters, delays and queues their keys; the  *)
(* workers of the Processor take keys, look the resource up in the cache   *)
(* as it is by then, and let the Handler reconcile it.  This is the        *)
(* configuration without a Recorder, where the queue is the plain          *)
(* RetryQueue.                                                             *)
(*                                                                         *)
(* A resource is abstracted to its version, a number that the API server   *)
(* raises with every change, its deletion included.  What Handle does is   *)
(* the consumer's business: any of its outcomes may happen at any call.    *)
(***************************************************************************)
EXTENDS Queue

CONSTANTS
  Workers,      \* the worker goroutines, none when Config.Workers < 1
  NoKey,        \* stands for a worker without an item
  Debounce,     \* Delay.Debounce
  Window,       \* Delay.Resync
  Hash,         \* the FNV hash of a key, sign bit masked
  MaxVersion,   \* bound: changes of one resource
  MaxEvents,    \* bound: events on their way to the handler
  MaxFailures   \* bound: failures in a row, beyond any limit Retries sets

ASSUME ProcessorAssumption ==
  /\ NoKey \notin Keys
  /\ Debounce \in Nat /\ Window \in Nat /\ Hash \in [Keys -> Nat]
  /\ MaxVersion \in Nat /\ MaxEvents \in Nat
  /\ MaxFailures \in Nat /\ MaxFailures > Retries

VARIABLES
  version,   \* the version of each resource the cache knows, 0 before any
  live,      \* the keys the cache holds a resource for
  events,    \* the notifications on their way to the event handler
  ctx,       \* "live" or "done": the context given to Run
  run,       \* the goroutine in Run: "new", "running" or "stopped"
  pc,        \* what each worker does next
  key,       \* the item each worker holds
  obj,       \* the version each worker read from the cache
  want,      \* history: the last version whose event was queued
  settled    \* history: the last version reconciled, or dropped for good

cacheVars == <<version, live, events>>
workerVars == <<pc, key, obj>>
history == <<want, settled>>
vars == <<queueVars, cacheVars, ctx, run, workerVars, history>>

Events == [op : {"add", "update", "delete"}, key : Keys, prev : Nat, rv : Nat]

Phases == {"off", "get", "lookup", "handle", "requeue", "limit", "next",
           "forget", "done", "exit", "never"}

\* The phases in which a worker holds an item.
Busy(w) == pc[w] \in {"lookup", "handle", "requeue", "limit", "next",
                      "forget", "done"}

TypeOK ==
  /\ QueueTypeOK
  /\ version \in [Keys -> Nat]
  /\ live \in SUBSET Keys
  /\ events \in Seq(Events)
  /\ ctx \in {"live", "done"}
  /\ run \in {"new", "running", "stopped"}
  /\ pc \in [Workers -> Phases]
  /\ key \in [Workers -> Keys \cup {NoKey}]
  /\ obj \in [Workers -> Nat]
  /\ want \in [Keys -> Nat]
  /\ settled \in [Keys -> Nat]

Init ==
  /\ QueueInit
  /\ version = [k \in Keys |-> 0]
  /\ live = {}
  /\ events = <<>>
  /\ ctx = "live"
  /\ run = "new"
  /\ pc = [w \in Workers |-> "off"]
  /\ key = [w \in Workers |-> NoKey]
  /\ obj = [w \in Workers |-> 0]
  /\ want = [k \in Keys |-> 0]
  /\ settled = [k \in Keys |-> 0]

-----------------------------------------------------------------------------
(* The informer (client-go): the cache changes first, the event follows.   *)

Notification(op, k, prev, rv) ==
  /\ Len(events) < MaxEvents
  /\ events' = Append(events, [op |-> op, key |-> k, prev |-> prev, rv |-> rv])
  /\ UNCHANGED <<queueVars, ctx, run, workerVars, history>>

Store(k) ==
  /\ version[k] < MaxVersion
  /\ version' = [version EXCEPT ![k] = @ + 1]
  /\ live' = live \cup {k}
  /\ \/ k \in live /\ Notification("update", k, version[k], version[k] + 1)
     \/ k \notin live /\ Notification("add", k, 0, version[k] + 1)

Remove(k) ==
  /\ k \in live
  /\ version[k] < MaxVersion
  /\ version' = [version EXCEPT ![k] = @ + 1]
  /\ live' = live \ {k}
  /\ Notification("delete", k, 0, version[k] + 1)

\* The periodic re-sync replays what the cache holds.
Resync(k) ==
  /\ k \in live
  /\ Notification("update", k, version[k], version[k])
  /\ UNCHANGED <<version, live>>

-----------------------------------------------------------------------------
(* The ResourceEventHandler. *)

Jitter(k) == IF Window <= 0 THEN 0 ELSE Hash[k] % Window

IsResync(e) == e.op = "update" /\ e.prev = e.rv

DelayOf(e) == IF IsResync(e) /\ Window > 0 THEN Jitter(e.key) ELSE Debounce

\* Mutated form of EnqueueKey: an item that is being processed is skipped.
EnqueueKeySkippingBusy(e) ==
  IF e.key \in processing THEN UNCHANGED queueVars
  ELSE IF DelayOf(e) > 0 THEN AddAfter(e.key, DelayOf(e)) ELSE Add(e.key)

EnqueueKey(e) ==
  IF DelayOf(e) > 0 THEN AddAfter(e.key, DelayOf(e)) ELSE Add(e.key)

\* OnAdd, OnUpdate and OnDelete: the filter passes the event.
Enqueue ==
  /\ events # <<>>
  /\ events' = Tail(events)
  /\ EnqueueKey(Head(events))
  /\ want' = [want EXCEPT ![Head(events).key] = Head(events).rv]
  /\ UNCHANGED <<version, live, ctx, run, workerVars, settled>>

\* The filter drops the event, or its object has no key and is reported.
Discard ==
  /\ events # <<>>
  /\ events' = Tail(events)
  /\ UNCHANGED <<queueVars, version, live, ctx, run, workerVars, history>>

-----------------------------------------------------------------------------
(* Run starts the workers and shuts the queue down with the context. *)

Run ==
  /\ run = "new"
  /\ run' = "running"
  /\ UNCHANGED <<queueVars, cacheVars, ctx, workerVars, history>>

Cancel ==
  /\ ctx = "live"
  /\ ctx' = "done"
  /\ UNCHANGED <<queueVars, cacheVars, run, workerVars, history>>

\* Mutated form of Stop: the deferred ShutDown is missing.
StopWithoutShutDown ==
  /\ run = "running" /\ ctx = "done"
  /\ run' = "stopped"
  /\ UNCHANGED <<queueVars, cacheVars, ctx, workerVars, history>>

Stop ==
  /\ run = "running" /\ ctx = "done"
  /\ run' = "stopped"
  /\ ShutDown
  /\ UNCHANGED <<cacheVars, ctx, workerVars, history>>

-----------------------------------------------------------------------------
(* The workers. *)

Goto(w, from, to) ==
  /\ pc[w] = from
  /\ pc' = [pc EXCEPT ![w] = to]

\* The attempt on the item of worker w is over for version v.
Settle(w, v) == settled' = [settled EXCEPT ![key[w]] = v]

\* wait.Until looks at the context before it calls Process.
Begin(w) ==
  /\ run # "new"
  /\ \/ ctx = "live" /\ Goto(w, "off", "get")
     \/ ctx = "done" /\ Goto(w, "off", "never")
  /\ UNCHANGED <<queueVars, cacheVars, ctx, run, key, obj, history>>

ProcessGet(w) ==
  /\ Goto(w, "get", "lookup")
  /\ \E k \in Keys : Get(k) /\ key' = [key EXCEPT ![w] = k]
  /\ UNCHANGED <<cacheVars, ctx, run, obj, history>>

\* Mutated form of ProcessExit: the loop ends although items are left.
ProcessExitEarly(w) ==
  /\ shut
  /\ Goto(w, "get", "exit")
  /\ UNCHANGED <<queueVars, cacheVars, ctx, run, key, obj, history>>

ProcessExit(w) ==
  /\ GetShutDown
  /\ Goto(w, "get", "exit")
  /\ UNCHANGED <<queueVars, cacheVars, ctx, run, key, obj, history>>

\* Mutated form of Lookup: the item is released before it is handled.
LookupReleased(w) ==
  /\ Goto(w, "lookup", "handle")
  /\ key[w] \in live
  /\ Done(key[w])
  /\ obj' = [obj EXCEPT ![w] = version[key[w]]]
  /\ UNCHANGED <<cacheVars, ctx, run, key, history>>

Lookup(w) ==
  /\ Goto(w, "lookup", "handle")
  /\ key[w] \in live
  /\ obj' = [obj EXCEPT ![w] = version[key[w]]]
  /\ UNCHANGED <<queueVars, cacheVars, ctx, run, key, history>>

\* The resource is gone: nothing to handle, which counts as success.
LookupAbsent(w) ==
  /\ Goto(w, "lookup", "forget")
  /\ key[w] \notin live
  /\ Settle(w, version[key[w]])
  /\ UNCHANGED <<queueVars, cacheVars, ctx, run, key, obj, want>>

\* GetByKey fails, or the cached value is no resource object.
LookupError(w) ==
  /\ Goto(w, "lookup", "done")
  /\ Settle(w, version[key[w]])
  /\ UNCHANGED <<queueVars, cacheVars, ctx, run, key, obj, want>>

HandleOk(w) ==
  /\ \/ Goto(w, "handle", "forget")
     \/ Goto(w, "handle", "next")
  /\ Settle(w, obj[w])
  /\ UNCHANGED <<queueVars, cacheVars, ctx, run, key, obj, want>>

HandleError(w) ==
  /\ Goto(w, "handle", "requeue")
  /\ failures[key[w]] < MaxFailures
  /\ UNCHANGED <<queueVars, cacheVars, ctx, run, key, obj, history>>

\* The panic is recovered and reported; the item is neither requeued nor
\* forgotten.
HandlePanic(w) ==
  /\ Goto(w, "handle", "done")
  /\ Settle(w, obj[w])
  /\ UNCHANGED <<queueVars, cacheVars, ctx, run, key, obj, want>>

RequeueAllowed(w) ==
  /\ Goto(w, "requeue", "limit")
  /\ CanRetry(key[w])
  /\ UNCHANGED <<queueVars, cacheVars, ctx, run, key, obj, history>>

RequeueLimited(w) ==
  /\ Goto(w, "limit", "done")
  /\ \E delay \in 0 .. 1 : AddRateLimited(key[w], delay)
  /\ UNCHANGED <<cacheVars, ctx, run, key, obj, history>>

\* ErrMaxRetries: the item is forgotten and dropped, and this is reported.
RequeueRefused(w) ==
  /\ Goto(w, "requeue", "done")
  /\ ~CanRetry(key[w])
  /\ Forget(key[w])
  /\ Settle(w, obj[w])
  /\ UNCHANGED <<cacheVars, ctx, run, key, obj, want>>

\* Handle asked for another reconciliation at a time that may have passed.
Schedule(w) ==
  /\ Goto(w, "next", "forget")
  /\ \E delay \in 0 .. 1 : AddAfter(key[w], delay)
  /\ UNCHANGED <<cacheVars, ctx, run, key, obj, history>>

ProcessForget(w) ==
  /\ Goto(w, "forget", "done")
  /\ Forget(key[w])
  /\ UNCHANGED <<cacheVars, ctx, run, key, obj, history>>

\* Mutated form of ProcessDone: the item is never marked as done.
ProcessNotDone(w) ==
  /\ Goto(w, "done", "get")
  /\ key' = [key EXCEPT ![w] = NoKey]
  /\ obj' = [obj EXCEPT ![w] = 0]
  /\ UNCHANGED <<queueVars, cacheVars, ctx, run, history>>

ProcessDone(w) ==
  /\ Goto(w, "done", "get")
  /\ Done(key[w])
  /\ key' = [key EXCEPT ![w] = NoKey]
  /\ obj' = [obj EXCEPT ![w] = 0]
  /\ UNCHANGED <<cacheVars, ctx, run, history>>

Worker(w) ==
  \/ Begin(w) \/ ProcessGet(w) \/ ProcessExit(w)
  \/ Lookup(w) \/ LookupAbsent(w) \/ LookupError(w)
  \/ HandleOk(w) \/ HandleError(w) \/ HandlePanic(w)
  \/ RequeueAllowed(w) \/ RequeueLimited(w) \/ RequeueRefused(w)
  \/ Schedule(w) \/ ProcessForget(w) \/ ProcessDone(w)

Timer(k) ==
  /\ Expire(k)
  /\ UNCHANGED <<cacheVars, ctx, run, workerVars, history>>

-----------------------------------------------------------------------------
Next ==
  \/ \E k \in Keys : Store(k) \/ Remove(k) \/ Resync(k) \/ Timer(k)
  \/ Enqueue \/ Discard
  \/ Run \/ Cancel \/ Stop
  \/ \E w \in Workers : Worker(w)

Spec == Init /\ [][Next]_vars

\* Goroutines are scheduled, deadlines pass and the consumer's Handle
\* returns; changes, failures and the end of the context are up to others.
Fairness ==
  /\ WF_vars(Enqueue \/ Discard)
  /\ WF_vars(Run) /\ WF_vars(Stop)
  /\ \A k \in Keys : WF_vars(Timer(k))
  /\ \A w \in Workers : WF_vars(Worker(w))

FairSpec == Spec /\ Fairness

-----------------------------------------------------------------------------
(* Safety. *)

\* No two workers hold the same item: the queue hands an item out again only
\* after Done, whatever was added, expired or requeued in the meantime
\* (process defers Done to its very end).
Exclusive ==
  \A v, w \in Workers : v # w /\ Busy(v) /\ Busy(w) => key[v] # key[w]

\* An item is never requeued more often than Config.Retries allows, although
\* Requeue reads the number of requeues and raises it in two calls.
RetryBound == Retries >= 0 => \A k \in Keys : failures[k] <= Retries

\* Worker w is going to reconcile at least the version the item asks for.
Serving(w, k) ==
  /\ key[w] = k
  /\ \/ pc[w] = "lookup"
     \/ pc[w] \in {"handle", "requeue", "limit"} /\ obj[w] >= want[k]

\* While the queue accepts items no queued change is lost: unless a version at
\* least as new was reconciled (or given up and reported), its key is queued,
\* waits for its delay, or is held by a worker that reads or has read it.
\* Coalescing events under one key and changes that arrive while a worker is
\* in Handle must not break this.
NoLostChange ==
  \A k \in Keys :
    \/ shut
    \/ want[k] <= settled[k]
    \/ k \in dirty \cup waiting
    \/ \E w \in Workers : Serving(w, k)

\* When the last worker loop returns, nothing the queue accepted is left in it,
\* ready or in processing: Get hands out the rest before it reports shutdown.
NothingStranded ==
  (/\ \A w \in Workers : pc[w] \in {"exit", "never"}
   /\ \E w \in Workers : pc[w] = "exit")
    => dirty = {} /\ processing = {}

\* Reconciliation never goes back: once a version of a resource was reconciled
\* no worker completes an attempt on an older one, although workers read the
\* cache and call Handle in separate steps.
NeverGoesBack == [][\A k \in Keys : settled'[k] >= settled[k]]_vars

-----------------------------------------------------------------------------
(* The inductive invariant behind the safety properties. *)

\* Items in processing and busy workers correspond one to one.
HeldInv ==
  /\ \A w \in Workers : Busy(w) => key[w] \in processing
  /\ \A k \in processing : \E w \in Workers : Busy(w) /\ key[w] = k
  /\ Exclusive

\* The answer of CanRetry is still true when the worker acts on it.
RetryInv ==
  /\ RetryBound
  /\ \A w \in Workers : pc[w] = "limit" => CanRetry(key[w])

\* What was asked for and what was reconciled lie behind the cache, and what
\* a worker has read lies between what was reconciled and the cache.
VersionInv ==
  /\ \A e \in Range(events) : e.rv <= version[e.key]
  /\ \A k \in Keys : want[k] <= version[k] /\ settled[k] <= version[k]
  /\ \A w \in Workers :
       pc[w] \in {"handle", "requeue", "limit"} =>
         settled[key[w]] <= obj[w] /\ obj[w] <= version[key[w]]

\* A queue that is shut down holds no item back.
DelayInv == shut => waiting = {}

\* Workers that have returned saw the shutdown, and left what was ready to a
\* worker that has not.
ExitInv ==
  /\ shut => run = "stopped" /\ ctx = "done"
  /\ (\E w \in Workers : pc[w] = "exit") =>
       shut /\ (queue = <<>> \/ \E w \in Workers : Busy(w) \/ pc[w] = "get")

\* All of it, in every reachable state.
IndInv ==
  /\ TypeOK
  /\ QueueInv
  /\ HeldInv
  /\ RetryInv
  /\ VersionInv
  /\ NoLostChange
  /\ DelayInv
  /\ ExitInv

-----------------------------------------------------------------------------
(* Liveness. *)

\* Every queued change is eventually reconciled, or given up and reported, as
\* long as the context is not done: delays, coalescing, retries with back-off
\* and panics never leave an item behind.
EventuallySettled ==
  \A k \in Keys : \A v \in 1 .. MaxVersion :
    want[k] >= v ~> settled[k] >= v \/ ctx = "done"

\* Once the context is done every worker loop returns: Run shuts the queue
\* down, which wakes the workers blocked in Get.
StopsWithContext ==
  ctx = "done" ~> \A w \in Workers : pc[w] \in {"exit", "never"}

-----------------------------------------------------------------------------
(* What the documentation says and the code does not do. *)

\* "If the event handling fails or panics, the error is reported to the
\* handler and the item is requeued for retry" (process): with unlimited
\* retries, an item that was handled and whose failures are not forgotten is
\* queued again before it is Done.
PanicRequeued ==
  \A w \in Workers :
    Retries < 0 /\ ~shut /\ pc[w] = "done" /\ obj[w] # 0
      /\ failures[key[w]] > 0
    => key[w] \in dirty \cup waiting

=============================================================================
