---------------------------- MODULE MonitorQueue ----------------------------
(***************************************************************************)
(* The queue of a handler with a Recorder (controller/queue.go): the       *)
(* MonitorQueue remembers in a sync.Map when an item was queued and        *)
(* measures on Get how long it stayed.  The map and the queue it wraps     *)
(* change in separate steps, between which other goroutines run.  The      *)
(* counters of the Recorder (controller/recorder.go) are kept per item.    *)
(*                                                                         *)
(* The callers are the ones of Processor, reduced to their calls on the    *)
(* queue: the event handler, one event at a time, and the workers.  Times  *)
(* are left out: what matters is whether there is one for an item.         *)
(***************************************************************************)
EXTENDS Queue

CONSTANTS
  Workers,  \* the worker goroutines
  NoKey,    \* stands for a caller without an item
  MaxAdds   \* bound: calls that add one item

ASSUME MonitorAssumption == NoKey \notin Keys /\ MaxAdds \in Nat

VARIABLES
  time,     \* the items with a time in the map
  source,   \* the item the event handler is about to pass on, or NoKey
  pc,       \* what each worker does next
  key,      \* the item each worker holds
  adds,     \* the Recorder's AddEvent calls for each item
  samples,  \* the Recorder's GetEvent calls for each item
  handled,  \* the Recorder's DoneEvent calls for each item
  refused   \* history: the items with a time left by a refused Requeue

callers == <<source, pc, key>>
recorder == <<adds, samples, handled>>
vars == <<queueVars, time, callers, recorder, refused>>

Phases == {"get", "sample", "handle", "schedule", "requeue", "forget", "done",
           "exit"}

TypeOK ==
  /\ QueueTypeOK
  /\ time \in SUBSET Keys
  /\ source \in Keys \cup {NoKey}
  /\ pc \in [Workers -> Phases]
  /\ key \in [Workers -> Keys \cup {NoKey}]
  /\ adds \in [Keys -> Nat]
  /\ samples \in [Keys -> Nat]
  /\ handled \in [Keys -> Nat]
  /\ refused \in SUBSET Keys

Init ==
  /\ QueueInit
  /\ time = {}
  /\ source = NoKey
  /\ pc = [w \in Workers |-> "get"]
  /\ key = [w \in Workers |-> NoKey]
  /\ adds = [k \in Keys |-> 0]
  /\ samples = [k \in Keys |-> 0]
  /\ handled = [k \in Keys |-> 0]
  /\ refused = {}

-----------------------------------------------------------------------------
(* The Recorder counts the calls; what they measure is left out. *)

AddEvent(k) == adds' = [adds EXCEPT ![k] = @ + 1]

GetEvent(k) == samples' = [samples EXCEPT ![k] = @ + 1]

DoneEvent(k) == handled' = [handled EXCEPT ![k] = @ + 1]

-----------------------------------------------------------------------------
(* The two halves of a call that adds an item. *)

\* LoadOrStore keeps the time that is there.
LoadOrStore(k) ==
  /\ adds[k] < MaxAdds
  /\ AddEvent(k)
  /\ time' = time \cup {k}
  /\ UNCHANGED <<queueVars, samples, handled, refused>>

\* The event handler calls Add or AddAfter.
AddTime(k) ==
  /\ source = NoKey
  /\ source' = k
  /\ LoadOrStore(k)
  /\ UNCHANGED <<pc, key>>

\* Mutated form of AddItem: an item that is being processed is skipped.
AddItemSkippingBusy ==
  /\ source # NoKey
  /\ IF source \in processing THEN UNCHANGED queueVars
     ELSE Add(source) \/ AddAfter(source, 1)
  /\ source' = NoKey
  /\ UNCHANGED <<time, pc, key, recorder, refused>>

AddItem ==
  /\ source # NoKey
  /\ Add(source) \/ AddAfter(source, 1)
  /\ source' = NoKey
  /\ UNCHANGED <<time, pc, key, recorder, refused>>

-----------------------------------------------------------------------------
(* The workers. *)

Goto(w, from, to) ==
  /\ pc[w] = from
  /\ pc' = [pc EXCEPT ![w] = to]

GetItem(w) ==
  /\ Goto(w, "get", "sample")
  /\ \E k \in Keys : Get(k) /\ key' = [key EXCEPT ![w] = k]
  /\ UNCHANGED <<time, source, recorder, refused>>

GetExit(w) ==
  /\ GetShutDown
  /\ Goto(w, "get", "exit")
  /\ UNCHANGED <<queueVars, time, source, key, recorder, refused>>

\* Mutated form of GetTime: the time is loaded and not deleted.
GetTimeKept(w) ==
  /\ Goto(w, "sample", "handle")
  /\ IF key[w] \in time THEN GetEvent(key[w]) ELSE UNCHANGED samples
  /\ UNCHANGED <<queueVars, time, source, key, adds, handled, refused>>

\* LoadAndDelete, and GetEvent if there was a time.
GetTime(w) ==
  /\ Goto(w, "sample", "handle")
  /\ IF key[w] \in time THEN GetEvent(key[w]) ELSE UNCHANGED samples
  /\ time' = time \ {key[w]}
  /\ refused' = refused \ {key[w]}
  /\ UNCHANGED <<queueVars, source, key, adds, handled>>

\* Handle returns: the item is scheduled, requeued, forgotten or, after a panic
\* or a failed lookup, just done.
Handle(w) ==
  /\ \/ Goto(w, "handle", "schedule") /\ LoadOrStore(key[w])
     \/ Goto(w, "handle", "requeue") /\ LoadOrStore(key[w])
     \/ /\ Goto(w, "handle", "forget") \/ Goto(w, "handle", "done")
        /\ UNCHANGED <<queueVars, time, recorder, refused>>
  /\ UNCHANGED <<source, key>>

Schedule(w) ==
  /\ Goto(w, "schedule", "forget")
  /\ \E delay \in 0 .. 1 : AddAfter(key[w], delay)
  /\ UNCHANGED <<time, source, key, recorder, refused>>

\* Nobody else requeues the item: asking for the number of requeues and adding
\* the item can be taken as one step (Processor has the two).
Requeue(w) ==
  /\ Goto(w, "requeue", "done")
  /\ \/ /\ CanRetry(key[w])
        /\ \E delay \in 0 .. 1 : AddRateLimited(key[w], delay)
        /\ UNCHANGED refused
     \/ /\ ~CanRetry(key[w])
        /\ Forget(key[w])
        /\ refused' = refused \cup {key[w]}
  /\ UNCHANGED <<time, source, key, recorder>>

ForgetItem(w) ==
  /\ Goto(w, "forget", "done")
  /\ Forget(key[w])
  /\ UNCHANGED <<time, source, key, recorder, refused>>

\* DoneEvent concerns nobody else and is taken as one step with Done.
DoneItem(w) ==
  /\ Goto(w, "done", "get")
  /\ Done(key[w])
  /\ DoneEvent(key[w])
  /\ key' = [key EXCEPT ![w] = NoKey]
  /\ UNCHANGED <<time, source, adds, samples, refused>>

Worker(w) ==
  \/ GetItem(w) \/ GetExit(w) \/ GetTime(w)
  \/ Handle(w) \/ Schedule(w) \/ Requeue(w) \/ ForgetItem(w) \/ DoneItem(w)

Timer(k) == Expire(k) /\ UNCHANGED <<time, callers, recorder, refused>>

\* The queue is shut down with the context of the processor.
Stop == ~shut /\ ShutDown /\ UNCHANGED <<time, callers, recorder, refused>>

-----------------------------------------------------------------------------
Next ==
  \/ \E k \in Keys : AddTime(k) \/ Timer(k)
  \/ AddItem \/ Stop
  \/ \E w \in Workers : Worker(w)

Spec == Init /\ [][Next]_vars

-----------------------------------------------------------------------------
(* Safety. *)

\* Item k is in the queue, ready, delayed or to be queued when it is Done.
InQueue(k) == k \in dirty \cup waiting

\* A caller is between the two halves of its call for item k.
Pending(k) ==
  \/ source = k
  \/ \E w \in Workers :
       key[w] = k /\ pc[w] \in {"sample", "schedule", "requeue"}

\* An item is measured at most once for every call that added it, although
\* workers take the times while others store them.
MeasuredOnce ==
  \A k \in Keys : samples[k] + (IF k \in time THEN 1 ELSE 0) <= adds[k]

\* The metrics add up: no item is processed more often than it was queued,
\* although an item added while it is processed is kept, coalesced with others
\* and handed out again by Done.
HandledOnce == \A k \in Keys : handled[k] <= adds[k]

\* A time in the map belongs to an item on its way through the queue, unless a
\* Requeue was refused or the queue was shut down: the map does not grow with
\* the items ever seen.
TimesAccounted ==
  \A k \in time : InQueue(k) \/ Pending(k) \/ k \in refused \/ shut

-----------------------------------------------------------------------------
(* The inductive invariant behind them. *)

\* A worker holds an item from Get to Done, and nobody else holds it.
HeldInv ==
  \A w \in Workers :
    /\ pc[w] \in {"get", "exit"} <=> key[w] = NoKey
    /\ key[w] # NoKey =>
         /\ key[w] \in processing
         /\ \A v \in Workers : v # w => key[v] # key[w]

Count(b) == IF b THEN 1 ELSE 0

\* A worker has announced item k to the Recorder and is about to queue it.
Calling(k) ==
  \E w \in Workers : key[w] = k /\ pc[w] \in {"schedule", "requeue"}

\* The ways in which item k may still come to be counted by DoneEvent.
Owed(k) ==
  Count(source = k) + Count(Calling(k))
    + Count(k \in waiting) + Count(k \in dirty) + Count(k \in processing)

\* Each of them was announced by an AddEvent of its own.
AccountInv == \A k \in Keys : handled[k] + Owed(k) <= adds[k]

\* Queue, time map and recorder keep their accounts together, whichever half of
\* a call comes next.
IndInv ==
  /\ TypeOK
  /\ QueueInv
  /\ HeldInv
  /\ MeasuredOnce
  /\ AccountInv
  /\ TimesAccounted

=============================================================================
