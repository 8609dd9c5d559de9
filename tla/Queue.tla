------------------------------- MODULE Queue -------------------------------
(***************************************************************************)
(* The item queue of a handler: the RetryQueue of controller/queue.go on   *)
(* top of the rate limiting queue of client-go.  The latter is not part of *)
(* the repository; its contract is modelled from the way RetryQueue and    *)
(* the Processor use it: an item is handed to one worker at a time, adding *)
(* an item again before it is taken has no effect, adding it while it is   *)
(* processed queues it when it is Done, and a queue that is shut down      *)
(* refuses new items but still hands out the ones it holds.                *)
(*                                                                         *)
(* Every operator is one call on the queue and fixes the next value of all *)
(* queue variables; the modules that extend this one add the callers.  A   *)
(* delay is only compared with zero: deadlines may pass at any time.       *)
(***************************************************************************)
EXTENDS Integers, Sequences, Functions

CONSTANTS
  Keys,      \* the items: resource keys "namespace/name"
  Retries    \* Config.Retries: a negative value retries for ever

ASSUME RetriesAssumption == Retries \in Int

VARIABLES
  queue,       \* the items ready to be taken, oldest first
  dirty,       \* the items to be processed, ready or not
  processing,  \* the items taken and not Done
  waiting,     \* the items added with a delay that has not passed
  failures,    \* NumRequeues: requeues of an item since it was forgotten
  shut         \* ShutDown was called

queueVars == <<queue, dirty, processing, waiting, failures, shut>>

QueueTypeOK ==
  /\ queue \in Seq(Keys)
  /\ dirty \in SUBSET Keys
  /\ processing \in SUBSET Keys
  /\ waiting \in SUBSET Keys
  /\ failures \in [Keys -> Nat]
  /\ shut \in BOOLEAN

\* Get hands out the items that are dirty and in nobody's hands, each once.
QueueInv ==
  /\ IsInjective(queue)
  /\ Range(queue) = dirty \ processing

QueueInit ==
  /\ queue = <<>>
  /\ dirty = {}
  /\ processing = {}
  /\ waiting = {}
  /\ failures = [k \in Keys |-> 0]
  /\ shut = FALSE

-----------------------------------------------------------------------------
(* The client-go queue: adding now, adding after a delay, a delay passing. *)

Push(k) ==
  LET new == ~shut /\ k \notin dirty
  IN  /\ dirty' = IF new THEN dirty \cup {k} ELSE dirty
      /\ queue' = IF new /\ k \notin processing THEN Append(queue, k) ELSE queue

PushAfter(k, delay) ==
  \/ /\ delay <= 0
     /\ Push(k)
     /\ UNCHANGED waiting
  \/ /\ delay > 0
     /\ waiting' = IF shut THEN waiting ELSE waiting \cup {k}
     /\ UNCHANGED <<queue, dirty>>

Expire(k) ==
  /\ k \in waiting
  /\ waiting' = waiting \ {k}
  /\ Push(k)
  /\ UNCHANGED <<processing, failures, shut>>

-----------------------------------------------------------------------------
(* The methods of RetryQueue. *)

Add(k) ==
  /\ Push(k)
  /\ UNCHANGED <<processing, waiting, failures, shut>>

AddAfter(k, delay) ==
  /\ PushAfter(k, delay)
  /\ UNCHANGED <<processing, failures, shut>>

\* Mutated form of CanRetry: one retry too many.
CanRetryOnceMore(k) == Retries < 0 \/ failures[k] <= Retries

\* Requeue asks for the number of requeues first and adds the item in a call
\* of its own: the two are separate steps of the worker.
CanRetry(k) == Retries < 0 \/ failures[k] < Retries

\* Mutated form of AddRateLimited: an item in processing is only counted.
AddRateLimitedSkippingBusy(k, delay) ==
  /\ failures' = [failures EXCEPT ![k] = @ + 1]
  /\ IF k \in processing THEN UNCHANGED <<queue, dirty, waiting>>
     ELSE PushAfter(k, delay)
  /\ UNCHANGED <<processing, shut>>

AddRateLimited(k, delay) ==
  /\ failures' = [failures EXCEPT ![k] = @ + 1]
  /\ PushAfter(k, delay)
  /\ UNCHANGED <<processing, shut>>

\* Mutated form of Forget: one failure is taken back.
ForgetOne(k) ==
  /\ failures' = [failures EXCEPT ![k] = @ - 1]
  /\ UNCHANGED <<queue, dirty, processing, waiting, shut>>

Forget(k) ==
  /\ failures' = [failures EXCEPT ![k] = 0]
  /\ UNCHANGED <<queue, dirty, processing, waiting, shut>>

Get(k) ==
  /\ queue # <<>>
  /\ k = Head(queue)
  /\ queue' = Tail(queue)
  /\ processing' = processing \cup {k}
  /\ dirty' = dirty \ {k}
  /\ UNCHANGED <<waiting, failures, shut>>

\* Get reports the shutdown to its caller only once nothing is left to take.
GetShutDown == shut /\ queue = <<>>

\* Mutated form of Done: the item is queued again in any case.
DoneAgain(k) ==
  /\ processing' = processing \ {k}
  /\ queue' = Append(queue, k)
  /\ UNCHANGED <<dirty, waiting, failures, shut>>

Done(k) ==
  /\ processing' = processing \ {k}
  /\ queue' = IF k \in dirty THEN Append(queue, k) ELSE queue
  /\ UNCHANGED <<dirty, waiting, failures, shut>>

\* The items still waiting for their delay are dropped with the timer loop.
ShutDown ==
  /\ shut' = TRUE
  /\ waiting' = {}
  /\ UNCHANGED <<queue, dirty, processing, failures>>

=============================================================================
