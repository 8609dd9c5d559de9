# A TLA+ model of go-kube

go-kube is a small framework for Kubernetes controllers. A controller watches
one kind of resource through a client-go informer; handlers registered with it
get their resources reconciled by worker goroutines that take keys from a
rate-limited queue. This project models that machinery, checks it with TLC on
small instances, and proves the safety properties with TLAPS for instances
of any size. `PROJECT.json` relates every definition to the lines it
models and lists runs, mutants, hazards, findings and theorems.

## Inventory

| Part (source) | State | Operations | Talks to |
|---|---|---|---|
| `RetryQueue` (queue.go) | client-go queue, retry limit | Add, AddAfter, Requeue, Forget, Get, Done, ShutDown | client-go rate limiting queue |
| `MonitorQueue` (queue.go) | map of queue times | wraps Add, AddAfter, Requeue, Get | queue, recorder |
| `ResourceEventHandler`, `Delay` (processor.go, controller.go) | none | OnAdd, OnUpdate, OnDelete -> enqueue | called by the informer; filter, queue |
| `Processor` (processor.go) | workers, cache | Run, Process, process, handle, recover | queue, cache, the consumer's Handler |
| `controller` (controller.go) | informer, list of processors | AddHandler, SetTransform, Init, Run, Get, List, ListByIndex | informer, processors, error channel |
| owner indices (indexer.go) | index functions | ownerKeys | client-go cache |
| `DefaultRunner` (runner.go) | none | Run | Init and Run of all controllers |
| `LeaderRunner` (runner.go) | lock, elector | Run | client-go leader election, run function |
| `SelfWriteTracker` (filter.go) | version and time per key | Mark, Filter | handlers (Mark), informer (Filter) |
| filters (filter.go) | none | And, Or, Not, GenerationChanged, ResourceVersionChanged | event handler |
| retrievers (retriever.go) | selectors, base error | List, Watch | informer, API server |
| `DefaultRecorder` (recorder.go) | Prometheus counters | AddEvent, GetEvent, DoneEvent, RegisterLen | monitored queue, processor |
| `Error` (errors.go) | a base error | New, Wrap, Unwrap, Is, As | everything |
| handler adapter (handler.go) | none | Handle, Notify | processor, the consumer's function |

What is hard here:

* The informer changes the cache, delivers events later, and the workers read
  the cache later still. Events are coalesced under one key, delayed, requeued
  and scheduled, while workers are busy with the same key.
* A panic, an error or a refused requeue ends an attempt at different places,
  with different effects on the queue and its failure count.
* The context ends at any moment: workers are blocked, busy, or not yet begun.
* Several controllers are brought up together; one may fail to sync while
  others wait, and errors go through a channel of limited room.
* The tracker sees its own writes, the writes of others, replays and deletions
  in any order relative to the call of `Mark`.
* The monitored queue changes its map and the queue in separate steps.
* Instances compete for a lease that may run out while its holder cannot renew
  it, is busy, or has crashed; a loss goes through the same error channel.
* The informer misses versions, falls back to a list when its version is too
  old, and depends for that on errors the retrievers have wrapped; filters see
  differences between states of the cache only.

What makes each part correct:

* Queue and processor: one worker per key, no lost change, bounded retries,
  progress, an orderly end (`Exclusive`, `NoLostChange`, `NeverGoesBack`,
  `RetryBound`, `NothingStranded`, `EventuallySettled`, `StopsWithContext`).
* Controllers and runner: all caches are synced before any work, no failure is
  silent, everything starts and stops (`SyncedBeforeWork`, `NoSilentFailure`,
  `RunnerReturns`, `FirstHandlersWork`, `AllStop`).
* Tracker: no change by others is hidden, one drop per mark
  (`ForeignChangeSeen`, `DropsOnce`).
* Queries: an index never changes an answer, and what is owned is found
  (`ListExact`, `ByIndexExact`).
* Monitored queue and recorder: no item measured or counted as processed more
  often than it was queued, no time left behind (`MeasuredOnce`, `HandledOnce`,
  `TimesAccounted`).
* Leader runner: one live leader, losers finish, somebody leads again
  (`OneLiveLeader`, `LosersStop`, `Served`).
* Retrievers and filters: the cache holds what is selected and catches up, the
  last generation is reconciled, a re-sync brings back what was given up
  (`CacheSelected`, `Converges`, `SpecChangeSeen`, `RecoveredByResync`).

## Modules

**Queue** models `RetryQueue`. Each operator is one call and fixes the next
value of the queue variables. The client-go queue under it is external; its
contract (`Push`, `PushAfter`, `Expire`) is the `dirty`/`processing`/`queue`
discipline the code relies on. Delays are compared with zero only: a timer may
fire at any time, so every order of deadlines is covered, including the
earliest one the queue keeps for an item added repeatedly.

**Processor** extends Queue with one handler. Its actions are

| Action | Code |
|---|---|
| `Store`, `Remove`, `Resync` | the informer: cache first, event afterwards (external) |
| `Enqueue`, `Discard` | `enqueue`: passed or dropped by the filter, or without a key |
| `Run`, `Stop`, `Begin` | `Processor.Run`: start the workers, wait, shut the queue down |
| `ProcessGet`, `ProcessExit`, `ProcessForget`, `ProcessDone` | `process` |
| `Lookup`, `LookupAbsent`, `LookupError` | `handle`: reading the cache |
| `HandleOk`, `HandleError`, `HandlePanic` | the outcomes of the consumer's Handle |
| `RequeueAllowed`, `RequeueLimited`, `RequeueRefused` | `Requeue`: question and answer in two steps |
| `Schedule` | the time Handle asked for |
| `Timer` | a delay passes (external) |

A resource is its version. `want` and `settled` are history variables: the
version last queued and the version last reconciled or given up. An attempt
that is given up (`RequeueRefused`, a panic, a lookup error) counts as settled:
the code reports it to the handler and drops the item.

**Reconciler** is the abstract promise of a handler: a resource changes,
reconciling it is asked for, and an attempt starts, looks once, and ends after
what it saw is settled or the resource is due again. There are no queues,
delays, workers or counts in it. **ProcessorRefines** maps Processor to it: what
is dirty or waiting is pending, a busy worker is an attempt. `Implements` is
the specification of Reconciler under this mapping. It is a safety
specification; progress is stated for Processor itself (`EventuallySettled`).

**MonitorQueue** extends Queue with the time map and the callers of Processor
reduced to their queue calls. A time is only present or absent. The calls of the
`Recorder` (`AddEvent`, `GetEvent`, `DoneEvent`) count per item.

**Controller** models `AddHandler`, `Init` and `Run` of several controllers and
the `DefaultRunner`. What Processor shows about a running processor is
condensed here to "its workers have begun" and "its queue is shut down".
Errors are counted, the channel has a capacity, and `Concurrent` says whether
the consumer reads it before the runner returns.

**SelfWriteTracker** models `Mark` and `Filter` for one resource (entries do not
interact) among an API server, others that write, an informer that watches,
re-lists and re-syncs, and a handler that reads the cache, writes and marks.
`Precondition` says whether writes carry the version read, as updates do.

**Listing** models `List`, `lookup`, `owner`, `ListByIndex` and the index
functions over a cache that changes; `Init` chooses any subset of the owner
indexers. The cache may hold objects of another type ("foreign") and, without
an index, objects that carry their meta data themselves and have no
`ObjectMetaAccessor` ("bare", as `Unstructured`).

**Leader** models instances of a program under a `LeaderRunner`:

| Action | Code |
|---|---|
| `New`, `Run`, `RunFailed` | `NewLeaderRunner` and `Run` with the ways to fail |
| `Timing`, `RequestTimeout` | the durations that `Run` hands on to the election, and `restConfig` to its client |
| `Acquire`, `Renew` | the lease is written at the API server (external) |
| `Elected`, `Renewed` | the answer arrives (external) |
| `Withdraw`, `Lose`, `Tick` | the elector ends; time passes (external) |
| `Stopped` | `OnStoppedLeading`: the report, which waits for room in the channel |
| `TaskSynced`, `TaskFailed`, `TaskReport` | `OnStartedLeading`: the run function and Init |
| `WorkerBegin`, `Take`, `Finish`, `WorkerExit` | a worker, as Processor has it |
| `Cancel`, `ReadError`, `Restart`, `Crash` | the consumer and its process (external) |

The controllers are one runnable with one worker and a number of ready items.
An instance outside `Sound` may fail to create its runner, lock or elector, and
every elector is refused if the durations do not satisfy `Accepted`, the checks
of client-go. The election follows its renew loop. A write takes effect, and
others may take the lease `LeaseDuration` later; its answer arrives up to
`Latency` later, but not after the request timeout, or never. An elected leader
tries to renew at once, for `RenewDeadline`; after each answer it rests for
`RenewPeriod` (the retry period of client-go) and then tries again for
`RenewDeadline`. When that has passed it cancels the context of the controllers,
which takes no time in the model, then calls `OnStoppedLeading`. A write that
takes effect after its client has given it up is left out: it fails if somebody
else has written meanwhile, and otherwise only prolongs the lease.

**Retriever** and **Filters** are the pure parts: the options a stack of
retrievers sends, what an error says after each layer has wrapped it, and the
verdicts of the filters on an event. **Observer** extends both and composes
them: a resource changes in the API server, the informer lists and watches
through the retrievers, the cache changes, and events that pass the filters
make the handler reconcile. Queue and workers are one step there (`Reconcile`,
`GiveUp`), which Reconciler justifies. API server and informer are external:
versions may be skipped by a list and may become too old for a watch; the
informer then asks for the latest version if it recognises the error.

The `MC` modules give constants values and symmetry sets. Operators marked
"Mutated form of" are plausible mistakes; nothing uses them in the model, they
show that the properties notice.

## Runs

| Run | Result | Instance | What it shows |
|---|---|---|---|
| `processor_life` | pass, 163k states | 1 key, 2 workers, 1 retry, 3 versions, 2 events, fair | refinement, exclusion, no lost change, bounded retries, versions never go back, progress and an orderly end |
| `processor_panic` | violated | 1 key, 1 worker, unlimited retries | see Findings |
| `controller_life` | pass, 69k states | 2 controllers, 3 handlers, channel of 1, errors read meanwhile | sync before work, no silent failure, start and stop |
| `controller_handlers` | violated | 1 controller, 2 handlers | see Findings |
| `leader_election` | pass, 275k states | 2 instances, lease 6, deadline 2, period 1, answers up to 4 late, channel of 1, one crash, one instance that may be misconfigured and reads no errors | one leader, losers stop, somebody leads |
| `leader_drain` | violated | the same without a crash | see Findings |
| `tracker_safety` | pass, 245k states | 5 versions, 2 events, 3 writes | no hidden change |
| `tracker_expiry` | violated | 3 versions, 1 write | see Findings |
| `listing_exact` | pass, 10k states | 2 keys, 2 owner names, 2 uids, all index sets | queries |
| `listing_all` | violated | the same | see Findings |
| `monitor_times` | pass, 73k states | 2 keys, 2 workers, 3 additions per key | queue times and metrics |
| `observer_follows` | pass, 291k states | 4 versions, 2 events, 1 closed watch, a label selector, 5 filter lists | selection, catching up, filters and re-sync |

The runs of Processor, Controller, SelfWriteTracker, MonitorQueue and Observer
also check `IndInv`, the inductive invariant behind the proofs of that module,
which contains the type invariant.

Why the bounds are enough: every race in the processor is between one worker
and another on the same key, or between a worker and the event path, so two
workers and one key contain them (items interact in the queue only, which
MonitorQueue checks with two, and the proofs are for any number); three
versions and up to two events in flight let an event arrive before, during and after an attempt. `MaxFailures`
lies above any retry limit, so the limit and not the bound ends retries. Two
controllers suffice for one that syncs and one that fails, and a channel of
one for an Init that has to wait. In the tracker five versions hold two own
writes between changes by others. The lease of six ticks is the
shortest that satisfies `KeepsApart` for a deadline of two, a period of one and
answers cut off after two, so a leader that cannot renew and a candidate that
waits meet at every distance; answers could take four ticks, so the request
timeout matters; one crash leaves a lease behind. Four versions let a resource be
created, changed, deleted and created again between two lists. The bounds on
versions and events stop the environment at the end of a behaviour, which is
why deadlock checking is off where workers then wait for ever or have returned;
Listing has no such end and is checked for deadlock.

Fairness: goroutines that can run are run, timers fire, and the consumer's
Handle returns (weak fairness of each worker, of the event delivery, of Run and
of the timers). Nothing forces changes, errors, panics or cancellation. In
Controller also: the API server answers while the context lives, and the
consumer reads errors once it can. In SelfWriteTracker: the informer and the
handler proceed, and the TTL passes. In Leader: time passes, a candidate that
may take the lease gets to it, one that takes it again and again gets an answer
(strong fairness of `Elected`: a request that is repeated does not fail for
ever), and the consumers in `Readers` read errors and
restart; renewals may all fail, and nothing forces events, crashes or
cancellation. In Observer: the informer lists, watches and re-syncs, the event
handler and the workers run; changes, compaction and lost connections are not
forced.

## Findings

Each is a run whose counterexample contradicts a comment in the code;
`PROJECT.json` quotes the lines.

1. `controller_handlers` - `controller.Run` calls `processor.Run` in turn, and
   that blocks: a second handler of a controller never works.
2. `processor_panic` - an item whose Handle panics is not requeued.
3. `tracker_expiry` - expired entries of deleted resources are never removed.
4. `leader_drain` - the loop of a worker looks at its queue, not at its context:
   an instance that has lost its leadership goes on taking ready items while
   another instance leads.
5. `listing_all` - `List` passes every object through `owner`, which refuses
   those without an `ObjectMetaAccessor`, also when asked for all objects.

Seen in the models and worth knowing, without a run of their own:

* A panic or a lookup error leaves the failure count of an item, since only
  success and a refused requeue forget it: a later event of that item is given
  up after fewer retries than configured, even on its first failure.
* An item added between the two halves of `MonitorQueue.Get`, or one that waits
  for its delay while an earlier addition is taken, stays without a time and is
  not measured.
* `process` takes the start of its `DoneEvent` before the blocking `Get`: the
  duration contains the time the worker waited for an item.
* The selectors of nested filter retrievers do not add up. `options` overwrites
  both, so the innermost ones are sent, an absent one as "everything". With two
  filter layers in `Stacks` TLC violates `CacheSelected`, which quotes the
  comment on `NewFilterRetriever`; the model states the requirement as
  `Effective`.
* `GenerationChanged` drops a resource that was deleted and created again with
  the same generation while the informer did not watch, and both stock filters
  drop re-syncs, the recovery the documentation of `Retries` counts on.
* `Or` of nil filters only drops every event, `And` of them passes every one.
* `And` stops at the first filter that drops an event: a tracker behind it does
  not see that event, and its entry stays.
* `ForeignChangeSeen` relies on writes that carry the version read. With
  `Precondition = FALSE`, as for patches, TLC finds a change by others that the
  tracker hides: the version marked covers a change the handler has not read.
* An echo that overtakes `Mark`, or a write that changes nothing, leaves an
  entry that drops the next re-sync event of that version instead.
* The elector accepts durations that do not keep leaders apart. It insists on
  `LeaseDuration > RenewDeadline` and `RenewDeadline > 1.2 * RenewPeriod`; one
  live leader takes `KeepsApart`. With 11s, 10s and 2s a leader gives up 12s
  after its last renewal, when the lease has run out. The defaults (15s, 10s,
  2s) leave 3s for an answer: a renewal that takes effect and is answered later
  than that, within the request timeout of 10s, may leave two leaders.
* A refused requeue leaves a time in the map of the monitored queue (`refused`
  in MonitorQueue), from which the next stay of the item is measured.
* `RunnerReturns` needs room in the channel for every controller or a consumer
  that reads it while the runner waits. With `ErrCap = 1` and
  `Concurrent = FALSE` an Init blocks in its send, and the runner with it.

## Proofs

Every theorem holds for all values of the constants that satisfy the named
assumption of its module, which TLC evaluates on every run. None of the
properties is inductive alone: each module has an `IndInv`, which a run checks
on its instance before the proof takes it to all of them. The proofs follow one
pattern. One lemma for the initial states, one for each part of `IndInv` (or for
each group of actions) that a step keeps it, then `Invariance`,
`Spec => []IndInv`, and the properties as its consequences.

**QueueProofs** has the lemmas on sequences and on the queue operators that
ProcessorProofs and MonitorQueueProofs share.

**ProcessorProofs** proves, for any keys, workers, retries, delays and bounds
(`RetriesAssumption`, `ProcessorAssumption`),

* `Invariance`, and from it `TypeCorrect`, `MutualExclusion`, `BoundedRetries`,
  `ChangesKept`, `DrainedAtExit`;
* `Monotone`: `Spec => NeverGoesBack`, an action property;
* `Refinement`: `Spec => Implements`.

`IndInv` adds: the ready items are exactly the dirty items in nobody's hands,
each once (`QueueInv`), without which Get could hand a held item out again;
items in processing and busy workers correspond (`HeldInv`); the answer of
`CanRetry` still holds when it is used, because only the worker that holds an
item changes its count (`RetryInv`); versions wanted, read and settled are
ordered below the cache (`VersionInv`); a worker that has returned saw an empty,
closed queue and leaves later items to a worker still in the loop (`ExitInv`).
`NoLostChange` needs `VersionInv`: a worker that has yet to read the cache will
read at least the version wanted, because the cache is ahead of every event.

For the refinement, initial states map to initial states, and each action of
Processor maps to one action of Reconciler or to a stutter, from `IndInv`:
`HeldInv` makes the attempts of two workers differ by their keys, `VersionInv`
bounds the versions seen, and `DelayInv` (nothing waits for its delay once the
queue is shut down) shows that a timer that fires makes an item ready and never
drops it.

**MonitorQueueProofs** proves `TypeCorrect`, `Measured` (`MeasuredOnce`),
`HandledBounded` (`HandledOnce`) and `TimesKept` (`TimesAccounted`) for any
items, workers and calls (`MonitorAssumption`). That DoneEvent never overtakes
AddEvent is a matter of double-entry accounts: `AccountInv` counts the ways in
which an item may still come to be counted by DoneEvent (announced and not yet
queued, by the event handler or by the worker that holds it; waiting; dirty; in
processing) and says that each was announced by an AddEvent of its own. A step
moves an item from one account to another; coalescing loses one. It needs
`QueueInv` (Get takes an item that is dirty and in nobody's hands) and `HeldInv`
(one worker announces an item at a time).

**SelfWriteTrackerProofs** proves `TypeCorrect`, `DropsBounded` (`DropsOnce`)
and, under the hypothesis `Precondition`, `NothingHidden`
(`ForeignChangeSeen`), from `TrackerAssumption`. The hypothesis is that writes
carry the version read; it is the one the run has, and without it the property
is false (see Findings). `BasisInv` is the heart: what the handler has read, has
written and has marked contains no change it does not know, so an event that is
dropped because its version was marked hides nothing. `EventsInv` says that the
last event on its way is about the version in the cache; `EntryInv` that every
entry and every drop is paid for by a `Mark` of its own.

**ControllerProofs** proves `TypeCorrect`, `WorkAfterSync` (`SyncedBeforeWork`)
and `FailuresReported` (`NoSilentFailure`) for any controllers, handlers and
room in the error channel (`ControllerAssumption`). `InitInv` follows each Init
from the start of the runner to a synced cache or a report, `RunInv` says that
nothing runs before the runner has passed its barrier. `SyncedBeforeWork` also
needs that a failed Init means that the context is done, so that the workers of
a group with a failure look at the context and never begin.

**LeaderProofs** proves `TypeCorrect` for any number of instances and any
durations (`LeaderAssumption`), and under the hypothesis `KeepsApart` also
`LeaseKept`, `Spec => []LeaseInv`, and `SingleLeader`, `Spec => []OneLiveLeader`.
`KeepsApart` is that the lease lasts longer than an answer may take, the renew
period and the renew deadline together. It is a condition on the configuration
and on the network, which the code does not check (see Findings); the run
satisfies it. `OneLiveLeader` is not inductive: a leader whose lease has run out
would lose it to another. `LeaseInv` adds that a leader holds the lease, that
its rest and its deadline end before the lease does, and that, while an answer
may come, the lease has run no longer than the answer has been on its way: so
the answer finds enough of the lease left for a new rest and a new deadline.

**ListingProofs** proves, from `ListingAssumption`, `IndicesExact`,
`ListCorrect` and `ByIndexCorrect`. Inductive are the types, the exactness of
the indices, and that a cache with an index holds no object without a meta
accessor. That List returns the part of its reference that has an accessor then
is a property of each such state (`ListIsOwned`). `Owned`, the reference, is
what the documentation promises and contains the other objects too; that List
leaves them out is a finding.

**ObserverProofs** proves `TypeCorrect`, `SpecSeen` (`SpecChangeSeen`) and,
under the hypothesis `Effective`, `Selection` (`CacheSelected`) for any
retrievers, filters, selectors and bounds (`ObserverAssumption`, and
`NilAssumption`: a nil filter is no verdict). `CacheInv` says that the cache is
the selected part of what the informer has seen last: it rests on List and Watch
sending the same options, whatever they are. `OrderInv` says that every state of
the resource has a version of its own, without which the version filter could
drop a change of the generation. `PassInv` says that a generation the handler
has not reconciled is on its way in an event that passes. `Effective` says that
the selectors of every layer reach the API server. It excludes filter retrievers
around others (see Findings), and `MCObserver` has TLC evaluate it for the
retrievers of the run. It is a hypothesis and not a lemma because the options
are a fold over the layers, and what a fold computes for every stack takes an
induction over sequences, which is out of the prover's reach.

Only model-checked: all liveness (fairness and ENABLED are out of the prover's
reach), that is `EventuallySettled`, `StopsWithContext`, `RunnerReturns`,
`AllStop`, `FirstHandlersWork`, `LosersStop`, `Served`, `Converges` and
`RecoveredByResync`. `Converges` is also where the errors a stack of retrievers
wraps (`Answer`, a fold) matter. The findings are counterexamples and have no
proofs.

## Not modelled

* Logging (`Notify`, `Stack`), the text of errors, and the registration of
  metrics (`NewRecorder`, `RegisterLen`, the client metrics): they hand values
  on and nothing in the repository depends on them.
* `SetTransform`, `StripManagedFields` and the defaults of the configurations:
  they configure the informer before it starts. `Get` reads one cache entry.
* A torn read of the slice of processors by `Run` while `AddHandler` appends to
  it without a lock: the model takes both as atomic.
* Panics of the consumer's `Notify`.
* Clocks of instances that run at different speeds: they have to be covered by
  the margin that the durations leave beyond `KeepsApart`.
* The request budget of the election client (`restConfig`): renewals may fail
  at any time in the model, for this reason or another. The timeout that
  `restConfig` sets is modelled.

## Plan

Done: Queue, Processor, Controller, SelfWriteTracker, Listing, MonitorQueue,
Leader, Retriever, Filters, Observer, the refinement of Reconciler, and the
proofs of every safety property that a run checks. Next:

1. Action properties of the tracker and of the leader that follow from their
   invariants (an entry is removed or replaced but never goes back to an older
   mark; a lease changes hands only after it ran out).
2. What a stack of retrievers sends, for stacks of a given depth, as lemmas
   that discharge `Effective` without an induction.
3. A run of its own for nested filter retrievers, described under Findings.
