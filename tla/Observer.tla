------------------------------ MODULE Observer ------------------------------
(***************************************************************************)
(* From the API server to the handler: a resource changes in the API       *)
(* server, the informer follows it through the retriever by List and       *)
(* Watch, the cache changes, and the events that pass the filters of the   *)
(* handler make it reconcile what the cache holds.                         *)
(*                                                                         *)
(* The informer and the API server are not part of the repository.  They   *)
(* are modelled from what the controller relies on: a watch delivers every *)
(* change after a version, a version may become too old to go on from, a   *)
(* List may lag behind, and a List that is refused because its version is  *)
(* too old is repeated without one, if the informer can tell.  Queue and   *)
(* workers are one step each, as Reconciler allows: Processor has them.    *)
(***************************************************************************)
EXTENDS Filters, Retriever

CONSTANTS
  Stacks,      \* the retrievers a controller is created with
  Handlers,    \* the filters a handler is added with, by name
  Syncs,       \* Config.Sync is set
  Traits,      \* the selectors that resources may match or not
  MaxVersion,  \* bound: changes in the API server
  MaxEvents,   \* bound: events on their way to the handler
  MaxLosses    \* bound: watches that are closed

FilterNames == {"nil", "generation", "version", "resync", "either"}

ASSUME ObserverAssumption ==
  /\ Stacks \subseteq Seq(Layers)
  /\ Handlers \subseteq Seq(FilterNames)
  /\ Syncs \in BOOLEAN
  /\ Traits \subseteq Selectors
  /\ MaxVersion \in Nat /\ MaxEvents \in Nat /\ MaxLosses \in Nat

VARIABLES
  stack,    \* the retriever of the controller
  filters,  \* the filters of the handler
  version,  \* the resource version of the API server
  seen,     \* what the API server held at the version the informer knows
  unseen,   \* what it held after each change since then
  old,      \* the version the informer knows is too old to go on from
  phase,    \* the informer is about to "list", or has a "watch"
  latest,   \* the next List asks for the latest version
  losses,   \* watches that were closed
  cached,   \* the resource in the cache, or Nil
  events,   \* the notifications on their way to the event handler
  due,      \* the resource is queued
  handled,  \* history: what the handler last reconciled, Nil for a deletion
  gaveUp    \* history: the last attempt failed and was not repeated

config == <<stack, filters>>
server == <<version, unseen, old>>
informer == <<seen, phase, latest, losses, cached>>
handler == <<due, handled, gaveUp>>
vars == <<config, server, informer, events, handler>>

\* The generation is raised by changes of the spec, the traits are what the
\* selectors look at.
Resources == [gen : Nat, rv : Nat, traits : SUBSET Traits]

Events == [op   : {"add", "update", "delete"},
           prev : Resources \cup {Nil},
           obj  : Resources \cup {Nil}]

Event(op, prev, obj) == [op |-> op, prev |-> prev, obj |-> obj]

TypeOK ==
  /\ stack \in Stacks
  /\ filters \in Handlers
  /\ version \in 0 .. MaxVersion
  /\ seen \in Resources \cup {Nil}
  /\ unseen \in Seq(Resources \cup {Nil})
  /\ old \in BOOLEAN /\ latest \in BOOLEAN
  /\ phase \in {"list", "watch"}
  /\ losses \in 0 .. MaxLosses
  /\ cached \in Resources \cup {Nil}
  /\ events \in Seq(Events) /\ Len(events) <= MaxEvents
  /\ due \in BOOLEAN /\ gaveUp \in BOOLEAN
  /\ handled \in Resources \cup {Nil}

Init ==
  /\ stack \in Stacks
  /\ filters \in Handlers
  /\ version = 0
  /\ seen = Nil
  /\ unseen = <<>>
  /\ old = FALSE
  /\ phase = "list"
  /\ latest = FALSE
  /\ losses = 0
  /\ cached = Nil
  /\ events = <<>>
  /\ due = FALSE
  /\ handled = Nil
  /\ gaveUp = FALSE

-----------------------------------------------------------------------------
(* The API server. *)

Current == Last(<<seen>> \o unseen)

Becomes(obj) ==
  /\ version < MaxVersion
  /\ version' = version + 1
  /\ unseen' = Append(unseen, obj)
  /\ UNCHANGED <<config, old, informer, events, handler>>

Create ==
  /\ Current = Nil
  /\ \E traits \in SUBSET Traits :
       Becomes([gen |-> 1, rv |-> version + 1, traits |-> traits])

ChangeSpec ==
  /\ Current # Nil
  /\ Becomes([Current EXCEPT !.gen = @ + 1, !.rv = version + 1])

ChangeStatus ==
  /\ Current # Nil
  /\ Becomes([Current EXCEPT !.rv = version + 1])

ChangeTraits ==
  /\ Current # Nil
  /\ \E traits \in (SUBSET Traits) \ {Current.traits} :
       Becomes([Current EXCEPT !.traits = traits, !.rv = version + 1])

Delete ==
  /\ Current # Nil
  /\ Becomes(Nil)

\* Old versions are removed.
Compact ==
  /\ unseen # <<>> /\ ~old
  /\ old' = TRUE
  /\ UNCHANGED <<config, version, unseen, informer, events, handler>>

-----------------------------------------------------------------------------
(* The informer. *)

Selects(opts, obj) == obj # Nil /\ opts \subseteq obj.traits

Notify(e) ==
  /\ Len(events) < MaxEvents
  /\ events' = Append(events, e)

\* The cache takes a resource over; one that has not changed is no news.
Upsert(obj) ==
  /\ cached' = obj
  /\ \/ cached = obj /\ UNCHANGED events
     \/ cached = Nil /\ Notify(Event("add", Nil, obj))
     \/ cached \notin {obj, Nil} /\ Notify(Event("update", cached, obj))

\* The cache drops what it holds.  A tombstone may have lost the resource.
Evict(tombstone) ==
  /\ cached' = Nil
  /\ \/ cached = Nil /\ UNCHANGED events
     \/ cached # Nil /\ Notify(Event("delete", Nil, cached))
     \/ cached # Nil /\ tombstone /\ Notify(Event("delete", Nil, Nil))

\* The list is of the version the informer knows, or of a later one.
List ==
  /\ phase = "list"
  /\ old => latest
  /\ \E n \in 0 .. Len(unseen) :
       LET obj == (<<seen>> \o unseen)[n + 1] IN
       /\ latest => n = Len(unseen)
       /\ seen' = obj
       /\ unseen' = SubSeq(unseen, n + 1, Len(unseen))
       /\ IF Selects(ListOptions(stack, {}), obj) THEN Upsert(obj)
          ELSE Evict(TRUE)
  /\ phase' = "watch"
  /\ latest' = FALSE
  /\ old' = FALSE
  /\ UNCHANGED <<config, version, losses, handler>>

\* The informer asks for the latest version if it finds the cause.
ListRefused ==
  /\ phase = "list" /\ old /\ ~latest
  /\ latest' = Is(Answer(stack, {"expired"}), "expired")
  /\ UNCHANGED <<config, server, seen, phase, losses, cached, events, handler>>

\* A watch shows changes of what it selects only.
Watch ==
  /\ phase = "watch" /\ ~old /\ unseen # <<>>
  /\ LET opts == WatchOptions(stack, {})
         obj == Head(unseen) IN
     \/ Selects(opts, obj) /\ Upsert(obj)
     \/ Selects(opts, seen) /\ ~Selects(opts, obj) /\ Evict(FALSE)
     \/ /\ ~Selects(opts, seen) /\ ~Selects(opts, obj)
        /\ UNCHANGED <<cached, events>>
  /\ seen' = Head(unseen)
  /\ unseen' = Tail(unseen)
  /\ UNCHANGED <<config, version, old, phase, latest, losses, handler>>

\* The version is too old, or the connection is lost: the informer lists again.
WatchRefused ==
  /\ phase = "watch" /\ old
  /\ phase' = "list"
  /\ UNCHANGED <<config, server, seen, latest, losses, cached, events, handler>>

WatchClosed ==
  /\ phase = "watch" /\ losses < MaxLosses
  /\ phase' = "list"
  /\ losses' = losses + 1
  /\ UNCHANGED <<config, server, seen, latest, cached, events, handler>>

\* The periodic re-sync replays what the cache holds.  The bound on events
\* leaves room for a change, which no re-sync ever keeps from being delivered.
Resync ==
  /\ Syncs
  /\ cached # Nil
  /\ Len(events) + 1 < MaxEvents
  /\ Notify(Event("update", cached, cached))
  /\ UNCHANGED <<config, server, informer, handler>>

-----------------------------------------------------------------------------
(* The handler. *)

\* What the named filter says of event e: the stock filters, a filter that
\* passes re-syncs only, and one that passes them and changes of the spec.
Verdict(name, e) ==
  CASE name = "nil"        -> Nil
    [] name = "generation" -> GenerationChanged(e)
    [] name = "version"    -> ResourceVersionChanged(e)
    [] name = "resync"     -> Not(ResourceVersionChanged(e))
    [] name = "either"     -> Or(<<Nil, GenerationChanged(e),
                                   Not(ResourceVersionChanged(e))>>)

Passes(e) == combine([i \in DOMAIN filters |-> Verdict(filters[i], e)])

\* Mutated form of Enqueue: a re-sync is taken for no news.
EnqueueNews ==
  /\ events # <<>>
  /\ events' = Tail(events)
  /\ LET e == Head(events)
     IN  due' = (due \/ (e.prev # e.obj /\ Passes(e)))
  /\ UNCHANGED <<config, server, informer, handled, gaveUp>>

Enqueue ==
  /\ events # <<>>
  /\ events' = Tail(events)
  /\ due' = (due \/ Passes(Head(events)))
  /\ UNCHANGED <<config, server, informer, handled, gaveUp>>

Reconcile ==
  /\ due
  /\ due' = FALSE
  /\ handled' = cached
  /\ gaveUp' = FALSE
  /\ UNCHANGED <<config, server, informer, events>>

\* Handle fails until no retry is left, or it panics, or the lookup fails, which
\* it may for a resource that is not there too.
GiveUp ==
  /\ due
  /\ due' = FALSE
  /\ gaveUp' = TRUE
  /\ UNCHANGED <<config, server, informer, events, handled>>

-----------------------------------------------------------------------------
Next ==
  \/ Create \/ ChangeSpec \/ ChangeStatus \/ ChangeTraits \/ Delete \/ Compact
  \/ List \/ ListRefused \/ Watch \/ WatchRefused \/ WatchClosed \/ Resync
  \/ Enqueue \/ Reconcile \/ GiveUp

Spec == Init /\ [][Next]_vars

\* The informer, its timer, the event handler and the workers run; changes,
\* compaction and lost connections are up to others.
FairSpec ==
  /\ Spec
  /\ WF_vars(List) /\ WF_vars(ListRefused)
  /\ WF_vars(Watch) /\ WF_vars(WatchRefused) /\ WF_vars(Resync)
  /\ WF_vars(Enqueue) /\ WF_vars(Reconcile \/ GiveUp)

-----------------------------------------------------------------------------
(* Safety. *)

\* The cache never holds a resource that a selector of the retriever excludes,
\* however its traits change and whether it is listed or watched:
\* NewFilterRetriever is "narrowing the resources observed by the given
\* retriever applying the given label and field selector on the initial list
\* as well as on the watch requests".
CacheSelected ==
  cached # Nil =>
    \A i \in DOMAIN stack : stack[i].selectors \subseteq cached.traits

\* The selectors of every layer reach the API server: no filter retriever is
\* nested in another one that replaces its selectors.
Effective ==
  \A s \in Stacks : \A i \in DOMAIN s :
    s[i].selectors \subseteq ListOptions(s, {})

\* All but the filter for re-syncs are meant to pass additions, deletions and
\* changes of the spec.
MindsSpec == \A i \in DOMAIN filters : filters[i] # "resync"

Generation(obj) == IF obj = Nil THEN 0 ELSE obj.gen

\* With filters that pass changes of the spec, a handler with nothing left to
\* do has reconciled the generation in the cache, although it is told of
\* differences between states of the cache only: versions in between may be
\* missed by a List, and the resource may have been deleted and created again.
SpecChangeSeen ==
  events = <<>> /\ ~due /\ ~gaveUp /\ MindsSpec =>
    Generation(handled) = Generation(cached)

-----------------------------------------------------------------------------
(* The inductive invariant behind them. *)

\* The API server gives every state of the resource a version of its own.
OrderInv ==
  /\ seen # Nil => seen.rv <= version
  /\ \A i \in DOMAIN unseen :
       unseen[i] # Nil =>
         /\ unseen[i].rv <= version
         /\ seen # Nil => seen.rv < unseen[i].rv
         /\ \A j \in DOMAIN unseen :
              i < j /\ unseen[j] # Nil => unseen[i].rv < unseen[j].rv

\* The cache holds what List or Watch has shown last, if it is selected.
CacheInv ==
  cached = IF Selects(ListOptions(stack, {}), seen) THEN seen ELSE Nil

\* A change of the spec that is not reconciled is on its way, and passes.
PassInv ==
  ~due /\ ~gaveUp /\ MindsSpec =>
    \/ \E i \in DOMAIN events : Passes(events[i])
    \/ Generation(handled) = Generation(cached)

\* The cache is what was seen and selected last, every version is told apart
\* from the ones before, and what is not reconciled is on its way.
IndInv ==
  /\ TypeOK
  /\ OrderInv
  /\ CacheInv
  /\ PassInv

-----------------------------------------------------------------------------
(* Liveness. *)

\* Once the API server is quiet the cache comes to hold what it selects and
\* stays so, even if the version of the informer became too old: the informer
\* finds that cause in the error that the retrievers have wrapped.
Converges ==
  <>[](cached = IF Selects(ListOptions(stack, {}), Current)
                THEN Current ELSE Nil)

\* "Once the retries are exhausted the event is dropped and recovery depends on
\* the next resource event or re-sync" (Config.Retries): with filters that pass
\* re-syncs, what was given up is queued again as long as the cache holds it.
RecoveredByResync ==
  gaveUp /\ cached # Nil /\ Passes(Event("update", cached, cached))
    ~> due \/ cached = Nil

=============================================================================
