-------------------------- MODULE SelfWriteTracker --------------------------
(***************************************************************************)
(* The tracker of controller/filter.go that drops the events a controller  *)
(* causes by its own writes.  A handler reads a resource from the cache,   *)
(* writes it and then calls Mark with the version the API server returned; *)
(* the informer, in a goroutine of its own, updates the cache and passes   *)
(* the events through Filter.  Others write the resource at any time.      *)
(*                                                                         *)
(* The entries of different keys do not interact and a queue never hands a *)
(* key to two workers, so one resource with one writer is modelled.  Its   *)
(* versions are counted; version 1 is in the cache and known at the start. *)
(***************************************************************************)
EXTENDS Integers, Sequences

CONSTANTS
  Precondition,  \* whether own writes carry the version read, as updates do
  MaxVersion,    \* bound: versions of the resource
  MaxEvents,     \* bound: events on their way to Filter
  MaxMarks       \* bound: own writes

ASSUME TrackerAssumption ==
  /\ Precondition \in BOOLEAN
  /\ MaxVersion \in Nat \ {0} /\ MaxEvents \in Nat /\ MaxMarks \in Nat

VARIABLES
  version,  \* the version at the API server
  own,      \* the versions written by the controller
  gone,     \* the versions at which the resource was deleted
  cached,   \* the version in the cache
  events,   \* the events on their way to Filter
  read,     \* the version the handler works on, 0 between two reconciles
  written,  \* the version its write returned, 0 before the write
  entry,    \* entries[key]: the version marked, 0 without an entry
  fresh,    \* whether the entry is younger than the TTL
  seen,     \* history: the last version passed on to, or read by, the handler
  marks,    \* history: the calls of Mark
  drops     \* history: the events dropped

server == <<version, own, gone>>
informer == <<cached, events>>
handler == <<read, written>>
tracker == <<entry, fresh>>
history == <<seen, marks, drops>>
vars == <<server, informer, handler, tracker, history>>

Versions == 1 .. MaxVersion

Events == [op : {"add", "update", "delete"}, prev : Versions, rv : Versions,
           meta : BOOLEAN]

TypeOK ==
  /\ version \in Versions
  /\ own \in SUBSET Versions
  /\ gone \in SUBSET Versions
  /\ cached \in Versions
  /\ events \in Seq(Events)
  /\ read \in Versions \cup {0}
  /\ written \in Versions \cup {0}
  /\ entry \in Versions \cup {0}
  /\ fresh \in BOOLEAN
  /\ seen \in Versions
  /\ marks \in Nat
  /\ drops \in Nat

Init ==
  /\ version = 1 /\ own = {} /\ gone = {}
  /\ cached = 1 /\ events = <<>>
  /\ read = 0 /\ written = 0
  /\ entry = 0 /\ fresh = FALSE
  /\ seen = 1 /\ marks = 0 /\ drops = 0

Later(v) == IF v > seen THEN v ELSE seen

-----------------------------------------------------------------------------
(* The API server: changes by others, and own writes of the handler. *)

Change ==
  /\ version < MaxVersion
  /\ version' = version + 1
  /\ UNCHANGED <<own, gone, informer, handler, tracker, history>>

Delete ==
  /\ version < MaxVersion
  /\ version \notin gone
  /\ version' = version + 1
  /\ gone' = gone \cup {version + 1}
  /\ UNCHANGED <<own, informer, handler, tracker, history>>

\* The handler looks the resource up in the cache.
Read ==
  /\ read = 0
  /\ cached \notin gone
  /\ read' = cached
  /\ seen' = Later(cached)
  /\ UNCHANGED <<server, informer, written, tracker, marks, drops>>

CanWrite ==
  /\ read # 0 /\ written = 0 /\ marks < MaxMarks
  /\ version \notin gone
  /\ Precondition => version = read

Write ==
  /\ CanWrite
  /\ version < MaxVersion
  /\ version' = version + 1
  /\ own' = own \cup {version + 1}
  /\ written' = version + 1
  /\ UNCHANGED <<gone, informer, read, tracker, history>>

\* A write that changes nothing returns the version there is.
WriteNothing ==
  /\ CanWrite
  /\ written' = version
  /\ UNCHANGED <<server, informer, read, tracker, history>>

\* The handler returns without a write, or its write fails.
Return ==
  /\ read # 0 /\ written = 0
  /\ read' = 0
  /\ UNCHANGED <<server, informer, written, tracker, history>>

-----------------------------------------------------------------------------
(* The informer (client-go). *)

Notify(op, prev, rv, meta) ==
  /\ Len(events) < MaxEvents
  /\ events' = Append(events, [op |-> op, prev |-> prev,
                               rv |-> rv, meta |-> meta])
  /\ UNCHANGED <<server, handler, tracker, history>>

\* The cache moves on to version v and reports the difference.
Observe(v) ==
  /\ cached' = v
  /\ \/ v \in gone /\ cached \notin gone /\ Notify("delete", cached, v, TRUE)
     \/ v \notin gone /\ cached \in gone /\ Notify("add", cached, v, TRUE)
     \/ v \notin gone /\ cached \notin gone /\ Notify("update", cached, v, TRUE)

\* A watch delivers every version.
Watch ==
  /\ cached < version
  /\ Observe(cached + 1)

\* A new list delivers the last version only, and a deletion as a tombstone,
\* which need not hold the resource.
Relist ==
  /\ cached + 1 < version
  /\ \/ Observe(version)
     \/ /\ version \in gone /\ cached \notin gone
        /\ cached' = version
        /\ Notify("delete", cached, version, FALSE)

\* The periodic re-sync replays the cache.
Resync ==
  /\ cached \notin gone
  /\ Notify("update", cached, cached, TRUE)
  /\ UNCHANGED cached

-----------------------------------------------------------------------------
(* The tracker. *)

\* Mark is the last thing the handler does; it replaces any older entry.
Mark ==
  /\ written # 0
  /\ entry' = written
  /\ fresh' = TRUE
  /\ marks' = marks + 1
  /\ read' = 0 /\ written' = 0
  /\ UNCHANGED <<server, informer, seen, drops>>

\* The TTL of the entry passes.
Expire ==
  /\ entry # 0 /\ fresh
  /\ fresh' = FALSE
  /\ UNCHANGED <<server, informer, handler, entry, history>>

\* Mutated form of Drops: any entry drops the event.
DropsAny(e) == e.op = "update" /\ e.meta /\ entry # 0 /\ fresh

Drops(e) == e.op = "update" /\ e.meta /\ entry = e.rv /\ fresh

Expired(e) == e.op = "update" /\ e.meta /\ entry # 0 /\ ~fresh

\* Mutated form of Clears: an entry that matches is kept.
ClearsExpired(e) == (e.op = "delete" /\ e.meta) \/ Expired(e)

\* Filter removes the entry on a deletion, when it has expired, and when it
\* drops its event.
Clears(e) == (e.op = "delete" /\ e.meta) \/ Expired(e) \/ Drops(e)

Filter ==
  /\ events # <<>>
  /\ LET e == Head(events)
     IN  /\ entry' = IF Clears(e) THEN 0 ELSE entry
         /\ seen' = IF Drops(e) THEN seen ELSE Later(e.rv)
         /\ drops' = IF Drops(e) THEN drops + 1 ELSE drops
  /\ events' = Tail(events)
  /\ UNCHANGED <<server, cached, handler, fresh, marks>>

-----------------------------------------------------------------------------
Next ==
  \/ Change \/ Delete
  \/ Read \/ Write \/ WriteNothing \/ Return \/ Mark
  \/ Watch \/ Relist \/ Resync
  \/ Expire \/ Filter

Spec == Init /\ [][Next]_vars

\* The informer and the handler go on and time passes; changes, re-syncs and
\* what the handler does with the resource are up to others.
FairSpec ==
  /\ Spec
  /\ WF_vars(Watch \/ Relist) /\ WF_vars(Filter)
  /\ WF_vars(Mark) /\ WF_vars(Expire)

-----------------------------------------------------------------------------
(* Safety. *)

\* The handler knows every version up to n: it wrote it, or was told of it or
\* of a later one.
Covered(n) == \A v \in 1 .. n : v \in own \/ v <= seen

\* No change by others is lost: once the events are filtered, every version in
\* the cache that the controller did not write was passed on to the handler,
\* superseded by one that was, or read by it.  This relies on the writes: the
\* version marked is based on all changes before it.
ForeignChangeSeen == events = <<>> => Covered(cached)

\* A mark drops at most one event.
DropsOnce == drops <= marks

-----------------------------------------------------------------------------
(* The inductive invariant behind them. *)

\* What the handler works on, has written and has marked holds nothing that it
\* does not know: dropping the event of a marked version hides nothing.
BasisInv == Covered(read) /\ Covered(written) /\ Covered(entry)

\* The last event on its way to Filter is about the version in the cache.
EventsInv ==
  IF events = <<>> THEN Covered(cached) ELSE events[Len(events)].rv = cached

\* Every entry and every drop is paid for by a mark of its own.
EntryInv == drops + (IF entry = 0 THEN 0 ELSE 1) <= marks

\* Every step of server, informer, handler and tracker keeps the entry paid for
\* by a mark and, with preconditions on writes, the marked version known.
IndInv ==
  /\ TypeOK
  /\ EntryInv
  /\ Precondition => BasisInv /\ EventsInv

-----------------------------------------------------------------------------
(* What the documentation says and the code does not do. *)

\* "The TTL ensures that stale entries from writes that were never echoed back
\* (e.g., due to object deletion or superseding writes) are automatically
\* cleaned up": the entry of a resource that is gone does not stay for ever.
StaleEntriesCleaned ==
  [](cached \in gone /\ entry # 0 => <>(entry = 0 \/ cached \notin gone))

=============================================================================
