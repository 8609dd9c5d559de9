-------------------------- MODULE ProcessorRefines --------------------------
(***************************************************************************)
(* The processor of a handler (Processor) keeps the promises of the        *)
(* abstract Reconciler: what is ready or waits for its delay is pending,   *)
(* and a worker that holds an item is an attempt on it.                    *)
(***************************************************************************)
EXTENDS Processor

\* The attempt worker w makes.  It has looked once it is in Handle, and is over
\* once nothing is left but to schedule, forget and mark its item.
Attempt(w) ==
  [key   |-> key[w],
   phase |-> CASE pc[w] = "lookup" -> "new"
               [] pc[w] \in {"handle", "requeue", "limit"} -> "looked"
               [] OTHER -> "over",
   seen  |-> IF pc[w] \in {"handle", "requeue", "limit"} THEN obj[w] ELSE 0]

Attempts == {Attempt(w) : w \in {v \in Workers : Busy(v)}}

Abstract == INSTANCE Reconciler WITH
  truth    <- version,
  asked    <- want,
  done     <- settled,
  pending  <- dirty \cup waiting,
  attempts <- Attempts,
  open     <- ~shut

\* The processor implements the Reconciler: whatever the interleaving of the
\* event handler, timers, workers and the shutdown, an item has at most one
\* attempt, which looks at the cache once, and is dropped by nobody before it
\* was looked at and settled, or is due again.
Implements == Abstract!Spec

=============================================================================
