----------------------------- MODULE Reconciler -----------------------------
(***************************************************************************)
(* What a handler of a controller promises its consumer, without queues,   *)
(* delays, workers or retry counts: resources change, reconciling them is  *)
(* asked for, and attempts reconcile what there is when they look.         *)
(*                                                                         *)
(* An attempt starts for a pending resource only, and only if there is no  *)
(* other attempt on it.  It looks once, and it does not end before what it *)
(* has seen is settled (reconciled, or given up and reported) or its       *)
(* resource is pending again.  Nothing but the start of an attempt takes a *)
(* resource from the pending ones until the reconciler is closed.          *)
(***************************************************************************)
EXTENDS Naturals

CONSTANT Keys  \* the resources

VARIABLES
  truth,     \* the version of each resource
  asked,     \* the version last asked to be reconciled
  done,      \* the version last settled
  pending,   \* the resources an attempt is due for
  attempts,  \* the attempts under way
  open       \* whether requests are accepted

vars == <<truth, asked, done, pending, attempts, open>>

New(k) == [key |-> k, phase |-> "new", seen |-> 0]
Looked(k, v) == [key |-> k, phase |-> "looked", seen |-> v]
Over(k) == [key |-> k, phase |-> "over", seen |-> 0]

Init ==
  /\ truth = [k \in Keys |-> 0]
  /\ asked = [k \in Keys |-> 0]
  /\ done = [k \in Keys |-> 0]
  /\ pending = {}
  /\ attempts = {}
  /\ open = TRUE

\* Attempt a goes on as attempt b.
Becomes(a, b) ==
  /\ a \in attempts
  /\ attempts' = (attempts \ {a}) \cup {b}

\* Resource k is due, as long as requests are accepted.
Due(k) == pending' = IF open THEN pending \cup {k} ELSE pending

Change(k) ==
  /\ truth' = [truth EXCEPT ![k] = @ + 1]
  /\ UNCHANGED <<asked, done, pending, attempts, open>>

Ask(k) ==
  /\ \E v \in 0 .. truth[k] : asked' = [asked EXCEPT ![k] = v]
  /\ Due(k)
  /\ UNCHANGED <<truth, done, attempts, open>>

\* The resource stays pending if it is also due at a later time.
Start(k) ==
  /\ k \in pending
  /\ \A a \in attempts : a.key # k
  /\ pending' = pending \/ pending' = pending \ {k}
  /\ attempts' = attempts \cup {New(k)}
  /\ UNCHANGED <<truth, asked, done, open>>

Look(k) ==
  /\ Becomes(New(k), Looked(k, truth[k]))
  /\ UNCHANGED <<truth, asked, done, pending, open>>

\* An attempt may be settled at a glance: there is nothing to be looked at.
Settle(k, v) ==
  /\ \/ Becomes(Looked(k, v), Over(k))
     \/ v = truth[k] /\ Becomes(New(k), Over(k))
  /\ done' = [done EXCEPT ![k] = v]
  /\ UNCHANGED <<truth, asked, pending, open>>

Retry(k, v) ==
  /\ Becomes(Looked(k, v), Over(k))
  /\ Due(k)
  /\ UNCHANGED <<truth, asked, done, open>>

\* The consumer asks for another attempt at some time.
Again(k) ==
  /\ Over(k) \in attempts
  /\ Due(k)
  /\ UNCHANGED <<truth, asked, done, attempts, open>>

End(k) ==
  /\ Over(k) \in attempts
  /\ attempts' = attempts \ {Over(k)}
  /\ UNCHANGED <<truth, asked, done, pending, open>>

\* What is due at a later time is dropped.
Close ==
  /\ open' = FALSE
  /\ pending' \subseteq pending
  /\ UNCHANGED <<truth, asked, done, attempts>>

Next ==
  \/ Close
  \/ \E k \in Keys :
       \/ Change(k) \/ Ask(k) \/ Start(k) \/ Look(k) \/ Again(k) \/ End(k)
       \/ \E v \in 0 .. truth[k] : Settle(k, v) \/ Retry(k, v)

Spec == Init /\ [][Next]_vars

=============================================================================
