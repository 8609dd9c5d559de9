------------------------------ MODULE Filters ------------------------------
(***************************************************************************)
(* The filters of resource events (controller/filter.go).  An event has an *)
(* operation and the previous and the current resource, Nil where there is *)
(* none.  A filter without state is its verdict on the event at hand, Nil  *)
(* for a nil filter.                                                       *)
(***************************************************************************)
EXTENDS Naturals, Sequences

CONSTANT Nil  \* no resource, no filter

\* A nil filter has no verdict.
ASSUME NilAssumption == Nil \notin BOOLEAN

\* A nil entry is passed over.
And(verdicts) == \A i \in DOMAIN verdicts : verdicts[i] # FALSE

Or(verdicts) == \E i \in DOMAIN verdicts : verdicts[i] = TRUE

Not(verdict) == verdict # TRUE

\* A resource that cannot be accessed has no meta.
Unknown(e) == e.prev = Nil \/ e.obj = Nil

\* Mutated form of GenerationChanged: only a higher generation counts.
GenerationRaised(e) ==
  e.op = "update" /\ ~Unknown(e) => e.prev.gen < e.obj.gen

GenerationChanged(e) ==
  e.op = "update" /\ ~Unknown(e) => e.prev.gen # e.obj.gen

ResourceVersionChanged(e) ==
  e.op = "update" /\ ~Unknown(e) => e.prev.rv # e.obj.rv

\* The filters given to AddHandler; without any, every event passes.
combine(verdicts) == verdicts = <<>> \/ And(verdicts)

=============================================================================
