----------------------------- MODULE MCObserver -----------------------------
(* Instances of Observer for TLC. *)
EXTENDS Observer

\* A label selector around a plain retriever.
OneFilter == {<<FilterLayer({"label"}), PlainLayer>>}

\* No filters, stock filters with and without a nil entry, and combinations.
FilterLists == {<<>>, <<"generation">>, <<"nil", "version">>, <<"either">>,
                <<"resync">>}

\* The retrievers satisfy what CacheSelected and its proof rest on.
ASSUME EffectiveAssumption == Effective

=============================================================================
