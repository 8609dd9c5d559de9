----------------------------- MODULE Retriever -----------------------------
(***************************************************************************)
(* How a request of the informer reaches the API server and how an error   *)
(* gets back (controller/retriever.go, errors/errors.go).  A retriever is  *)
(* a stack of layers, the outermost first: plain ones (NewRetriever) and   *)
(* ones with selectors (NewFilterRetriever).                               *)
(*                                                                         *)
(* A selector is reduced to whether there is one, so options are the set   *)
(* of selectors in force: none, "label", "field" or both.  An error is the *)
(* set of errors that errors.Is and errors.As find in it, the empty set is *)
(* nil.                                                                    *)
(***************************************************************************)
EXTENDS SequencesExt

Selectors == {"label", "field"}

Layers == [filter : BOOLEAN, selectors : SUBSET Selectors, base : {"base"}]

\* NewRetriever and NewFilterRetriever; an absent selector selects everything.
PlainLayer == [filter |-> FALSE, selectors |-> {}, base |-> "base"]
FilterLayer(given) == [filter |-> TRUE, selectors |-> given, base |-> "base"]

\* A filter retriever sets both selectors, a plain one passes the options on.
options(layer, opts) == IF layer.filter THEN layer.selectors ELSE opts

\* The options of the List and Watch requests that the API server gets.
ListOptions(stack, opts) ==
  FoldLeft(LAMBDA o, layer : options(layer, o), opts, stack)

\* Mutated form of WatchOptions: the selectors are applied to List only.
WatchOptionsUnfiltered(stack, opts) == opts

WatchOptions(stack, opts) ==
  FoldLeft(LAMBDA o, layer : options(layer, o), opts, stack)

\* Mutated form of Wrap: the cause is formatted with a plain verb.
WrapHidingCause(base, err) == IF err = {} THEN {} ELSE {base}

\* Error.Wrap keeps the cause and adds the base error; nil stays nil.
Wrap(base, err) == IF err = {} THEN {} ELSE {base} \cup err

\* Is and As find the target in the errors that Unwrap leads to.
Is(err, target) == target \in err

\* The error of the API server as the informer gets it.
Answer(stack, err) ==
  FoldRight(LAMBDA layer, e : Wrap(layer.base, e), stack, err)

=============================================================================
