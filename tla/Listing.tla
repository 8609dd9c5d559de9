------------------------------ MODULE Listing ------------------------------
(***************************************************************************)
(* Querying the cache of a controller: List and ListByIndex of             *)
(* controller/controller.go, and the index functions of                    *)
(* controller/indexer.go, over a cache whose indices client-go keeps up to *)
(* date with every change.                                                 *)
(*                                                                         *)
(* A resource is reduced to its kind and its owner references.  A list of  *)
(* results is a set of keys: the cache promises no order.                  *)
(***************************************************************************)
EXTENDS Integers, FiniteSets

CONSTANTS
  Keys,        \* the cache keys "namespace/name"
  Namespaces,  \* the namespaces of the resources
  NamespaceOf, \* the namespace of a key
  Names,       \* the names in owner references
  UIDs,        \* the uids in owner references
  Empty,       \* the empty string
  MaxOwners    \* bound: owner references of a resource

ASSUME ListingAssumption ==
  /\ NamespaceOf \in [Keys -> Namespaces]
  /\ Empty \notin Namespaces
  /\ MaxOwners \in Nat

VARIABLES
  cached,  \* the keys in the cache
  object,  \* the object of each key, meaningless for a key not in the cache
  index    \* index[i][v]: the keys under value v in the registered index i

vars == <<cached, object, index>>

References == [name : Names, uid : UIDs]

\* A "resource" is of the type of the controller, a "foreign" object is of
\* another type, and a "bare" one is of the type of the controller and has its
\* meta data itself, without an ObjectMetaAccessor for them (as Unstructured).
Objects == [kind : {"resource", "foreign", "bare"}, owners : SUBSET References]

Values == Names \cup UIDs

OwnerIndexers == {"owner-uid", "owner-name"}

\* The indexers given to New.
Registered == DOMAIN index

TypeOK ==
  /\ cached \in SUBSET Keys
  /\ object \in [Keys -> Objects]
  /\ Registered \subseteq OwnerIndexers
  /\ index \in [Registered -> [Values -> SUBSET Keys]]

Init ==
  /\ cached = {}
  /\ object = [k \in Keys |-> [kind |-> "resource", owners |-> {}]]
  /\ \E indexers \in SUBSET OwnerIndexers :
       index = [i \in indexers |-> [v \in Values |-> {}]]

-----------------------------------------------------------------------------
(* The index functions. *)

\* Mutated form of OwnerKeys: a resource is indexed under one owner only.
OwnerKeysFirst(i, o) ==
  IF o.owners = {} THEN {}
  ELSE LET r == CHOOSE r \in o.owners : TRUE
       IN  {IF i = "owner-uid" THEN r.uid ELSE r.name}

OwnerKeys(i, o) ==
  IF i = "owner-uid" THEN {r.uid : r \in o.owners}
  ELSE {r.name : r \in o.owners}

-----------------------------------------------------------------------------
(* The cache (client-go). *)

\* The entries of key k are replaced by those under the new values.
UpdateIndices(k, new) ==
  index' = [i \in Registered |-> [v \in Values |->
              IF v \in new[i] THEN index[i][v] \cup {k} ELSE index[i][v] \ {k}]]

\* An index function that fails, as on objects without an accessor, makes the
\* cache panic: with an index there are no such objects in it.
Store(k, o) ==
  /\ Registered # {} => o.kind # "bare"
  /\ cached' = cached \cup {k}
  /\ object' = [object EXCEPT ![k] = o]
  /\ UpdateIndices(k, [i \in Registered |-> OwnerKeys(i, o)])

Remove(k) ==
  /\ k \in cached
  /\ cached' = cached \ {k}
  /\ UpdateIndices(k, [i \in Registered |-> {}])
  /\ UNCHANGED object

\* The objects a resource may be stored as, with the owners bounded.
Stored == {o \in Objects : Cardinality(o.owners) <= MaxOwners}

Next ==
  \E k \in Keys :
    \/ \E o \in Stored : Store(k, o)
    \/ Remove(k)

Spec == Init /\ [][Next]_vars

-----------------------------------------------------------------------------
(* The queries. *)

\* value.(T)
Typed(k) == object[k].kind \in {"resource", "bare"}

\* Mutated form of Lookup: with both given, both indices must be registered.
LookupNarrow(name, uid) ==
  IF uid # Empty
  THEN IF "owner-uid" \in Registered THEN index["owner-uid"][uid] ELSE {}
  ELSE IF name # Empty /\ "owner-name" \in Registered
       THEN index["owner-name"][name]
       ELSE cached

\* The candidates for an owner, by the most selective index there is.
Lookup(name, uid) ==
  IF uid # Empty /\ "owner-uid" \in Registered THEN index["owner-uid"][uid]
  ELSE IF name # Empty /\ "owner-name" \in Registered
       THEN index["owner-name"][name]
       ELSE cached

Owner(namespace, name, uid, k) ==
  /\ object[k].kind # "bare"
  /\ namespace = Empty \/ NamespaceOf[k] = namespace
  /\ \/ name = Empty /\ uid = Empty
     \/ \E r \in object[k].owners :
          /\ uid = Empty \/ uid = r.uid
          /\ name = Empty \/ name = r.name

List(namespace, name, uid) ==
  {k \in Lookup(name, uid) : Typed(k) /\ Owner(namespace, name, uid, k)}

\* Mutated form of ListByIndex: objects of another type are returned too.
ListByIndexUntyped(i, value) == IF i \in Registered THEN index[i][value] ELSE {}

\* An index that is not registered holds nothing.
ListByIndex(i, value) ==
  IF i \in Registered THEN {k \in index[i][value] : Typed(k)} ELSE {}

-----------------------------------------------------------------------------
(* Correctness. *)

\* The owner references that List asks for.
Asked(name, uid) ==
  {r \in References : name \in {Empty, r.name} /\ uid \in {Empty, r.uid}}

\* The promise of List, without any index: the objects of the namespace (of
\* all, if empty) that an owner reference ties to both the name and the uid
\* given (all of them, if neither is).
Owned(namespace, name, uid) ==
  {k \in cached :
    /\ object[k].kind # "foreign"
    /\ namespace \in {Empty, NamespaceOf[k]}
    /\ {name, uid} = {Empty} \/ object[k].owners \cap Asked(name, uid) # {}}

\* Whatever indexers are registered, List returns nothing that is not owned, and
\* every object owned that has a meta accessor: none is missed because List
\* looked into an index, after any history of the cache.  AllListed is about
\* the objects without an accessor.
ListExact ==
  \A namespace \in Namespaces \cup {Empty} :
    \A name \in Names \cup {Empty}, uid \in UIDs \cup {Empty} :
      /\ List(namespace, name, uid) \subseteq Owned(namespace, name, uid)
      /\ \A k \in Owned(namespace, name, uid) :
           object[k].kind # "bare" => k \in List(namespace, name, uid)

\* The values that key k belongs under in index i.
OwnersIn(i, k) ==
  {IF i = "owner-uid" THEN r.uid ELSE r.name : r \in object[k].owners}

\* The indices hold exactly the current owners of what is in the cache, after
\* any changes of owners, deletions and re-creations (ownerKeys).
IndexExact ==
  \A i \in Registered, v \in Values :
    index[i][v] = {k \in cached : v \in OwnersIn(i, k)}

\* ListByIndex returns exactly the resources with the value among their owners
\* now, never one under an owner it had before, and nothing without the index.
ByIndexExact ==
  \A i \in OwnerIndexers, v \in Values :
    ListByIndex(i, v) = {k \in cached : /\ i \in Registered
                                        /\ object[k].kind = "resource"
                                        /\ v \in OwnersIn(i, k)}

-----------------------------------------------------------------------------
(* What the documentation says and the code does not do. *)

\* "If the namespace, name, and uid are empty, all objects are returned" (List):
\* every object of the type of the controller that is in its cache.
AllListed ==
  List(Empty, Empty, Empty) = {k \in cached : Typed(k)}

=============================================================================
