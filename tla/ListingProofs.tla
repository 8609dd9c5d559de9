--------------------------- MODULE ListingProofs ---------------------------
(* Proofs of the invariants of Listing for every cache and every query. *)
EXTENDS Listing, TLAPS

\* With an index no object in the cache is without a meta accessor.
BareUnindexed == Registered # {} => \A k \in cached : object[k].kind # "bare"

\* The three together are inductive.
ListingInv == TypeOK /\ IndexExact /\ BareUnindexed

\* An empty cache with empty indices (New) satisfies the invariant.
LEMMA InitInv == Init => ListingInv
BY ListingAssumption
DEF Init, ListingInv, TypeOK, IndexExact, BareUnindexed, Registered, Objects

\* Storing an object moves its key to its new owners in every index.
LEMMA StoreInv ==
  ASSUME ListingInv, NEW k \in Keys, NEW o \in Objects, Store(k, o)
  PROVE  ListingInv'
<1> USE DEF ListingInv
<1>1. DOMAIN index' = DOMAIN index
  BY DEF Store, UpdateIndices, Registered
<1>2. TypeOK'
  BY <1>1 DEF TypeOK, Store, UpdateIndices, Registered
<1>3. IndexExact'
  <2> SUFFICES ASSUME NEW i \in DOMAIN index, NEW v \in Values
               PROVE  index'[i][v] = {c \in cached' : v \in OwnersIn(i, c)'}
    BY <1>1 DEF IndexExact, Registered, OwnersIn
  <2>1. index'[i][v] = IF v \in OwnerKeys(i, o)
                       THEN index[i][v] \cup {k} ELSE index[i][v] \ {k}
    BY DEF Store, UpdateIndices, Registered
  <2>2. index[i][v] = {c \in cached : v \in OwnersIn(i, c)}
    BY DEF IndexExact, Registered
  <2>3. OwnersIn(i, k)' = OwnerKeys(i, o)
    BY DEF Store, OwnersIn, OwnerKeys, TypeOK
  <2>4. \A c \in Keys \ {k} : OwnersIn(i, c)' = OwnersIn(i, c)
    BY DEF Store, OwnersIn, TypeOK
  <2>5. cached' = cached \cup {k} /\ cached \subseteq Keys
    BY DEF Store, TypeOK
  <2> QED
    BY <2>1, <2>2, <2>3, <2>4, <2>5
<1>4. BareUnindexed'
  BY <1>1 DEF Store, BareUnindexed, TypeOK, Registered
<1> QED
  BY <1>2, <1>3, <1>4

\* Removing an object takes its key out of every index.
LEMMA RemoveInv ==
  ASSUME ListingInv, NEW k \in Keys, Remove(k)
  PROVE  ListingInv'
<1> USE DEF ListingInv
<1>1. DOMAIN index' = DOMAIN index
  BY DEF Remove, UpdateIndices, Registered
<1>2. TypeOK'
  BY <1>1 DEF TypeOK, Remove, UpdateIndices, Registered
<1>3. IndexExact'
  <2> SUFFICES ASSUME NEW i \in DOMAIN index, NEW v \in Values
               PROVE  index'[i][v] = {c \in cached' : v \in OwnersIn(i, c)'}
    BY <1>1 DEF IndexExact, Registered, OwnersIn
  <2>1. index'[i][v] = index[i][v] \ {k}
    BY DEF Remove, UpdateIndices, Registered
  <2>2. index[i][v] = {c \in cached : v \in OwnersIn(i, c)}
    BY DEF IndexExact, Registered
  <2>3. \A c \in Keys : OwnersIn(i, c)' = OwnersIn(i, c)
    BY DEF Remove, OwnersIn
  <2>4. cached' = cached \ {k} /\ cached \subseteq Keys
    BY DEF Remove, TypeOK
  <2> QED
    BY <2>1, <2>2, <2>3, <2>4
<1>4. BareUnindexed'
  BY <1>1 DEF Remove, BareUnindexed, TypeOK, Registered
<1> QED
  BY <1>2, <1>3, <1>4

\* Every step of the cache keeps the invariant.
LEMMA NextInv == ListingInv /\ [Next]_vars => ListingInv'
<1> SUFFICES ASSUME ListingInv, [Next]_vars PROVE ListingInv'
  OBVIOUS
<1>1. CASE Next
  BY <1>1, StoreInv, RemoveInv DEF Next, Stored
<1>2. CASE UNCHANGED vars
  BY <1>2 DEF vars, ListingInv, TypeOK, IndexExact, BareUnindexed, OwnersIn,
              Registered
<1> QED
  BY <1>1, <1>2

\* After any history of the cache the indices hold exactly the owners of the
\* resources in it (OwnerUIDIndexFunc and OwnerNameIndexFunc).
THEOREM IndicesExact == Spec => [](TypeOK /\ IndexExact)
<1>1. ListingInv => TypeOK /\ IndexExact
  BY DEF ListingInv
<1> QED
  BY InitInv, NextInv, <1>1, PTL DEF Spec

\* Looking into an index misses no object and adds none: in every state in
\* which the indices are exact, List answers every query with the objects owned
\* that have a meta accessor.
LEMMA ListIsOwned ==
  ASSUME ListingInv,
         NEW namespace \in Namespaces \cup {Empty},
         NEW name \in Names \cup {Empty}, NEW uid \in UIDs \cup {Empty}
  PROVE  List(namespace, name, uid) =
           {k \in Owned(namespace, name, uid) : object[k].kind # "bare"}
<1> USE DEF ListingInv
<1> DEFINE Match(k) == Owner(namespace, name, uid, k)
<1>1. ASSUME NEW k \in Keys
      PROVE  Typed(k) /\ Match(k) <=>
               /\ object[k].kind \notin {"foreign", "bare"}
               /\ namespace \in {Empty, NamespaceOf[k]}
               /\ \/ {name, uid} = {Empty}
                  \/ object[k].owners \cap Asked(name, uid) # {}
  <2>1. object[k].kind \in {"resource", "foreign", "bare"}
        /\ object[k].owners \subseteq References
    BY DEF TypeOK, Objects
  <2>2. (\E r \in object[k].owners : (uid = Empty \/ uid = r.uid)
                                     /\ (name = Empty \/ name = r.name))
        <=> object[k].owners \cap Asked(name, uid) # {}
    BY <2>1 DEF Asked
  <2> QED
    BY <2>1, <2>2 DEF Typed, Owner
<1>2. Lookup(name, uid) \subseteq cached
  BY DEF Lookup, IndexExact, Registered, Values, OwnerIndexers
<1>3. ASSUME NEW k \in cached, Match(k) PROVE k \in Lookup(name, uid)
  <2>1. CASE uid # Empty /\ "owner-uid" \in Registered
    <3>1. PICK r \in object[k].owners : uid = r.uid
      BY <1>3, <2>1 DEF Owner
    <3>2. uid \in OwnersIn("owner-uid", k)
      BY <3>1 DEF OwnersIn
    <3> QED
      BY <2>1, <3>2 DEF Lookup, IndexExact, Values
  <2>2. CASE ~(uid # Empty /\ "owner-uid" \in Registered)
             /\ name # Empty /\ "owner-name" \in Registered
    <3>1. PICK r \in object[k].owners : name = r.name
      BY <1>3, <2>2 DEF Owner
    <3>2. name \in OwnersIn("owner-name", k)
      BY <3>1 DEF OwnersIn
    <3> QED
      BY <2>2, <3>2 DEF Lookup, IndexExact, Values
  <2>3. CASE ~(uid # Empty /\ "owner-uid" \in Registered)
             /\ ~(name # Empty /\ "owner-name" \in Registered)
    BY <2>3 DEF Lookup
  <2> QED
    BY <2>1, <2>2, <2>3
<1>4. cached \subseteq Keys
  BY DEF TypeOK
<1> QED
  BY <1>1, <1>2, <1>3, <1>4 DEF List, Owned

\* List returns only objects owned, and all of them that have a meta accessor,
\* whatever indexers are registered and whatever has happened to the cache.
THEOREM ListCorrect == Spec => []ListExact
<1>1. ListingInv => ListExact
  <2> SUFFICES ASSUME ListingInv,
                      NEW namespace \in Namespaces \cup {Empty},
                      NEW name \in Names \cup {Empty},
                      NEW uid \in UIDs \cup {Empty}
               PROVE  /\ List(namespace, name, uid)
                           \subseteq Owned(namespace, name, uid)
                      /\ \A k \in Owned(namespace, name, uid) :
                           object[k].kind # "bare"
                             => k \in List(namespace, name, uid)
    BY DEF ListExact
  <2> QED
    BY ListIsOwned
<1> QED
  BY InitInv, NextInv, <1>1, PTL DEF Spec

\* ListByIndex returns exactly the resources under the value, whatever indexers
\* are registered and whatever has happened to the cache.
THEOREM ByIndexCorrect == Spec => []ByIndexExact
<1>1. ListingInv => ByIndexExact
  <2> SUFFICES ASSUME ListingInv, NEW i \in OwnerIndexers, NEW v \in Values
               PROVE  ListByIndex(i, v) =
                        {k \in cached : /\ i \in Registered
                                        /\ object[k].kind = "resource"
                                        /\ v \in OwnersIn(i, k)}
    BY DEF ByIndexExact
  <2>1. CASE i \in Registered
    <3>1. \A k \in cached : Typed(k) <=> object[k].kind = "resource"
      BY <2>1 DEF ListingInv, BareUnindexed, Typed
    <3> QED
      BY <2>1, <3>1 DEF ListingInv, IndexExact, ListByIndex
  <2>2. CASE i \notin Registered
    BY <2>2 DEF ListByIndex
  <2> QED
    BY <2>1, <2>2
<1> QED
  BY InitInv, NextInv, <1>1, PTL DEF Spec

=============================================================================
