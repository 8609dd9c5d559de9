----------------------------- MODULE MCListing -----------------------------
(* Instances of Listing for TLC. *)
EXTENDS Listing

\* Two resources in different namespaces.
CONSTANTS k1, k2, n1, n2

MCNamespaceOf == [k \in Keys |-> IF k = k1 THEN n1 ELSE n2]

=============================================================================
