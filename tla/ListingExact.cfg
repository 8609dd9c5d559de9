SPECIFICATION Spec
CONSTANTS
  k1 = k1
  k2 = k2
  n1 = n1
  n2 = n2
  Keys = {k1, k2}
  Namespaces = {n1, n2}
  NamespaceOf <- MCNamespaceOf
  Names = {a, b}
  UIDs = {u, v}
  Empty = Empty
  MaxOwners = 2
INVARIANTS
  ListExact
  IndexExact
  ByIndexExact
