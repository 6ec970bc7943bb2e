\* Up to three handlers, wildcard prototypes among them.
SPECIFICATION Spec
CONSTANTS
  k1 = k1  k2 = k2  n1 = n1  n2 = n2  i1 = i1  i2 = i2
  Kinds = {k1, k2}
  Names = {n1, n2}
  Ids = {i1, i2}
  MaxHandlers = 3
SYMMETRY Perms
INVARIANTS TypeOK RoutesExactly FiltersDisjoint NamedAreDecoded
