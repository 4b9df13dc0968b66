SPECIFICATION Spec
CONSTANTS
  k1 = k1
  k2 = k2
  k3 = k3
  v1 = v1
  v2 = v2
  Keys = {k1, k2, k3}
  Values = {v1, v2}
  None = None
  Capacity = 2
  MaxUses = 6
  MaxMisses = 1
INVARIANTS
  TypeOK
  IteratorsValid
PROPERTIES
  ImplementsRecency
