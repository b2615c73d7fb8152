\* The table as the compiler uses it: no add once a key was removed.
SPECIFICATION Spec
CONSTANTS
  k1 = k1
  k2 = k2
  k3 = k3
  Keys = {k1, k2, k3}
  Values = {0, 1}
  ZeroKey = k1
  ZeroValue = 0
  Hash <- MCHash
  StandardSize = 2
  InitSizes = {1, 4}
  MaxCapacity = 8
  AllocMayFail = FALSE
  AddAfterRemove = FALSE
INVARIANTS
  UniqueKeys
  RebuildHasRoom
  RebuildKeepsPairs
PROPERTIES
  ImplementsDictionary
