\* Any order of calls: an add over a tombstone.
SPECIFICATION Spec
CONSTANTS
  k1 = k1
  k2 = k2
  k3 = k3
  Keys = {k1, k2, k3}
  Values = {0, 1}
  ZeroKey = k1
  ZeroValue = 0
  Hash <- MCHash
  StandardSize = 2
  InitSizes = {1, 4}
  MaxCapacity = 8
  AllocMayFail = FALSE
  AddAfterRemove = TRUE
PROPERTIES
  RemoveMakesAbsent
