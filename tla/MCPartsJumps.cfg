SPECIFICATION PartsSpec
CONSTANTS
  ArenaSize = 32
  TEMP_MEM_SIZE = 6
  WarningSize = 2
  MaxCalls = 4
  MaxChunks = 4
  MaxBlocks = 6
  TextSize = 2
  ArraySize = 2
  StackSize = 1
  Values = {x, y}
  Nothing = Nothing
  MaxWrite = 5
  MaxText = 40
  MaxElements = 5
  Lists <- MCLists
  MaxArguments = 4
  a = a
  b = b
  c = c
  none = none
  Files = {a, b, c, none}
  ZeroFile = none
  Hash <- MCHash
  StandardSize = 2
  MaxCapacity = 8
  Projects <- MCProjects
  Programs <- AllPrograms
  MaxPasses = 10
INVARIANT JumpsInLoopsOnly
CHECK_DEADLOCK FALSE
