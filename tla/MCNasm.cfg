SPECIFICATION BothSpec
CONSTANTS
  Programs <- PortablePrograms
  Entry <- GlobalsFunction
  Input = {0, 1}
  MaxReads = 2
  MaxCalls = 6
  WordBits = 6
  GLOBALS_OFFSET = 24
  ArrayWords = 2
  ImmediateBits = 4
CHECK_DEADLOCK FALSE
INVARIANTS VariablesResolve OperandsBalance FreesWholeBlocks GlobalsHaveMeaning PointersBehave BackendAgrees
PROPERTIES Terminates
