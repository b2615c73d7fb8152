SPECIFICATION Spec
CONSTANTS
  Programs <- AnyPrograms
  Entry <- GlobalsFunction
  Input = {0, 1}
  MaxReads = 2
  MaxCalls = 6
  WordBits = 6
  GLOBALS_OFFSET = 24
  ArrayWords = 2
CHECK_DEADLOCK FALSE
INVARIANTS CodeIsSound MemoryNests ReturnsClean CrashesOnLateLists
