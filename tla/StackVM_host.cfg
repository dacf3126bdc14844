\* A host that calls the machine in any order, and signals at any time.
SPECIFICATION HostSpec
CONSTANTS
  WORD_BITS = 6
  WordSize = 64
  BYTES_PER_WORD = 2
  CODE_SIZE = 14
  HEAP_START = 15
  STACK_BASE = 23
  MEMORY_SIZE = 31
  MAX_SIGNAL = 2
  Programs <- HostPrograms
  EvalPrograms = {}
  ExternalResults = {0, 63}
  EntryPoints = {0, 3, 40}
  HostWrites <- HostPairs
  ExecuteLimits = {2, 10}
  MaxRead = 2
  MaxPending = 1
  MaxHostCalls = 3
  MaxRestores = 2
INVARIANTS TypeOK StackBounds FetchInBounds ReplaysFromSnapshot
PROPERTIES CodeChangesByRestore CallerWordsKept ExecuteComesBack ServesEachSignalOnce
CHECK_DEADLOCK FALSE
