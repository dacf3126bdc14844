\* Every instruction after every small stack, strings, evaluation and system calls.
SPECIFICATION InstructionSpec
CONSTANTS
  WORD_BITS = 6
  WordSize = 64
  BYTES_PER_WORD = 2
  CODE_SIZE = 14
  HEAP_START = 15
  STACK_BASE = 23
  MEMORY_SIZE = 31
  MAX_SIGNAL = 0
  Programs = {}
  EvalPrograms <- EvaluatedPrograms
  ExternalResults = {0, 63}
  EntryPoints = {}
  HostWrites = {}
  ExecuteLimits = {9}
  MaxRead = 2
  MaxPending = 0
  MaxHostCalls = 1
INVARIANTS StackBounds ArgumentCopyInBounds
PROPERTIES CodeAppendOnly CallerWordsKept
CHECK_DEADLOCK FALSE
