\* Sessions of the REPL: what the machine computes is what the expressions mean.
SPECIFICATION SessionSpec
CONSTANTS
  WORD_BITS = 10
  WordSize = 1024
  BYTES_PER_WORD = 2
  CODE_SIZE = 220
  STRING_TABLE_START = 220
  VAR_START = 235
  HEAP_START = 250
  STACK_BASE = 285
  MEMORY_SIZE = 325
  MAX_SIGNAL = 0
  Programs = {}
  EvalPrograms = {}
  ExternalResults = {}
  EntryPoints = {}
  HostWrites = {}
  ExecuteLimits = {}
  MaxRead = 0
  MaxPending = 0
  MaxHostCalls = 0
  Names <- NamesUsed
  FunctionOrder <- MapOrder
  Scripts <- Sessions
  Texts <- Evaluable
  Limit = 1000
INVARIANTS ComputesMeaning GlobalsHoldValues StaysInCode
CHECK_DEADLOCK FALSE
