SPECIFICATION Spec
CONSTANTS
  Names <- NameSet
  CODE_SIZE = 9
  STRING_TABLE_START = 100
  VAR_START = 200
  Submitted <- Definitions
  Evaluated <- Definitions
  MaxUnits = 3
INVARIANTS
  UniqueVariableAddress
