SPECIFICATION Spec
CONSTANTS
  Names <- NameSet
  CODE_SIZE = 11
  STRING_TABLE_START = 100
  VAR_START = 200
  Submitted <- Definitions
  Evaluated <- Strings
  MaxUnits = 5
INVARIANTS
  TypeOK
  CodeKept
  FunctionsResolve
  VariablesApart
  LiteralsKept
  LatestDefinition
PROPERTIES
  NamesKept
