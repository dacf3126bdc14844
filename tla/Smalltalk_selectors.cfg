\* The same image, and the promise that a name has one ID.
SPECIFICATION MCSpec
CONSTANTS
  lookupMethodAddr = 700
  MaxCalls = 5
  MaxStops = 1
  SYMBOL_TABLE_CAPACITY = 4
  SYMBOL_HASH_SIZE = 3
  Strings <- InternedStrings
  Literals <- InternedLiterals
  Texts <- MixedTexts
  WholeWords <- FullWords
  HashString <- Hash
  METHOD_DICT_HASH_SIZE = 2
  HASH_MULTIPLIER = 31
  Selectors = {1, 2, 3, 4}
  Methods = {11, 12}
  INLINE_CACHE_SIZE = 1
  Sites = {0}
  MaxClasses = 2
  MaxContexts = 2
INVARIANTS
  UniqueIDs
CHECK_DEADLOCK FALSE
