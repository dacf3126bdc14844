\* Selectors, classes, methods, call sites and contexts of a small image.
SPECIFICATION MCSpec
CONSTANTS
  MaxCalls = 5
  MaxStops = 1
  SYMBOL_TABLE_CAPACITY = 4
  SYMBOL_HASH_SIZE = 3
  Strings <- InternedStrings
  Literals <- InternedLiterals
  Texts <- MixedTexts
  lookupMethodAddr = 700
  WholeWords <- FullWords
  HashString <- Hash
  METHOD_DICT_HASH_SIZE = 2
  HASH_MULTIPLIER = 31
  Selectors = {1, 2, 3, 4}
  Methods = {11, 12}
  INLINE_CACHE_SIZE = 1
  Sites = {0}
  MaxClasses = 2
  MaxContexts = 2
INVARIANTS
  TypeOK
  SelectorsNamed
  UniqueWhileRoom
  LookupFindsNearest
  AnswersWereFound
  ReadsMessages
  SendsAsWritten
PROPERTIES
  ReturnsToSenders
CHECK_DEADLOCK FALSE
