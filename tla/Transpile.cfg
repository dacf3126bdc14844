SPECIFICATION ToolSpec
CONSTANTS
  WORD_BITS = 10
  WordSize = 1024
  BYTES_PER_WORD = 2
  MaxNumber = 511
  Ascii <- AsciiCodes
  Capital <- Capitals
  Punctuation <- Signs
  Keywords <- CppKeywords
  MaxTurns = 12
  Texts <- NoTexts
  Files <- McFiles
INVARIANTS ReadsWhatWasWritten Agrees Defined Builds
CHECK_DEADLOCK FALSE
