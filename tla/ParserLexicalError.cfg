CONSTANTS
  Openings <- AllOpenings
  Lexemes <- AnyLexemes
  MaxLexemes = 2
  MaxCalls = 16
SPECIFICATION FairSpec
PROPERTIES
  LexicalErrorRejects
\* Parse has returned.
CHECK_DEADLOCK FALSE
