CONSTANTS
  Openings <- AllOpenings
  Lexemes <- AllLexemes
  MaxLexemes = 4
  MaxCalls = 40
SPECIFICATION FairSpec
INVARIANTS
  ParsesTheGrammar
  LongestLexeme
PROPERTIES
  Returns
\* Parse has returned.
CHECK_DEADLOCK FALSE
