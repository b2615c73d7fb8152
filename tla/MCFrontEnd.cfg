CONSTANTS
  Keywords <- MCKeywords
  KEYWORDS_MAX_SIZE = 4
  MAX_IDENT_SIZE = 4
  MAX_INT_CONST_SIZE = 5
  WordBits = 3
  MaxRoots = 4
SPECIFICATION Spec
INVARIANT TokensAreLexemes
INVARIANT ConstantsHaveTheirValue
INVARIANT RoundTrip
INVARIANT ErrorsAreReported
INVARIANT RecoversInPlace
PROPERTY MovesOnExceptAtBrace
CHECK_DEADLOCK FALSE
