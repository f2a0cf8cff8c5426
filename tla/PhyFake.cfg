SPECIFICATION FairSpec
CONSTANTS
  MaxLen = 1
  Size = 4
  ClosesUnderRequest = FALSE
INVARIANTS
  SentWhole
  GotWhole
  NeverRefused
PROPERTIES
  ComesBack
