SPECIFICATION Spec
CONSTANTS
  Null = Null
  Arena = 16
  Reserve = 6
  MaxLength = 4
  MaxDelim = 2
  Texts <- MCTexts
  Followed <- MCFollowed
  MaxCount = 6
  MaxSince = 15
INVARIANTS
  HeldViewsSurvive
  ShortResultsAreWhole
  TokensAgree
  ViewsAgree
  EscapedTextIsLiteral
CHECK_DEADLOCK FALSE
