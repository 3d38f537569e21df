\* The strings of Strings.cfg, those that begin with their delimiter included.
SPECIFICATION Spec
CONSTANTS
  Null = Null
  Arena = 16
  Reserve = 6
  MaxLength = 4
  MaxDelim = 2
  Texts <- MCTexts
  Followed <- MCFollowed
  MaxCount = 6
  MaxSince = 15
INVARIANT CountsAllTokens
CHECK_DEADLOCK FALSE
