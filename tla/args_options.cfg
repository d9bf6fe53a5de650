SPECIFICATION FairSpec
CONSTANTS
  Chars <- Letters
  Words <- AllWords
  MaxWords = 3
  Lines <- ShortLines
  Value <- DigitValues
  PortLimit = 20
  DefaultPort = 7
  DefaultLevel = 5
INVARIANTS
  Understood
  NothingIgnored
  ReadsInside
PROPERTY
  Advances
  EndsUnlessX
