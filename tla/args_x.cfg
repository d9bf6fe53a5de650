SPECIFICATION FairSpec
CONSTANTS
  Chars <- Letters
  Words <- WithX
  MaxWords = 2
  Lines <- ShortLines
  Value <- DigitValues
  PortLimit = 20
  DefaultPort = 7
  DefaultLevel = 5
PROPERTY
  GetsThrough
