SPECIFICATION Spec
CONSTANTS
  Chars <- SomeChars
  Printed = {"http", "https", "file", "sip"}
  Known = {"http", "https", "file", "smb"}
  DefaultPort <- Ports
  Value <- DigitValues
  PortLimit = 12
  MaxPortSpec = 2
  MaxScheme = 3
  NumUser = 2
  MaxHost = 4
  MaxPath = 4
  Names <- SomeNames
  Urls <- ShortUrls
  Parts <- SomeParts
  UrlLength = 5
  Years <- SomeYears
  SizeLimit = 65536
  PointLists <- SomePoints
  Buffers <- SomeBuffers
  DateCalls <- SomeDates
  Files <- SomeFiles
INVARIANTS
  RoundTrip
  Accounted
  Utf8RoundTrip
  Base64RoundTrip
  Base64Fits
  DatesInverse
  MimeAgrees
