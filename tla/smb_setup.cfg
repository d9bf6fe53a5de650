SPECIFICATION Spec
CONSTANTS
  Hdr1 = 32
  Hdr2 = 64
  Andx = {"andx", "setup"}
  Setup = "setup"
  End = "end"
  NonExt = 22
  Ext = 20
  CountLimit = 1000
  Empty = 1000
  MaxVisits = 6
  Places2 = {0, 64, 72, 136}
  Places1 = {33, 70, 90}
  Messages <- AllMessages
INVARIANT
  SetupUnderstood
