SPECIFICATION LiveSpec
CONSTANTS
  c1 = c1
  c2 = c2
  NoCall = NoCall
  Calls = {c1, c2}
  Tools <- MCTools
  ReconnectMax = 2
  MaxSessions = 3
PROPERTY
  MacroReturns
CHECK_DEADLOCK FALSE
