\* A client that replays macros of page calls and launches, one that calls tools.
\* Both may fail to dial one session, so two recoveries may meet.
SPECIFICATION Spec
CONSTANTS
  c1 = c1
  c2 = c2
  NoCall = NoCall
  Calls = {c1, c2}
  Tools <- MCTools
  ReconnectMax = 2
  MaxSessions = 3
INVARIANT
  DroppedIsGone
PROPERTIES
  SharedRelaunch
  UserKeepsConnection
CHECK_DEADLOCK FALSE
