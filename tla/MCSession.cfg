SPECIFICATION LiveSpec
CONSTANTS
  Threads = {t1, t2}
  Endpoints = {NoEndpoint, e1}
  Slots = {"selection", "snapshot"}
  NoEndpoint = NoEndpoint
  NoThread = NoThread
  ReconnectMax = 2
  MaxConns = 2
INVARIANTS
  DialExcludes
  NoConnectionLeak
  CacheMatchesConnection
PROPERTIES
  HeldConnectionIsKept
  EndpointIsHonoured
  AcquireAndCloseReturn
