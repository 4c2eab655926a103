\* Three calls start pumps while a page logs, or makes requests.
CONSTANTS
  Calls = {a, b, c}
  MaxMsgs = 3
  Requests = {r1, r2}
  ChannelCap = 2
  PendingPumpCap = 1
SPECIFICATION NetSpec
SYMMETRY Symmetry
CONSTRAINT Explored
CHECK_DEADLOCK FALSE
INVARIANTS
  NoMessageTwice
  ConsoleIsComplete
  OkMeansStreamingUnlessFailed
  RecordsAreComplete
