\* One resource, two handlers, a client that records: what a poll appends.
CONSTANTS
  Names = {"m"}
  NoName = "none"
  Clients = {c1, c2}
  MaxCalls = 4
  Uris = {u}
  Handlers = {h1, h2}
  MaxSubs = 2
  MaxVersion = 1
  MaxPolled = 1
SPECIFICATION LiveSpec
CHECK_DEADLOCK FALSE
INVARIANTS
  RecordingIsComplete
  OnePollerPerResource
PROPERTIES
  NoLateNotification
  ChangeIsTold
  HandlersReturn
