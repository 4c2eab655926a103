SPECIFICATION LiveSpec
CONSTANTS
  Threads = {t1, t2}
  Manifests = {m1}
  External = External
  NoThread = NoThread
  MaxAttempts = 2
INVARIANTS
  NoLeakedChild
  StoppedIsDead
  TrackedCanBeStopped
PROPERTIES
  ExternalDevServerSurvives
  CallReturns
