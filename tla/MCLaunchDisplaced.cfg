SPECIFICATION Spec
CONSTANTS
  Threads = {t1, t2}
  Manifests = {m1}
  External = External
  NoThread = NoThread
  MaxAttempts = 2
INVARIANT
  LiveLaunchIsTracked
