SPECIFICATION Spec
CONSTANTS
  Threads = {t1, t2}
  Tools = {"select", "close", "navigate", "snapshot", "click", "fill"}
  Pages = {p1, p2}
  Sites = {s1}
  Uids = {u1}
  None = None
  MaxSids = 2
  MaxDocs = 1
  MaxCalls = 3
SYMMETRY Symmetry
INVARIANTS
  NodeIsOnAttachedPage
  TargetIdIsHonored
  DomainIsEnabledBeforeUse
CHECK_DEADLOCK FALSE
