\* Two processes with a thread each or one with both; two documents of a host.
CONSTANTS
  Hosts = {"excel", "word", "powerpoint", "onenote", "outlook"}
  Sheets = {"s1", "s2"}
  NoSheet = "active"
  Texts = {"x", "y"}
  Blank = "blank"
  Items = {"i1", "i2"}
  MaxParts = 2
  Files = {"a", "b", ""}
  Cacheable = {"a", "b"}
  Procs = {p1, p2}
  Threads = {t1, t2}
  MaxCalls = 3
  MaxEdits = 1
SPECIFICATION Spec
SYMMETRY Symmetry
CHECK_DEADLOCK FALSE
INVARIANTS
  RepeatIsHarmless
  AdditiveToolsKeepContent
PROPERTIES
  HitIsLatestSaved
  SavedIsKept
