CONSTANTS
  Callers = {c1, c2}
  Sizes = {1, 3}
  Limits = {1, 4}
  MaxSeq = 5
SPECIFICATION BufSpec
SYMMETRY Symmetry
INVARIANTS
  RingIsWindow
  NoSilentGap
PROPERTY
  NoRepeatedRecord
