\* Two tabs, lists of no rows, of one group and of three groups of pages.
CONSTANTS
  t1 = t1  t2 = t2
  Tab = {t1, t2}
  NoTab = NoTab
  Closed = Closed
  RowSize = 2
  PageSize = 2
  Counts = {0, 3, 9}
SYMMETRY Symmetric
SPECIFICATION Spec
INVARIANTS
  EveryRowReachable
  NeverNegative
  NeverStranded
  AloneConsistent
