SPECIFICATION Spec
SYMMETRY Alike
CONSTANTS
  gil = gil
  rui = rui
  a1 = a1
  a2 = a2
  y1 = y1
  y2 = y2
  Cases = {c1}
  Alerts = {a1, a2}
  Players = {y1, y2}
  PlayerOf <- OneEach
  Analysts = {}
  Managers = {gil, rui}
  Parallel = 2
  MaxPackages = 2
  None = None
INVARIANT FilingSound
INVARIANT SequentiallySound
PROPERTY ReportedTerminal
