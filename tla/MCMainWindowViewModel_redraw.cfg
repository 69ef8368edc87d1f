SPECIFICATION Spec
CONSTANTS
  Solves = {s1}
  AxisCounts = {2, 3}
  Titles = {t1, t2}
  Ranges = {1, 2}
  Qualities = {q1}
  MaxGraphs = 2
  MaxBoxes = 2
SYMMETRY Symmetry
CHECK_DEADLOCK FALSE
INVARIANTS TypeOK AxesMatchGraphs NoLostRedraw
PROPERTY AnswersAreKept
