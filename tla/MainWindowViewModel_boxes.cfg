SPECIFICATION Spec
CONSTANTS
  Solves = {s1}
  AxisCounts = {2, 3}
  Titles = {t1}
  Ranges = {1}
  Qualities = {q1}
  MaxGraphs = 3
  MaxBoxes = 2
CHECK_DEADLOCK FALSE
PROPERTY ChartCatchesUp
