SPECIFICATION Spec
CONSTANTS
  Script <- MCScript
  MaxErrors = 2
  MaxRemovals = 1
  MaxDeaths = 1
  MaxLaunches = 2
INVARIANTS CountedOnce MissedExplained DashboardAgrees
PROPERTIES LinesArrive
CHECK_DEADLOCK FALSE
