SPECIFICATION PictureSpec
CONSTANTS
  Tasks = {t1, t2}
  NoTask = NoTask
  MaxRestarts = 1
  MaxRuns = 3
CHECK_DEADLOCK FALSE
SYMMETRY Symmetry
INVARIANT ReadyHasItsFile
