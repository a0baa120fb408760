SPECIFICATION MigrationSpec
CONSTANTS
  Tasks = {t1, t2}
  Starts = {s1}
  Null = Null
  MaxOld = 2
  MaxNew = 3
CHECK_DEADLOCK FALSE
INVARIANT PresentIsSkipped
