SPECIFICATION ArchiverSpec
CONSTANTS
  Tasks = {t1, t2}
  NoTask = NoTask
  NoEntry = NoEntry
  Statuses = {"Lifting", "Dropping", "Stopping"}
  MaxUpdates = 4
CHECK_DEADLOCK FALSE
SYMMETRY Symmetry
INVARIANT ArchiveIsRight
INVARIANT NothingTakenIsLost
PROPERTY AssemblesWhatStands
