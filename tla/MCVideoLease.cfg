SPECIFICATION LeaseSpec
CONSTANTS
  Viewers = {v1, v2}
  MaxOpens = 2
  Tasks = {t1, t2}
  NoTask = NoTask
  Statuses = {"Exposing", "Idle"}
  MaxUpdates = 3
  MaxStreams = 2
CHECK_DEADLOCK FALSE
SYMMETRY Symmetry
PROPERTY NeverTurnedOffUnderAUser
INVARIANT LeaseIsExact
