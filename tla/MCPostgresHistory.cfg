SPECIFICATION PgSpec
CONSTANTS
  Tasks = {t1, t2}
  NoTask = NoTask
  MaxWire = 1
  MaxStops = 1
  MaxCalls = 2
SYMMETRY Symmetry
INVARIANT InsertIsNotSecond
PROPERTY ImplementsLedger
