SPECIFICATION FairSpec
CONSTANTS
  Tasks = {t1, t2}
  NoTask = NoTask
  MaxWire = 2
  MaxStops = 1
INVARIANT OneOpenRowPerTask
INVARIANT CompleteIsTrue
INVARIANT TrackingIsRight
PROPERTY ImplementsLedger
PROPERTY CompletedIsSettled
