SPECIFICATION FilesSpec
CONSTANTS
  Paths = {a}
  Contents <- MCContents
  SizeOf <- MCSizeOf
  Pictured <- MCContents
  NoFile = NoFile
  c1 = c1
  c2 = c2
  c3 = c3
  Loads = {l1}
  MaxEvents = 2
CHECK_DEADLOCK FALSE
INVARIANT OwnChangesAreShown
