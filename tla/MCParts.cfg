SPECIFICATION PartsSpec
CONSTANTS
  Uploads = {u1, u2}
  Magics = {m1}
  NoUpload = NoUpload
  Names = {n1}
  Packets = 2
  MaxWire = 2
  None = None
  Invalid = Invalid
  Refused = Refused
  Inputs <- MCInputs
  Symbols = {"FF", "D8", "D9"}
  PartStart <- MCPartStart
  MaxStream = 9
  MaxChunk = 4
  MaxPending = 5
  Tasks = {t1, t2}
  Starts = {s1}
  Null = Null
  MaxOld = 2
  MaxNew = 3
SYMMETRY Interchangeable
CHECK_DEADLOCK FALSE
INVARIANT OneUploadAtATime
INVARIANT TransfersAgree
INVARIANT DoneIsJustified
INVARIANT CalculationsAgree
INVARIANT LayersDecode
INVARIANT JoinsAtAPart
INVARIANT LatestIsRight
INVARIANT CopiedExactlyOnce
PROPERTY NothingTwice
