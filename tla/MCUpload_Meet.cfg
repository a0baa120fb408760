SPECIFICATION UploadSpec
CONSTANTS
  Uploads = {u1}
  Magics = {m1}
  NoUpload = NoUpload
  Names = {n1}
  Packets = 2
  MaxWire = 1
CHECK_DEADLOCK FALSE
INVARIANT TransfersStayApart
