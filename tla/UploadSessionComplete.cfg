SPECIFICATION UploadSpec
CONSTANTS
  u1 = u1
  u2 = u2
  Sessions = {u1, u2}
  TotalChunks = 3
INVARIANT CompleteUpload
CHECK_DEADLOCK FALSE
