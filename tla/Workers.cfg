SPECIFICATION MCSpec
CONSTANTS
  u1 = u1
  u2 = u2
  Sessions = {u1, u2}
  TotalChunks = 3
  m1 = m1
  m2 = m2
  m3 = m3
  d1 = d1
  Deliveries = {m1, m2, m3}
  Documents = {d1}
  DocumentOf <- MCDocumentOf
  MaxConcurrency = 2
  ExtractOutcomes = {"text", "fatal", "retryable"}
  MaxExtractFaults = 2
  r1 = r1
  r2 = r2
  r3 = r3
  IndexRuns = {r1, r2, r3}
  IndexedDocs = {d1}
  DocOfRun <- MCDocOfRun
  WithText = {r1, r2}
  MaxIndexRetries = 1
  MaxIndexFaults = 3
  ChunkTexts <- MCChunkTexts
  ChunkOptions <- MCChunkOptions
  Separators <- MCSeparators
  request = request
  health = health
  message = message
  job = job
  Tasks = {request, health, message, job}
  TaskKind <- MCTaskKind
  Shutdowns = {1, 2}
  MaxLifeFaults = 1
  LiveServices = {"gateway", "retrieval", "evaluation", "indexing", "ingestion", "connector", "profile", "extraction", "graph"}
SYMMETRY MCTextRuns
INVARIANTS
  WorkersTypeOK
  UploadAccounting
  JobSlots
  ReturnedIsSettled
  AnnouncementsHold
  ReadyIsIndexed
  OutcomeIsSettled
  
  
CHECK_DEADLOCK FALSE
