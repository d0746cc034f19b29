SPECIFICATION MCSpec
CONSTANTS
  g1 = g1
  g2 = g2
  g3 = g3
  w1 = w1
  w2 = w2
  RelationWords <- MCRelationWords
  AlphaOrder <- MCAlphaOrder
  LogRatio <- MCLogRatio
  GraphDeliveries = {g1, g2, g3}
  ChunksOf <- MCChunksOf
  WorkspaceOf <- MCWorkspaceOf
  GraphConcurrency = 2
  GraphRetries = 1
  MaxGraphFaults = 2
  s1 = s1
  s2 = s2
  s3 = s3
  Signals = {s1, s2, s3}
  SignalOf <- MCSignalOf
  Posted <- MCPosted
  Indicators <- MCIndicators
  DomainsOf <- MCDomainsOf
  Threshold = 700
  RecentLimit = 2
  MaxProfileFaults = 1
  i1 = i1
  i2 = i2
  q1 = q1
  f1 = f1
  c1 = c1
  c2 = c2
  Discount <- MCDiscount
  TopK = 2
  EvalItems = {i1, i2}
  RelevantTo <- MCRelevantTo
  RetrievedFor <- MCRetrievedFor
  EvalRequests = {q1}
  Feedbacks = {f1}
  DatasetCalls = {c1, c2}
  QueryConcurrency = 1
  MaxEvalFaults = 1
INVARIANTS
  MemoriesTypeOK
  HeardIsStored
  DuplicatesAreAnnounced
  
  
  
  RunSettles
  ResultsAreWhole
CHECK_DEADLOCK FALSE
