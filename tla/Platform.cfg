SPECIFICATION MCSpec
CONSTANTS
  j1 = j1
  j2 = j2
  p1 = p1
  p2 = p2
  db = db
  SyncCalls = {j1, j2}
  ModeOf <- MCModeOf
  SourceItems = {p1, p2, db}
  Archived = {p2}
  PageLists <- MCPageLists
  DatabaseLists <- MCDatabaseLists
  PagesIn <- MCPagesIn
  NotionRetries = 1
  MaxNow = 3
  MaxSyncFaults = 2
  f1 = f1
  f2 = f2
  b1 = b1
  b2 = b2
  b3 = b3
  u1 = u1
  Flows = {f1, f2}
  Callbacks = {b1, b2, b3}
  FlowOf <- MCFlowOf
  TokenUsers = {u1}
  MaxGrants = 4
  MaxOAuthFaults = 1
  c1 = c1
  c2 = c2
  c3 = c3
  c4 = c4
  s1 = s1
  ModelCallers = {c1, c2, c3, c4}
  ProviderOf <- MCProviderOf
  Conversation <- MCConversation
  Streams = {s1}
  MaxRequests = 2
  Interval = 3
  MaxConcurrent = 2
  WrapRetries = 1
  ProviderRetries = 2
  BaseDelay = 1
  MaxDelay = 2
  Replies = {200, 429, 500, 400, 529}
  MaxPieces = 1
  MaxClock = 7
  MaxResets = 1
  k1 = k1
  k2 = k2
  k3 = k3
  k4 = k4
  q1 = q1
  IndexedChunks = {k1, k2, k3, k4}
  ChunkData <- MCChunkData
  Searches = {q1}
  SearchRequests <- MCSearchRequests
  GivenScores <- MCScores
  ContextRequests <- MCContextRequests
  RrfK = 60
  MinFetch = 3
  MaxLogs = 1
  MaxIndexWrites = 1
  MovingChunks = {k1}
  MaxSearchFaults = 1
  GatewayRequests <- MCGatewayRequests
  LimitOf <- MCLimitOf
  RepliesOf <- MCRepliesOf
  WindowMs = 2
  MaxGatewayCalls = 4
  MaxGatewayClock = 3
  MaxGatewayRestarts = 1
  d1 = d1
  d2 = d2
  d3 = d3
  d4 = d4
  h1 = h1
  h2 = h2
  h3 = h3
  ListedDocs = {d1, d2, d3, d4}
  FirstDocs = {d1, d2, d3}
  CreatedAt <- MCCreatedAt
  StatusOf <- MCStatusOf
  ListParams <- MCListParams
  DefaultLimit = 2
  HookCalls = {h1, h2, h3}
INVARIANTS
  PlatformTypeOK
  
  SyncIsWhole
  TokensAreTheAccounts
  
  
  ContextFits
  LimitIsKept
  
CHECK_DEADLOCK FALSE
