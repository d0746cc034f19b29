SPECIFICATION Spec
CONSTANTS
  c1 = c1
  c2 = c2
  w1 = w1
  Calls = {c1, c2}
  MaxRetries = 1
  Requests <- MCRequests
  Workspaces = {w1}
  Metered = {w1}
  WorkspaceOf <- MCOneWorkspace
  SizeOf <- MCSizes
  MalformedSets <- MCMalformedSets
  Limits <- MCLimits
  MaxInFlight = 2
  MaxFaults = 1
INVARIANT NoDuplicateDocuments
CHECK_DEADLOCK FALSE
