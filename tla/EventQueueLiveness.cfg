SPECIFICATION FairSpec
CONSTANTS
  e1 = e1
  e2 = e2
  p1 = p1
  l1 = l1
  l2 = l2
  h1 = h1
  h2 = h2
  s1 = s1
  s2 = s2
  k1 = k1
  none = none
  Events = {e1, e2}
  Keys = {}
  NoKey = none
  KeyOf <- MCKeyNone
  MaxQueueLength = 0
  TtlEvents = {}
  BulkAllowed = FALSE
  Listeners = {l1}
  DropsAllowed = TRUE
  Procs = {p1}
  Owner <- MCOwner
  Handlers = {h1}
  Slots = {s1, s2}
  Concurrency = 1
  AckModes = {TRUE, FALSE}
  DlqHandlers = {h1}
  UnsubscribeAllowed = FALSE
  MaxFailures = 1
  MaxCrashes = 1
  AdminOps = {}
PROPERTIES
  
  BacklogDelivered
CHECK_DEADLOCK FALSE
