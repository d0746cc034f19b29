SPECIFICATION FairSpec
CONSTANTS
  e1 = e1
  e2 = e2
  p1 = p1
  l1 = l1
  l2 = l2
  h1 = h1
  h2 = h2
  s1 = s1
  s2 = s2
  k1 = k1
  none = none
  Events = {e1, e2}
  Keys = {}
  NoKey = none
  KeyOf <- MCKeyNone
  MaxQueueLength = 0
  TtlEvents = {}
  BulkAllowed = FALSE
  Listeners = {l1}
  DropsAllowed = FALSE
  Procs = {p1}
  Owner <- MCOwner
  Handlers = {h1}
  Slots = {s1, s2}
  Concurrency = 1
  AckModes = {FALSE}
  DlqHandlers = {h1}
  UnsubscribeAllowed = FALSE
  MaxFailures = 0
  MaxCrashes = 0
  AdminOps = {}
PROPERTY ListIsDelivered
CHECK_DEADLOCK FALSE
