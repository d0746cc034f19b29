SPECIFICATION Spec
CONSTANTS
  e1 = e1
  e2 = e2
  p1 = p1
  l1 = l1
  l2 = l2
  h1 = h1
  h2 = h2
  s1 = s1
  s2 = s2
  k1 = k1
  none = none
  Events = {e1}
  Keys = {}
  NoKey = none
  KeyOf <- MCKeyNone
  MaxQueueLength = 0
  TtlEvents = {}
  BulkAllowed = FALSE
  Listeners = {l1, l2}
  DropsAllowed = TRUE
  Procs = {p1}
  Owner <- MCOwner
  Handlers = {h1, h2}
  Slots = {s1, s2}
  Concurrency = 1
  AckModes = {FALSE}
  DlqHandlers = {h1}
  UnsubscribeAllowed = TRUE
  MaxFailures = 1
  MaxCrashes = 1
  AdminOps = {"purge", "remove"}
SYMMETRY MCSymmetry
INVARIANTS
  ActiveAccounting
  ConcurrencyBound
  DrainHoldsOne
CHECK_DEADLOCK FALSE
