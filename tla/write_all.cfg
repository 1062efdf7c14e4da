\* Two calls, one after the other or overlapping, with catalog failures and cancellation.
CONSTANTS
  c1 = c1
  c2 = c2
  a = a
  b = b
  Calls = {c1, c2}
  Aliases = {a, b}
  Requests <- TwoRequests
  Overlap = TRUE
  MaxFaults = 2
  MayCancel = TRUE
SPECIFICATION FairSpec
INVARIANTS
  AliasPresent
  FailureVisible
  OutcomesReturned
  CacheUsed
  ProgressLifecycle
PROPERTIES
  RestoredOnReturn
  CallsReturn
CHECK_DEADLOCK FALSE
