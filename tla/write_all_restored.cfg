\* Two overlapping calls on the same alias: what materialized_and_restored means.
CONSTANTS
  c1 = c1
  c2 = c2
  a = a
  b = b
  Calls = {c1, c2}
  Aliases = {a}
  Requests <- SameAlias
  Overlap = TRUE
  MaxFaults = 0
  MayCancel = FALSE
SPECIFICATION Spec
INVARIANT RestoredMeansOriginal
CHECK_DEADLOCK FALSE
