CONSTANTS
  OutputCount = 2
  MaxAliases = 2
  MaxFiles = 2
  MaxRows = 2
SPECIFICATION Spec
INVARIANTS
  CountersAreOwn
  ShownIsCurrent
  OutcomeShown
  InterruptionDelivered
PROPERTY
  LastCountersShown
