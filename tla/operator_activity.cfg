SPECIFICATION MCSpec
CONSTANTS
  Workers = {w1, w2}
  Main = main
  Streams = {s1, s2}
  FirstStreams = {s1}
  ScanStreams = {s2}
  Tasks = {k1, k2}
  MaxSpans = 1
  MaxDepth = 2
  MaxNodes = 4
  MaxChildren = 2
SYMMETRY ThreadSymmetry
INVARIANTS LaneExclusive LanesBounded IdentityKept TruncationAnnouncedOnce
PROPERTIES NumberedAsProfiled
CHECK_DEADLOCK FALSE
