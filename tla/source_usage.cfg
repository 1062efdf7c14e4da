SPECIFICATION Spec
CONSTANTS
  Names = {n1, n2}
  Statements <- AllStatements
  MaxTables = 3
  MaxOutputs = 2
SYMMETRY NameSymmetry
INVARIANT NotUsedMeansUnread
CHECK_DEADLOCK FALSE
