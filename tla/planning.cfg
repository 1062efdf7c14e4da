SPECIFICATION Spec
CONSTANTS
  Names = {n1, n2, n3}
  Statements <- AllStatements
  MaxTables = 5
  MaxOutputs = 2
SYMMETRY NameSymmetry
INVARIANTS TablesKept UsageExact FrontierCovers AutoRunsOnceUnlessHidden ExplicitRunsOnce
CHECK_DEADLOCK FALSE
